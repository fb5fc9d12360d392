------------------------------ MODULE Recursion ------------------------------
(***************************************************************************)
(* Recursive functions along a list and along a set: that they exist, that *)
(* there is one only, and what the operators of Filters come to.           *)
(***************************************************************************)
EXTENDS Filters, TLAPS, FiniteSetTheorems, SequenceTheorems, WellFoundedInduction

\* A nonempty set of naturals has a least element: the first rule that matches exists.
LEMMA FirstExists ==
    ASSUME NEW S \in SUBSET Nat, S # {}
    PROVE  \E i \in S : \A j \in S : i <= j
  <1>1. PICK i \in S : \A j \in S : ~ (<<j, i>> \in OpToRel(<, Nat))
    BY WFMin, NatLessThanWellFounded
  <1>2. \A j \in S : ~ (j < i)
    BY <1>1 DEF OpToRel
  <1> QED
    BY <1>2

\* Induction, on the set of the numbers that have a property.
LEMMA Induction ==
    ASSUME NEW S, 0 \in S, \A n \in S \cap Nat : n + 1 \in S
    PROVE  Nat \subseteq S
  <1>1. SUFFICES ASSUME Nat \ S # {}
                 PROVE  FALSE
    OBVIOUS
  <1>2. PICK i \in Nat \ S : \A j \in Nat \ S : i <= j
    BY <1>1, FirstExists
  <1>3. i - 1 \in Nat /\ i - 1 \in S
    BY <1>2
  <1> QED
    BY <1>2, <1>3

\* g is what recursion from base by step gives.
Recurs(g, base, step, V, N) ==
    /\ g \in [0 .. N -> V] /\ g[0] = base
    /\ \A i \in 1 .. N : g[i] = step[i][g[i - 1]]

\* A function on 0 .. N may be defined by recursion.
LEMMA Recursion ==
    ASSUME NEW V, NEW base \in V, NEW N \in Nat, NEW step \in [1 .. N -> [V -> V]]
    PROVE  \E g : Recurs(g, base, step, V, N)
  <1> DEFINE Good == {n \in Nat : n <= N => \E g : Recurs(g, base, step, V, n)}
  <1>1. 0 \in Good
    <2> DEFINE g == [i \in 0 .. 0 |-> base]
    <2>1. Recurs(g, base, step, V, 0)
      BY DEF Recurs
    <2> QED
      BY <2>1
  <1>2. ASSUME NEW n \in Good \cap Nat
        PROVE  n + 1 \in Good
    <2>1. SUFFICES ASSUME n + 1 <= N
                   PROVE  \E g : Recurs(g, base, step, V, n + 1)
      OBVIOUS
    <2>2. PICK g : Recurs(g, base, step, V, n)
      BY <2>1
    <2> DEFINE h == [i \in 0 .. n + 1 |-> IF i = n + 1 THEN step[n + 1][g[n]] ELSE g[i]]
    <2>3. g[n] \in V /\ step[n + 1][g[n]] \in V
      BY <2>1, <2>2 DEF Recurs
    <2>4. h \in [0 .. n + 1 -> V] /\ h[0] = base
      BY <2>2, <2>3 DEF Recurs
    <2>5. ASSUME NEW i \in 1 .. n + 1
          PROVE  h[i] = step[i][h[i - 1]]
      <3>1. CASE i = n + 1
        BY <3>1
      <3>2. CASE i # n + 1
        <4>1. i \in 1 .. n /\ h[i] = g[i] /\ h[i - 1] = g[i - 1]
          BY <3>2
        <4> QED
          BY <2>2, <4>1 DEF Recurs
      <3> QED
        BY <3>1, <3>2
    <2>6. Recurs(h, base, step, V, n + 1)
      BY <2>4, <2>5, Zenon DEF Recurs
    <2> QED
      BY <2>6
  <1>3. N \in Good
    <2> HIDE DEF Good
    <2> QED
      BY <1>1, <1>2, Induction
  <1> QED
    BY <1>3

\* c is a function that satisfies the equations; what its values are is not known yet.
Solves(c, base, step, V, N) ==
    /\ c = [i \in 0 .. N |-> c[i]] /\ c[0] = base
    /\ \A i \in 1 .. N : c[i - 1] \in V => c[i] = step[i][c[i - 1]]

\* There is only one such function.
LEMMA OneRecursion ==
    ASSUME NEW V, NEW base, NEW N \in Nat, NEW step, NEW g, Recurs(g, base, step, V, N),
           NEW c, Solves(c, base, step, V, N)
    PROVE  c = g
  <1> DEFINE Good == {n \in Nat : n <= N => c[n] = g[n]}
  <1>1. 0 \in Good
    BY DEF Recurs, Solves
  <1>2. ASSUME NEW n \in Good \cap Nat
        PROVE  n + 1 \in Good
    <2>1. SUFFICES ASSUME n + 1 <= N
                   PROVE  c[n + 1] = g[n + 1]
      OBVIOUS
    <2>2. n + 1 \in 1 .. N /\ c[n] = g[n] /\ (n + 1) - 1 = n /\ g[n] \in V
      BY <2>1 DEF Recurs
    <2> QED
      BY <2>2 DEF Recurs, Solves
  <1>3. \A i \in 0 .. N : c[i] = g[i]
    <2>1. Nat \subseteq Good
      <3> HIDE DEF Good
      <3> QED
        BY <1>1, <1>2, Induction
    <2> QED
      BY <2>1
  <1>4. g = [i \in 0 .. N |-> g[i]] /\ c = [i \in 0 .. N |-> c[i]]
    BY DEF Recurs, Solves
  <1> QED
    BY <1>3, <1>4

\* What Kept computes, element by element.
Keeping(g, A, s, S) ==
    /\ g \in [0 .. Len(s) -> Seq(A)] /\ g[0] = <<>>
    /\ \A i \in 1 .. Len(s) :
          g[i] = IF s[i] \in S THEN Append(g[i - 1], s[i]) ELSE g[i - 1]

\* The function that Kept recurs on.
Keeps(g, s, S) ==
    g = [i \in 0 .. Len(s) |->
            IF i = 0 THEN <<>> ELSE IF s[i] \in S THEN Append(g[i - 1], s[i]) ELSE g[i - 1]]

\* Kept is the last of those.
LEMMA KeptSteps ==
    ASSUME NEW A, NEW s \in Seq(A), NEW S
    PROVE  \E g : Keeping(g, A, s, S) /\ Kept(s, S) = g[Len(s)]
  <1> DEFINE V == Seq(A)
             N == Len(s)
             step == [i \in 1 .. N |-> [v \in V |-> IF s[i] \in S THEN Append(v, s[i]) ELSE v]]
  <1>1. N \in Nat /\ <<>> \in V /\ \A i \in 1 .. N : s[i] \in A /\ i \in 0 .. N /\ i # 0
    OBVIOUS
  <1>2. step \in [1 .. N -> [V -> V]]
    BY <1>1
  <1>3. PICK g : Recurs(g, <<>>, step, V, N)
    <2> HIDE DEF V, N, step
    <2> QED
      BY <1>1, <1>2, Recursion
  <1>4. Keeping(g, A, s, S)
    <2>1. ASSUME NEW i \in 1 .. N
          PROVE  g[i] = IF s[i] \in S THEN Append(g[i - 1], s[i]) ELSE g[i - 1]
      <3>1. g[i - 1] \in V
        BY <1>1, <1>3 DEF Recurs
      <3>2. g[i] = step[i][g[i - 1]]
        BY <1>3 DEF Recurs
      <3> QED
        BY <3>1, <3>2
    <2> QED
      BY <1>3, <2>1 DEF Keeping, Recurs
  <1>5. Keeps(g, s, S)
    <2>1. DOMAIN g = 0 .. N /\ g = [i \in DOMAIN g |-> g[i]]
      BY <1>3 DEF Recurs
    <2>2. \A i \in 0 .. N : i # 0 => i \in 1 .. N
      BY <1>1
    <2> QED
      BY <1>4, <2>1, <2>2 DEF Keeping, Keeps
  <1> DEFINE c == CHOOSE h : Keeps(h, s, S)
  <1>6. Keeps(c, s, S) /\ Kept(s, S) = c[Len(s)]
    <2>1. Kept(s, S) = c[Len(s)]
      BY Zenon DEF Kept, Keeps
    <2> QED
      BY <1>5, <2>1, Zenon
  <1>7. c = g
    <2> HIDE DEF c
    <2>1. c[0] = <<>> /\ c = [i \in 0 .. N |-> c[i]]
      BY <1>1, <1>6 DEF Keeps
    <2>2. \A i \in 1 .. N : c[i] = IF s[i] \in S THEN Append(c[i - 1], s[i]) ELSE c[i - 1]
      BY <1>1, <1>6 DEF Keeps
    <2>3. \A i \in 1 .. N : c[i - 1] \in V => c[i] = step[i][c[i - 1]]
      BY <2>2
    <2>4. Solves(c, <<>>, step, V, N)
      BY <2>1, <2>3 DEF Solves
    <2> HIDE DEF V, N, step
    <2> QED
      BY <1>1, <1>3, <2>4, OneRecursion
  <1> QED
    BY <1>4, <1>6, <1>7

\* Nothing is kept of nothing.
LEMMA KeptNone == \A S : Kept(<<>>, S) = <<>>
  <1> SUFFICES ASSUME NEW S
               PROVE  Kept(<<>>, S) = <<>>
    OBVIOUS
  <1>1. <<>> \in Seq({}) /\ Len(<<>>) = 0
    OBVIOUS
  <1> QED
    <2>1. PICK g : Keeping(g, {}, <<>>, S) /\ Kept(<<>>, S) = g[0]
      BY <1>1, KeptSteps
    <2> QED
      BY <1>1, <2>1 DEF Keeping

\* What is kept of a sequence that got one element more.
LEMMA KeptAppend ==
    ASSUME NEW A, NEW s \in Seq(A), NEW e \in A, NEW S
    PROVE  /\ Kept(s, S) \in Seq(A)
           /\ Kept(Append(s, e), S) = IF e \in S THEN Append(Kept(s, S), e) ELSE Kept(s, S)
  <1> DEFINE t == Append(s, e)
  <1>1. /\ t \in Seq(A) /\ Len(t) = Len(s) + 1 /\ t[Len(t)] = e
        /\ Len(s) \in Nat /\ \A i \in 1 .. Len(s) : t[i] = s[i]
    OBVIOUS
  <1> HIDE DEF t
  <1>2. PICK g : Keeping(g, A, s, S) /\ Kept(s, S) = g[Len(s)]
    BY KeptSteps
  <1>3. PICK h : Keeping(h, A, t, S) /\ Kept(t, S) = h[Len(t)]
    BY <1>1, KeptSteps
  <1>4. h[Len(s)] = g[Len(s)]
    <2> DEFINE Good == {n \in Nat : n <= Len(s) => h[n] = g[n]}
    <2>1. 0 \in Good
      BY <1>2, <1>3 DEF Keeping
    <2>2. ASSUME NEW n \in Good \cap Nat
          PROVE  n + 1 \in Good
      <3>1. SUFFICES ASSUME n + 1 <= Len(s)
                     PROVE  h[n + 1] = g[n + 1]
        OBVIOUS
      <3>2. n + 1 \in 1 .. Len(s) /\ n + 1 \in 1 .. Len(t) /\ h[n] = g[n] /\ t[n + 1] = s[n + 1]
            /\ (n + 1) - 1 = n
        BY <1>1, <3>1
      <3> QED
        BY <1>2, <1>3, <3>2 DEF Keeping
    <2>3. Nat \subseteq Good
      <3> HIDE DEF Good
      <3> QED
        BY <2>1, <2>2, Induction
    <2> QED
      BY <1>1, <2>3
  <1>5. Len(t) \in 1 .. Len(t) /\ Len(t) - 1 = Len(s)
    BY <1>1
  <1>6. Kept(t, S) = IF e \in S THEN Append(h[Len(s)], e) ELSE h[Len(s)]
    BY <1>1, <1>3, <1>5 DEF Keeping
  <1>7. g[Len(s)] \in Seq(A) /\ Kept(s, S) = g[Len(s)]
    BY <1>1, <1>2 DEF Keeping
  <1> QED
    BY <1>4, <1>6, <1>7 DEF t

\* What a recursion along a longer list comes to.
LEMMA Prefix ==
    ASSUME NEW V, NEW base, NEW N \in Nat, NEW short, NEW long,
           NEW g, Recurs(g, base, short, V, N), NEW h, Recurs(h, base, long, V, N + 1),
           \A i \in 1 .. N : short[i] = long[i]
    PROVE  g[N] \in V /\ h[N + 1] = long[N + 1][g[N]]
  <1> DEFINE Good == {n \in Nat : n <= N => h[n] = g[n]}
  <1>1. 0 \in Good
    BY DEF Recurs
  <1>2. ASSUME NEW n \in Good \cap Nat
        PROVE  n + 1 \in Good
    <2>1. SUFFICES ASSUME n + 1 <= N
                   PROVE  h[n + 1] = g[n + 1]
      OBVIOUS
    <2>2. n + 1 \in 1 .. N /\ n + 1 \in 1 .. N + 1 /\ h[n] = g[n] /\ (n + 1) - 1 = n
      BY <2>1
    <2> QED
      BY <2>2 DEF Recurs
  <1>3. Nat \subseteq Good
    <2> HIDE DEF Good
    <2> QED
      BY <1>1, <1>2, Induction
  <1>4. h[N] = g[N] /\ N + 1 \in 1 .. N + 1 /\ (N + 1) - 1 = N /\ N \in 0 .. N
    BY <1>3
  <1> QED
    BY <1>4 DEF Recurs

\* What holds of no element, and of one more whenever it holds of some, holds of every list.
LEMMA Growing ==
    ASSUME NEW A, NEW X, <<>> \in X, \A s \in X \cap Seq(A), e \in A : Append(s, e) \in X
    PROVE  Seq(A) \subseteq X
  <1> DEFINE Good == {n \in Nat : \A s \in Seq(A) : Len(s) = n => s \in X}
  <1>1. 0 \in Good
    <2>1. \A s \in Seq(A) : Len(s) = 0 => s = <<>>
      OBVIOUS
    <2> QED
      BY <2>1
  <1>2. ASSUME NEW n \in Good \cap Nat
        PROVE  n + 1 \in Good
    <2>1. SUFFICES ASSUME NEW s \in Seq(A), Len(s) = n + 1
                   PROVE  s \in X
      OBVIOUS
    <2> DEFINE t == [i \in 1 .. n |-> s[i]]
    <2>2. t \in Seq(A) /\ Len(t) = n /\ s[n + 1] \in A /\ \A i \in 1 .. n : t[i] = s[i]
      BY <2>1
    <2>3. t \in X
      BY <2>2
    <2> HIDE DEF t
    <2> DEFINE u == Append(t, s[n + 1])
    <2>4. u \in Seq(A) /\ Len(u) = Len(s) /\ \A i \in 1 .. Len(s) : u[i] = s[i]
      BY <2>1, <2>2
    <2>5. u \in X
      BY <2>2, <2>3
    <2> HIDE DEF u
    <2>6. u = s
      BY <2>4, SeqEqual
    <2> QED
      BY <2>5, <2>6
  <1>3. Nat \subseteq Good
    <2> HIDE DEF Good
    <2> QED
      BY <1>1, <1>2, Induction
  <1>4. \A s \in Seq(A) : Len(s) \in Nat
    OBVIOUS
  <1> QED
    BY <1>3, <1>4

\* The steps of Joined, and the function it recurs on.
JoinSteps(A, ss) == [i \in 1 .. Len(ss) |-> [v \in Seq(A) |-> v \o ss[i]]]
Joining(g, ss) == g = [i \in 0 .. Len(ss) |-> IF i = 0 THEN <<>> ELSE g[i - 1] \o ss[i]]

\* Joined is the last of those.
LEMMA JoinedSteps ==
    ASSUME NEW A, NEW ss \in Seq(Seq(A))
    PROVE  \E g : Recurs(g, <<>>, JoinSteps(A, ss), Seq(A), Len(ss)) /\ Joined(ss) = g[Len(ss)]
  <1> DEFINE V == Seq(A)
             N == Len(ss)
             step == JoinSteps(A, ss)
  <1>1. N \in Nat /\ <<>> \in V /\ \A i \in 1 .. N : ss[i] \in V /\ i \in 0 .. N /\ i # 0
    OBVIOUS
  <1>2. step \in [1 .. N -> [V -> V]]
    BY <1>1 DEF JoinSteps
  <1>3. PICK g : Recurs(g, <<>>, step, V, N)
    <2> HIDE DEF V, N, step
    <2> QED
      BY <1>1, <1>2, Recursion
  <1>4. \A i \in 1 .. N, v \in V : step[i][v] = v \o ss[i]
    BY DEF JoinSteps
  <1> HIDE DEF step
  <1>5. Joining(g, ss)
    <2>1. ASSUME NEW i \in 1 .. N
          PROVE  g[i] = g[i - 1] \o ss[i]
      <3>1. g[i - 1] \in V
        <4> HIDE DEF V, N
        <4> QED
          BY <1>1, <1>3 DEF Recurs
      <3>2. g[i] = step[i][g[i - 1]]
        BY <1>3 DEF Recurs
      <3> QED
        BY <1>4, <3>1, <3>2
    <2>2. DOMAIN g = 0 .. N /\ g = [i \in DOMAIN g |-> g[i]] /\ g[0] = <<>>
      BY <1>3 DEF Recurs
    <2>3. \A i \in 0 .. N : i # 0 => i \in 1 .. N
      BY <1>1
    <2> QED
      BY <2>1, <2>2, <2>3 DEF Joining
  <1> DEFINE c == CHOOSE h : Joining(h, ss)
  <1>6. Joining(c, ss) /\ Joined(ss) = c[N]
    <2>1. Joined(ss) = c[N]
      BY Zenon DEF Joined, Joining
    <2> QED
      BY <1>5, <2>1, Zenon
  <1>7. c = g
    <2> HIDE DEF c
    <2>1. c[0] = <<>> /\ c = [i \in 0 .. N |-> c[i]]
      BY <1>1, <1>6 DEF Joining
    <2>2. \A i \in 1 .. N : c[i] = c[i - 1] \o ss[i]
      BY <1>1, <1>6 DEF Joining
    <2>3. Solves(c, <<>>, step, V, N)
      BY <1>4, <2>1, <2>2 DEF Solves
    <2> HIDE DEF V, N
    <2> QED
      BY <1>1, <1>3, <2>3, OneRecursion
  <1> QED
    BY <1>3, <1>6, <1>7 DEF step

\* No sequences are the empty one together.
LEMMA JoinedNone == Joined(<<>>) = <<>>
  <1>1. <<>> \in Seq(Seq({})) /\ Len(<<>>) = 0
    OBVIOUS
  <1>2. PICK g : Recurs(g, <<>>, JoinSteps({}, <<>>), Seq({}), 0) /\ Joined(<<>>) = g[0]
    BY <1>1, JoinedSteps
  <1> QED
    BY <1>2 DEF Recurs

\* One sequence more comes last.
LEMMA JoinedAppend ==
    ASSUME NEW A, NEW ss \in Seq(Seq(A)), NEW s \in Seq(A)
    PROVE  Joined(ss) \in Seq(A) /\ Joined(Append(ss, s)) = Joined(ss) \o s
  <1> DEFINE t == Append(ss, s)
             N == Len(ss)
  <1>1. /\ t \in Seq(Seq(A)) /\ Len(t) = N + 1 /\ t[N + 1] = s
        /\ N \in Nat /\ \A i \in 1 .. N : t[i] = ss[i]
    OBVIOUS
  <1> HIDE DEF t
  <1>2. PICK g : Recurs(g, <<>>, JoinSteps(A, ss), Seq(A), N) /\ Joined(ss) = g[N]
    BY JoinedSteps
  <1>3. PICK h : Recurs(h, <<>>, JoinSteps(A, t), Seq(A), N + 1) /\ Joined(t) = h[N + 1]
    BY <1>1, JoinedSteps
  <1>4. /\ \A i \in 1 .. N : JoinSteps(A, ss)[i] = JoinSteps(A, t)[i]
        /\ \A v \in Seq(A) : JoinSteps(A, t)[N + 1][v] = v \o s
    <2>1. ASSUME NEW i \in 1 .. N
          PROVE  JoinSteps(A, ss)[i] = JoinSteps(A, t)[i]
      <3>1. /\ JoinSteps(A, ss)[i] = [v \in Seq(A) |-> v \o ss[i]]
            /\ JoinSteps(A, t)[i] = [v \in Seq(A) |-> v \o t[i]]
        <4>1. i \in 1 .. Len(ss) /\ i \in 1 .. Len(t)
          BY <1>1
        <4> QED
          BY <4>1, Zenon DEF JoinSteps
      <3>2. ss[i] = t[i]
        BY <1>1
      <3> QED
        BY <3>1, <3>2
    <2>2. JoinSteps(A, t)[N + 1] = [v \in Seq(A) |-> v \o t[N + 1]]
      <3>1. N + 1 \in 1 .. Len(t)
        BY <1>1
      <3> QED
        BY <3>1, Zenon DEF JoinSteps
    <2> QED
      BY <1>1, <2>1, <2>2
  <1>5. g[N] \in Seq(A) /\ h[N + 1] = JoinSteps(A, t)[N + 1][g[N]]
    <2> DEFINE V == Seq(A)
               short == JoinSteps(A, ss)
               long == JoinSteps(A, t)
    <2>1. Recurs(g, <<>>, short, V, N) /\ Recurs(h, <<>>, long, V, N + 1)
      BY <1>2, <1>3
    <2> HIDE DEF V, short, long, N
    <2>2. \A i \in 1 .. N : short[i] = long[i]
      BY <1>4 DEF short, long
    <2>3. g[N] \in V /\ h[N + 1] = long[N + 1][g[N]]
      BY <1>1, <2>1, <2>2, Prefix
    <2> QED
      BY <2>3 DEF V, long
  <1> QED
    BY <1>2, <1>3, <1>4, <1>5 DEF t

\* What an element at the end changes.
LEMMA AppendDomains ==
    ASSUME NEW A, NEW q \in Seq(A), NEW e \in A
    PROVE  /\ Append(q, e) \in Seq(A) /\ Len(q) \in Nat /\ Len(Append(q, e)) = Len(q) + 1
           /\ Append(q, e)[Len(Append(q, e))] = e
           /\ \A i \in DOMAIN q :
                 i \in DOMAIN Append(q, e) /\ Append(q, e)[i] = q[i] /\ i # Len(Append(q, e))
           /\ \A i \in DOMAIN Append(q, e) : i \in DOMAIN q \/ i = Len(Append(q, e))
           /\ Len(Append(q, e)) \in DOMAIN Append(q, e)
  <1> DEFINE t == Append(q, e)
  <1>1. t \in Seq(A) /\ Len(q) \in Nat /\ Len(t) = Len(q) + 1 /\ t[Len(q) + 1] = e
    OBVIOUS
  <1>2. \A i \in 1 .. Len(q) : t[i] = q[i]
    OBVIOUS
  <1>3. DOMAIN q = 1 .. Len(q) /\ DOMAIN t = 1 .. Len(t)
    OBVIOUS
  <1> HIDE DEF t
  <1> QED
    BY <1>1, <1>2, <1>3 DEF t

\* All that is kept is of the set.
LEMMA KeptOf ==
    ASSUME NEW A, NEW s \in Seq(A), NEW S
    PROVE  Kept(s, S) \in Seq(A \cap S)
  <1> DEFINE X == {q \in Seq(A) : Kept(q, S) \in Seq(A \cap S)}
  <1>1. <<>> \in X
    <2>1. <<>> \in Seq(A) /\ <<>> \in Seq(A \cap S)
      OBVIOUS
    <2>2. Kept(<<>>, S) = <<>>
      BY KeptNone
    <2> QED
      BY <2>1, <2>2
  <1>2. ASSUME NEW q \in X \cap Seq(A), NEW e \in A
        PROVE  Append(q, e) \in X
    <2>1. Append(q, e) \in Seq(A)
      OBVIOUS
    <2>2. Kept(Append(q, e), S) = IF e \in S THEN Append(Kept(q, S), e) ELSE Kept(q, S)
      BY KeptAppend
    <2> QED
      BY <2>1, <2>2
  <1> HIDE DEF X
  <1>3. Seq(A) \subseteq X
    BY <1>1, <1>2, Growing
  <1> QED
    BY <1>3 DEF X

\* What is in the set altogether is kept.
LEMMA KeptAll ==
    ASSUME NEW A, NEW S, A \subseteq S, NEW s \in Seq(A)
    PROVE  Kept(s, S) = s
  <1> DEFINE X == {q \in Seq(A) : Kept(q, S) = q}
  <1>1. <<>> \in X
    BY KeptNone
  <1>2. ASSUME NEW q \in X \cap Seq(A), NEW e \in A
        PROVE  Append(q, e) \in X
    <2>1. Append(q, e) \in Seq(A) /\ e \in S
      OBVIOUS
    <2>2. Kept(Append(q, e), S) = IF e \in S THEN Append(Kept(q, S), e) ELSE Kept(q, S)
      BY KeptAppend
    <2> QED
      BY <2>1, <2>2
  <1> HIDE DEF X
  <1>3. Seq(A) \subseteq X
    BY <1>1, <1>2, Growing
  <1> QED
    BY <1>3 DEF X

\* Only the first is not in the set.
LEMMA KeptRest ==
    ASSUME NEW A, NEW S, A \subseteq S, NEW a, a \notin S, NEW s \in Seq(A)
    PROVE  Kept(<<a>> \o s, S) = s
  <1> DEFINE B == A \cup {a}
             X == {q \in Seq(A) : Kept(<<a>> \o q, S) = q}
  <1>1. <<>> \in X
    <2>1. <<>> \in Seq(B) /\ a \in B /\ Append(<<>>, a) = <<a>> \o <<>>
      OBVIOUS
    <2>2. Kept(Append(<<>>, a), S) = Kept(<<>>, S)
      <3> DEFINE t == <<>>
      <3> HIDE DEF B, t
      <3>1. t \in Seq(B) /\ a \in B
        BY <2>1 DEF t
      <3>2. Kept(Append(t, a), S) = Kept(t, S)
        BY <3>1, KeptAppend
      <3> QED
        BY <3>2 DEF t
    <2> QED
      BY <2>1, <2>2, KeptNone
  <1>2. ASSUME NEW q \in X \cap Seq(A), NEW e \in A
        PROVE  Append(q, e) \in X
    <2>1. /\ Append(q, e) \in Seq(A) /\ e \in S /\ e \in B /\ <<a>> \o q \in Seq(B)
          /\ <<a>> \o Append(q, e) = Append(<<a>> \o q, e)
      OBVIOUS
    <2>2. Kept(Append(<<a>> \o q, e), S)
             = IF e \in S THEN Append(Kept(<<a>> \o q, S), e) ELSE Kept(<<a>> \o q, S)
      <3> DEFINE t == <<a>> \o q
      <3> HIDE DEF B, t
      <3>1. t \in Seq(B) /\ e \in B
        BY <2>1 DEF t
      <3>2. Kept(Append(t, e), S) = IF e \in S THEN Append(Kept(t, S), e) ELSE Kept(t, S)
        BY <3>1, KeptAppend
      <3> QED
        BY <3>2 DEF t
    <2> QED
      BY <2>1, <2>2
  <1> HIDE DEF X
  <1>3. Seq(A) \subseteq X
    BY <1>1, <1>2, Growing
  <1> QED
    BY <1>3 DEF X

\* No element of s comes twice.
Once(s) == \A i, j \in DOMAIN s : s[i] = s[j] => i = j

\* Of elements that come once, those of the set are kept, and come once.
LEMMA KeptOnce ==
    ASSUME NEW A, NEW s \in Seq(A), NEW S, Once(s)
    PROVE  /\ Once(Kept(s, S))
           /\ \A e : (\E k \in DOMAIN Kept(s, S) : Kept(s, S)[k] = e)
                     <=> e \in S /\ \E k \in DOMAIN s : s[k] = e
  <1> DEFINE Has(q, e) == \E k \in DOMAIN q : q[k] = e
             Right(q) == /\ Once(Kept(q, S))
                         /\ \A e : Has(Kept(q, S), e) <=> e \in S /\ Has(q, e)
             X == {q \in Seq(A) : Once(q) => Right(q)}
  <1>1. <<>> \in X
    BY KeptNone DEF Once
  <1>2. ASSUME NEW q \in X \cap Seq(A), NEW e \in A
        PROVE  Append(q, e) \in X
    <2>1. Append(q, e) \in Seq(A) /\ q \in Seq(A)
      OBVIOUS
    <2>2. SUFFICES ASSUME Once(Append(q, e))
                   PROVE  Right(Append(q, e))
      <3> HIDE DEF Right
      <3> QED
        BY <2>1
    <2> DEFINE k == Kept(q, S)
               t == Append(q, e)
    <2>3. /\ t \in Seq(A) /\ Len(t) = Len(q) + 1 /\ t[Len(t)] = e /\ Len(q) \in Nat
          /\ \A i \in DOMAIN q : i \in DOMAIN t /\ t[i] = q[i]
          /\ \A i \in DOMAIN t : i \in DOMAIN q \/ i = Len(t)
          /\ \A i \in DOMAIN q : i # Len(t)
          /\ Len(t) \in DOMAIN t
      BY AppendDomains
    <2>4. k \in Seq(A) /\ Kept(t, S) = IF e \in S THEN Append(k, e) ELSE k
      <3> HIDE DEF X, Right, Has
      <3> QED
        BY <2>1, KeptAppend
    <2> HIDE DEF t, k
    <2>5. Once(q) /\ ~Has(q, e)
      BY <2>2, <2>3 DEF Once, t
    <2>6. Once(k) /\ \A d : Has(k, d) <=> d \in S /\ Has(q, d)
      BY <2>5 DEF k
    <2>7. \A d : Has(t, d) <=> d = e \/ Has(q, d)
      BY <2>3
    <2>8. CASE e \in S
      <3> DEFINE u == Append(k, e)
      <3>1. /\ u \in Seq(A) /\ Len(u) = Len(k) + 1 /\ u[Len(u)] = e /\ Len(k) \in Nat
            /\ \A i \in DOMAIN k : i \in DOMAIN u /\ u[i] = k[i]
            /\ \A i \in DOMAIN u : i \in DOMAIN k \/ i = Len(u)
            /\ Len(u) \in DOMAIN u
        BY <2>4, AppendDomains
      <3>2. Kept(t, S) = u
        BY <2>4, <2>8
      <3> HIDE DEF u
      <3>3. \A d : Has(u, d) <=> d = e \/ Has(k, d)
        BY <3>1
      <3>4. Once(u)
        <4>1. \A i \in DOMAIN k : k[i] # e
          BY <2>5, <2>6
        <4>2. \A i, j \in DOMAIN k : k[i] = k[j] => i = j
          BY <2>6 DEF Once
        <4> HIDE DEF Has
        <4> QED
          BY <3>1, <4>1, <4>2, Zenon DEF Once
      <3> QED
        BY <2>6, <2>7, <2>8, <3>2, <3>3, <3>4 DEF t
    <2>9. CASE e \notin S
      <3>1. Kept(t, S) = k
        BY <2>4, <2>9
      <3> QED
        BY <2>6, <2>7, <2>9, <3>1 DEF t
    <2> QED
      BY <2>8, <2>9
  <1>3. Seq(A) \subseteq X
    <2> HIDE DEF X
    <2> QED
      BY <1>1, <1>2, Growing
  <1> QED
    BY <1>3
=============================================================================
