---------------------------- MODULE ComboRotation ----------------------------
(***************************************************************************)
(* In which order a request tries the models of a combo                    *)
(* (applyComboStrategy and ReorderByCapabilities of                        *)
(* internal/handlers/chat/combo.go).  The rotation of a combo is kept in   *)
(* memory, under a mutex, and shared by every conversation that uses the   *)
(* combo.  A request that starts a turn may advance it; one that continues *)
(* a turn (its last message is the result of a tool) may not.              *)
(*                                                                         *)
(* Models are positions in the combo's list.  A process that restarts      *)
(* forgets the rotations while the clients' conversations go on.           *)
(***************************************************************************)
EXTENDS Naturals, Sequences, SequencesExt

CONSTANTS
    Combos,
    Size,        \* [Combos -> Nat]: the number of models
    Strategy,    \* [Combos -> {"round-robin", "sticky", "fallback"}]
    StickyLimit, \* [Combos -> Nat]: as configured
    Capable,     \* [Combos -> SUBSET Nat]: the positions whose model sees images
    Convs,
    ComboOf,     \* [Convs -> Combos]
    MaxTurns,    \* bound: turns begun with one combo
    None

ASSUME RotationAssumption ==
    /\ Size \in [Combos -> Nat \ {0}]
    /\ Strategy \in [Combos -> {"round-robin", "sticky", "fallback"}]
    /\ StickyLimit \in [Combos -> Nat]
    /\ Capable \in [Combos -> SUBSET Nat]
    /\ ComboOf \in [Convs -> Combos]
    /\ MaxTurns \in Nat
    /\ None \notin Convs /\ None \notin Nat
    /\ None \notin [index : Nat, uses : Nat, serving : Nat]

VARIABLES
    state,   \* per combo: stickyState, or None when the map has no entry
    needs,   \* per conversation: its last user message holds an image
    lead,    \*   where its turn began: the position rotated to the front, or None
    newest,  \* (history) per combo: the conversation that began the latest turn, or None
    served,  \* (history) per combo: how many turns each position has led
    tried    \* the request decided last: [conv, front, list], or None

vars == <<state, needs, lead, newest, served, tried>>

Positions(k) == 0 .. (Size[k] - 1)

Rotates(k) == Size[k] > 1 /\ Strategy[k] # "fallback"
Limit(k) == IF Strategy[k] = "round-robin" \/ StickyLimit[k] <= 1 THEN 1 ELSE StickyLimit[k]

Fresh == [index |-> 0, uses |-> 0, serving |-> 0]
Current(k) == IF state[k] = None THEN Fresh ELSE state[k]

\* The pointer moves on without looking for the end of the list.
PointerRunsOff(k) ==
    LET s == Current(k)
    IN  [index |-> s.index + 1, uses |-> 0, serving |-> s.index]

\* The rotation after a request that begins a turn: it is led by the position the pointer
\* stands at, and the pointer moves on when that position has had its share.
Advanced(k) ==
    LET s == Current(k)
        full == s.uses + 1 >= Limit(k)
    IN  [index   |-> IF full THEN (s.index + 1) % Size[k] ELSE s.index,
         uses    |-> IF full THEN 0 ELSE s.uses + 1,
         serving |-> s.index]

\* A request that continues a turn is led by the pointer, which has moved on.
PointerServes(k) == [Current(k) EXCEPT !.serving = Current(k).index]

\* The rotation after a request that continues one: only created when there is none yet.
Continued(k) == Current(k)

\* Every request advances the rotation, those that continue a turn too.
EveryRequestAdvances(k, newTurn) == Advanced(k)

Rotation(k, newTurn) == IF newTurn THEN Advanced(k) ELSE Continued(k)

Rotated(k, front) == [i \in 1 .. Size[k] |-> (front + i - 1) % Size[k]]

\* Models that see images move to the front, and within either part the order stays.
ReorderByCapabilities(k, list) ==
    SelectSeq(list, LAMBDA p : p \in Capable[k]) \o SelectSeq(list, LAMBDA p : p \notin Capable[k])

Order(k, front, image) ==
    IF image THEN ReorderByCapabilities(k, Rotated(k, front)) ELSE Rotated(k, front)

Leader(k, newTurn) == IF Rotates(k) THEN Rotation(k, newTurn).serving ELSE 0

\* The order for one request of c, decided under the mutex.
ApplyComboStrategy(c, newTurn, image) ==
    LET k == ComboOf[c]
        front == Leader(k, newTurn)
    IN  /\ state' = [state EXCEPT ![k] = IF Rotates(k) THEN Rotation(k, newTurn) ELSE @]
        /\ tried' = [conv |-> c, front |-> front, list |-> Order(k, front, image)]

Init ==
    /\ state = [k \in Combos |-> None]
    /\ needs = [c \in Convs |-> FALSE]
    /\ lead = [c \in Convs |-> None]
    /\ newest = [k \in Combos |-> None]
    /\ served = [k \in Combos |-> [p \in Positions(k) |-> 0]]
    /\ tried = None

\* A user message with text, with or without an image beside it, begins a turn.
Ask(c, image) ==
    LET k == ComboOf[c]
    IN  /\ \A p \in Positions(k) : served[k][p] < MaxTurns
        /\ ApplyComboStrategy(c, TRUE, image)
        /\ needs' = [needs EXCEPT ![c] = image]
        /\ lead' = [lead EXCEPT ![c] = Leader(k, TRUE)]
        /\ newest' = [newest EXCEPT ![k] = c]
        /\ served' = [served EXCEPT ![k][Leader(k, TRUE)] = @ + 1]

\* A user message that is only an image continues the turn before it.
Show(c) ==
    /\ ApplyComboStrategy(c, FALSE, TRUE)
    /\ needs' = [needs EXCEPT ![c] = TRUE]
    /\ UNCHANGED <<lead, newest, served>>

\* The result of a tool: the last user message, and what it needs, is the one before it.
ToolResult(c) ==
    /\ ApplyComboStrategy(c, FALSE, needs[c])
    /\ UNCHANGED <<needs, lead, newest, served>>

\* The process starts again with an empty map; what each position had led counts from here.
Restart ==
    /\ \E k \in Combos : state[k] # None
    /\ state' = [k \in Combos |-> None]
    /\ newest' = [k \in Combos |-> None]
    /\ served' = [k \in Combos |-> [p \in Positions(k) |-> 0]]
    /\ UNCHANGED <<needs, lead, tried>>

Next ==
    \/ \E c \in Convs : \/ \E image \in BOOLEAN : Ask(c, image)
                        \/ Show(c)
                        \/ ToolResult(c)
    \/ Restart

Spec == Init /\ [][Next]_vars

-----------------------------------------------------------------------------
\* State, conversations and history keep their types, and the pointer stays in the list.
TypeOK ==
    /\ \A k \in Combos : \/ state[k] = None
                         \/ state[k] \in [index : Positions(k), uses : 0 .. (Limit(k) - 1),
                                          serving : Positions(k)]
    /\ needs \in [Convs -> BOOLEAN]
    /\ \A c \in Convs : lead[c] \in Positions(ComboOf[c]) \cup {None}
    /\ newest \in [Combos -> Convs \cup {None}]
    /\ \A k \in Combos : served[k] \in [Positions(k) -> Nat]
    /\ \/ tried = None
       \/ /\ tried.conv \in Convs
          /\ tried.front \in Positions(ComboOf[tried.conv])
          /\ tried.list \in Seq(Positions(ComboOf[tried.conv]))

\* No model of a rotating combo leads more turns than another by more than one share, however
\* the turns of several conversations and the requests within them interleave
\* (applyComboStrategy: "rotate after stickyLimit requests").
FairShares ==
    \A k \in Combos : Rotates(k) =>
        \A p, q \in Positions(k) : served[k][p] <= served[k][q] + Limit(k)

\* The conversation that began a combo's latest turn finds the same model in front in every
\* request of that turn, even though the pointer has moved on for the next one
\* ("a mid-turn request reuses the model serving the turn").
LatestTurnStays ==
    tried # None =>
        LET k == ComboOf[tried.conv]
        IN  newest[k] = tried.conv => tried.front = lead[tried.conv]

\* Every conversation, not only the one with the latest turn, keeps its model during a turn
\* (detectNewTurn: "the combo must not switch providers mid-turn").
TurnKeepsModel ==
    [][\A c \in Convs :
         (ToolResult(c) /\ Rotates(ComboOf[c]) /\ lead[c] # None) => tried'.front = lead[c]]_vars
=============================================================================
