-------------------------------- MODULE ZOrder --------------------------------
(***************************************************************************)
(* What CompositorController's two lists promise the callers of getZOrder  *)
(* (compositorcontroller.cpp): one z-order of all clients, front first, in *)
(* which the topmost ones are in front of all others and a call moves one  *)
(* client only, within its layer or to the front of the other one.         *)
(***************************************************************************)
EXTENDS Integers, Sequences, SequencesExt

CONSTANT Clients

VARIABLES
    order,     \* the clients, front first
    topmost    \* those that are topmost

zvars == <<order, topmost>>

Shown == ToSet(order)

PlaceOf(c) == CHOOSE i \in DOMAIN order : order[i] = c

Remaining(c) == RemoveAt(order, PlaceOf(c))

\* The places among others where a client of a layer may stand: a topmost one
\* has only topmost ones in front of it, any other no topmost one behind it.
Places(s, top) ==
    {i \in 1..(Len(s) + 1) :
        \A j \in DOMAIN s : IF top THEN j < i => s[j] \in topmost
                                   ELSE j >= i => s[j] \notin topmost}

Init == order = <<>> /\ topmost = {}

PutInFront(c, s, top) ==
    /\ \E i \in Places(s, top) :
          /\ \A j \in Places(s, top) : i <= j
          /\ order' = InsertAt(s, i, c)
    /\ topmost' = IF top THEN topmost \cup {c} ELSE topmost \ {c}

Appear(c, top) == c \notin Shown /\ PutInFront(c, order, top)

ChangeLayer(c) == c \in Shown /\ PutInFront(c, Remaining(c), c \notin topmost)

Move(c) ==
    /\ c \in Shown
    /\ \E i \in Places(Remaining(c), c \in topmost) : order' = InsertAt(Remaining(c), i, c)
    /\ UNCHANGED topmost

Disappear(c) ==
    /\ c \in Shown
    /\ order' = Remaining(c)
    /\ topmost' = topmost \ {c}

Next == \E c \in Clients : \/ \E top \in BOOLEAN : Appear(c, top)
                           \/ ChangeLayer(c)
                           \/ Move(c)
                           \/ Disappear(c)

Spec == Init /\ [][Next]_zvars

=============================================================================
