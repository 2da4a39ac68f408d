------------------------------ MODULE ChatRoom ------------------------------
(***************************************************************************)
(* What a chat promises, whatever carries it: a name belongs to one member *)
(* at a time, and a text that is posted is heard at once, and by all it is *)
(* meant for: everyone else in the room, or those named, once for each     *)
(* time they are named.  So any two members hear what both hear in the     *)
(* same order, and nobody speaks in another's name.                        *)
(***************************************************************************)
EXTENDS Naturals, Sequences, FiniteSets

CONSTANTS
    Clients,
    name,       \* name[c]: the name c would go by
    Text,       \* Text[c]: what c may say
    To          \* the lists of names messages are sent to

VARIABLES
    member,     \* the clients in the room
    heard       \* heard[c]: the texts for c, in order

vars == <<member, heard>>

Init ==
    /\ member = {}
    /\ heard = [c \in Clients |-> <<>>]

Join(c) ==
    /\ \A d \in member : name[d] # name[c]
    /\ member' = member \cup {c}
    /\ UNCHANGED heard

(* c hears t n times more.                                                 *)
Hears(c, t, n) == heard[c] \o [i \in 1 .. n |-> t]

Broadcast(c, t) ==
    /\ c \in member
    /\ heard' = [d \in Clients |-> Hears(d, t, IF d \in member \ {c} THEN 1 ELSE 0)]
    /\ UNCHANGED member

Named(d, to) == Cardinality({i \in DOMAIN to : to[i] = name[d]})

Message(c, t, to) ==
    /\ c \in member
    /\ heard' = [d \in Clients |->
                    Hears(d, t, IF d \in member THEN Named(d, to) ELSE 0)]
    /\ UNCHANGED member

Next ==
    \E c \in Clients :
        \/ Join(c)
        \/ \E t \in Text[c] :
              \/ Broadcast(c, t)
              \/ \E to \in To : Message(c, t, to)

Spec == Init /\ [][Next]_vars
=============================================================================
