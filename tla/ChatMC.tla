------------------------------- MODULE ChatMC -------------------------------
(* Values for the constants of Chat.                                       *)
EXTENDS Chat

CONSTANTS c1, c2, c3, h1, h2, h3

AllDifferent == [c \in Clients |-> IF c = c1 THEN h1 ELSE IF c = c2 THEN h2 ELSE h3]
TwoAlike     == [c \in Clients |-> IF c = c1 THEN h1 ELSE IF c = c2 THEN h2 ELSE h1]

Nobody    == {}
ToOne     == {<<h1>>}
ToMany    == {<<h2, h1, h2>>, <<h3>>}
=============================================================================
