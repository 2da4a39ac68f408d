--------------------------- MODULE SelectRejectMC ---------------------------
(* Values for the constants of SelectReject.                               *)
EXTENDS SelectReject

CONSTANTS c1, c2, b1, b2, b3

FileOne   == [c \in {c1} |-> <<b1>>]
FileTwo   == [c \in {c1} |-> <<b1, b2>>]
FilePair  == [c \in {c1, c2} |-> IF c = c1 THEN <<b1, b2>> ELSE <<b3>>]

DropAndFlip == {"drop", "flip"}
AnyFailure  == {"drop", "flip", "fail"}
NoFault     == {}
=============================================================================
