--------------------------- MODULE HandleSequence ---------------------------
(* What linkedlist.c promises: a sequence of nodes that grows at its end   *)
(* and loses the node of a given socket.                                   *)
EXTENDS HandleTable

CONSTANTS Data, Handle

VARIABLE list

Init == list = <<>>

InsertSocket(d, h) == list' = insertList(list, d, h)

RemoveSocket(d) == list' = removeList(list, d)

Next == \E d \in Data : RemoveSocket(d) \/ \E h \in Handle : InsertSocket(d, h)

Spec == Init /\ [][Next]_list
=============================================================================
