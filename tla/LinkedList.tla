----------------------------- MODULE LinkedList -----------------------------
(***************************************************************************)
(* linkedlist.c of Program2_Chat: the nodes on the heap and the pointers   *)
(* between them.  An address is the name of a node; NULL is 0.             *)
(***************************************************************************)
EXTENDS HandleTable

CONSTANTS
    Data,       \* socket numbers
    Handle,
    MaxNode     \* bound: nodes the heap can hold

ASSUME MaxNodeAssumption == MaxNode \in Nat

Addr == 1 .. MaxNode

VARIABLES
    node,       \* the allocated nodes
    first, last, NumClient

vars == <<node, first, last, NumClient>>

createList ==
    /\ node = << >>
    /\ first = NULL
    /\ last = NULL
    /\ NumClient = 0

-----------------------------------------------------------------------------
(* The addresses met from start on along a link, as the helpers recurse.   *)
Walk(start, link) ==
    LET at[k \in 1 .. MaxNode + 1] ==
            IF k = 1 THEN start
            ELSE LET a == at[k - 1]
                 IN  IF a \in DOMAIN link THEN link[a] ELSE NULL
    IN  [k \in 1 .. Cardinality({k \in 1 .. MaxNode + 1 : at[k] # NULL}) |-> at[k]]

Forward  == Walk(first, [a \in DOMAIN node |-> node[a].next])
Backward == Walk(last, [a \in DOMAIN node |-> node[a].prev])

(* The nodes as a table.                                                   *)
Contents ==
    [i \in DOMAIN Forward |->
        [data |-> node[Forward[i]].data, handle |-> node[Forward[i]].handle]]

-----------------------------------------------------------------------------
(* The heap with a new node, the last one pointing to it.                   *)
Linked(a, client) ==
    [b \in DOMAIN node \cup {a} |->
        IF b = a THEN client
        ELSE IF first # NULL /\ b = last THEN [node[b] EXCEPT !.next = a]
        ELSE node[b]]

(* Mutant: the new node does not point back.                               *)
insertNodeNoPrev(a, d, h) ==
    /\ node' = Linked(a, [data |-> d, handle |-> h, prev |-> NULL, next |-> NULL])
    /\ first' = (IF first = NULL THEN a ELSE first)
    /\ last' = a
    /\ NumClient' = NumClient + 1

(* Mutant: the list does not learn of its new last node.                   *)
insertNodeKeepsLast(a, d, h) ==
    /\ node' = Linked(a, [data |-> d, handle |-> h, next |-> NULL,
                          prev |-> IF first = NULL THEN NULL ELSE last])
    /\ first' = (IF first = NULL THEN a ELSE first)
    /\ last' = (IF first = NULL THEN a ELSE last)
    /\ NumClient' = NumClient + 1

insertNode(a, d, h) ==
    /\ node' = Linked(a, [data |-> d, handle |-> h, next |-> NULL,
                          prev |-> IF first = NULL THEN NULL ELSE last])
    /\ first' = (IF first = NULL THEN a ELSE first)
    /\ last' = a
    /\ NumClient' = NumClient + 1

(* first and last are recognised by their data, not by their address.      *)
removeNode(current) ==
    LET n == node[current]
    IN  /\ node' = [a \in DOMAIN node \ {current} |->
                       IF a = n.prev THEN [node[a] EXCEPT !.next = n.next]
                       ELSE IF a = n.next THEN [node[a] EXCEPT !.prev = n.prev]
                       ELSE node[a]]
        /\ first' = (IF node[first].data = n.data THEN n.next ELSE first)
        /\ last' = (IF node[last].data = n.data THEN n.prev ELSE last)
        /\ NumClient' = NumClient - 1

-----------------------------------------------------------------------------
(* The server inserts a socket that has no node (NodesAreOpen of Chat) and *)
(* removes one that getClientSocket has found.                             *)

InsertSocket(d, h) ==
    /\ getClientSocket(Contents, d) = NULL
    /\ \E a \in Addr \ DOMAIN node : insertNode(a, d, h)

RemoveSocket(d) ==
    /\ getClientSocket(Contents, d) # NULL
    /\ removeNode(Forward[getClientSocket(Contents, d)])

Next == \E d \in Data : RemoveSocket(d) \/ \E h \in Handle : InsertSocket(d, h)

Spec == createList /\ [][Next]_vars

-----------------------------------------------------------------------------
(* Every pointer is NULL or the address of an allocated node: no link to a *)
(* node that was freed (linkedlist.c:100).                                 *)
NoDanglingPointer ==
    LET Pointer == {NULL} \cup DOMAIN node
    IN  /\ node \in [DOMAIN node -> [data : Data, handle : Handle,
                                     prev : Pointer, next : Pointer]]
        /\ first \in Pointer
        /\ last \in Pointer

(* The list reads the same in both directions, every node that was not     *)
(* freed is on it, and NumClient counts them.                              *)
BothWays ==
    /\ NoDanglingPointer
    /\ Backward = Reverse(Forward)
    /\ ToSet(Forward) = DOMAIN node
    /\ NumClient = Len(Forward)

(* The pointers implement the sequence the server works with.              *)
Sequence == INSTANCE HandleSequence WITH list <- Contents

IsHandleSequence == Sequence!Spec
=============================================================================
