---------------------------- MODULE HandleTable -----------------------------
(***************************************************************************)
(* The list of clients of Program2_Chat (linkedlist.c) as its callers see  *)
(* it: the nodes from first to last.  LinkedList shows that the pointers   *)
(* of linkedlist.c implement these operators.                              *)
(***************************************************************************)
EXTENDS Naturals, Sequences, SequencesExt

NULL == 0

Node(Data, Handle) == [data : Data, handle : Handle]

insertList(list, data, handle) ==
    Append(list, [data |-> data, handle |-> handle])

(* The position of the first node that fits, NULL when there is none.      *)
getClientSocket(list, socketNum) ==
    SelectInSeq(list, LAMBDA node : node.data = socketNum)

getClientHandle(list, handle) ==
    SelectInSeq(list, LAMBDA node : node.handle = handle)

(* The first node with this data goes.                                     *)
removeList(list, data) ==
    LET i == getClientSocket(list, data)
    IN  IF i = NULL THEN list ELSE RemoveAt(list, i)
=============================================================================
