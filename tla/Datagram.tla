------------------------------ MODULE Datagram ------------------------------
(***************************************************************************)
(* The datagrams of Program3_SelectReject and the network that carries     *)
(* them: the packet header of srej.c, the UDP calls of networks.c and the  *)
(* error injection of libcpe464, through which every packet is sent        *)
(* (safeSendto calls sendtoErr).                                           *)
(*                                                                         *)
(* The state of the network is one function, queue: its domain is the set  *)
(* of open sockets, and queue[a] is the sequence of datagrams on their way *)
(* to socket a.  A datagram sent to any other address is lost.             *)
(***************************************************************************)
EXTENDS Naturals, Sequences, SequencesExt

CONSTANTS
    Clients,    \* the rcopy processes
    Server,     \* the name of the server host in the addresses below
    Block,      \* the contents a read of buf_size bytes can return
    File,       \* File[c]: the blocks of the file that client c asks for
    Faults,     \* what may happen to a datagram, or to the call that sends it
    Reorder,    \* TRUE iff a datagram may overtake another
    QueueCap,   \* datagrams a socket buffer holds: one more is dropped
    MAX_TRIES   \* the tries after which processSelect gives up

ASSUME ServerAssumption   == Server \notin Clients
ASSUME FileAssumption     == File \in [Clients -> Seq(Block)]
ASSUME FaultsAssumption   ==
    Faults \subseteq {"drop", "flip", "duplicate", "fail"}
ASSUME ReorderAssumption  == Reorder \in BOOLEAN
ASSUME QueueCapAssumption == QueueCap \in Nat
ASSUME TriesAssumption    == MAX_TRIES \in Nat \ {0}

VARIABLE queue

-----------------------------------------------------------------------------
(* Addresses.  A host and the number of a socket on it: a client opens a   *)
(* new socket for every attempt, a server child opens one of its own.      *)

Address == (Clients \cup {Server}) \X Nat

Main     == <<Server, 0>>          \* the port the server is started on
Child(i) == <<Server, i>>          \* the socket of the i-th child

-----------------------------------------------------------------------------
(* Packets.  load is the payload: the name of a file (FNAME), a block      *)
(* (DATA), the number acknowledged (RR) or named (SREJ).                   *)

START_SEQ_NUM == 1

FLAG == {"FNAME", "DATA", "FNAME_OK", "FNAME_BAD", "RR", "SREJ",
         "END_OF_FILE", "EOF_ACK", "CRC_ERROR"}

Load == Clients \cup Block \cup Nat

Packet == [flag : FLAG, seq : Nat, load : Load, from : Address]

(* createHeader: flag, sequence number and checksum around the payload.    *)
createHeader(flag, seq, load, from) ==
    [flag |-> flag, seq |-> seq, load |-> load, from |-> from]

(* retrieveHeader refuses a packet whose checksum does not match: nothing  *)
(* but its sender (which recvfrom reports) can be used.                    *)
Corrupted(p) == createHeader("CRC_ERROR", 0, 0, p.from)

-----------------------------------------------------------------------------
(* What sendtoErr does with a packet.  drop and flip are the two errors    *)
(* libcpe464 injects; duplicate is what an IP network may add.             *)

Outcome == {"sent"} \cup (Faults \ {"fail"})

(* sendtoErr can also fail.  Then safeSendto ends the process that sends:  *)
(* see StartStateSendFails, RecvDataSendFails and ChildSendFails.          *)
SendMayFail == "fail" \in Faults

Copies(p, o) ==
    CASE o = "sent"      -> <<p>>
      [] o = "drop"      -> <<>>
      [] o = "flip"      -> <<Corrupted(p)>>
      [] o = "duplicate" -> <<p, p>>

safeSendto(q, a, p, o) ==
    IF a \in DOMAIN q /\ Len(q[a]) + Len(Copies(p, o)) <= QueueCap
    THEN [q EXCEPT ![a] = @ \o Copies(p, o)]
    ELSE q

(* The positions of queue[a] that recvfrom may return: the oldest, or any  *)
(* when the network reorders.                                              *)
Arrivals(a) ==
    {k \in 1 .. Len(queue[a]) : Reorder \/ k = 1}

safeRecvfrom(q, a, k) == [q EXCEPT ![a] = RemoveAt(@, k)]

-----------------------------------------------------------------------------
(* Sockets.  A new socket has an empty queue; with the socket goes         *)
(* whatever was on its way to it.                                          *)

OpenSocket(q, a) ==
    [b \in DOMAIN q \cup {a} |-> IF b = a THEN <<>> ELSE q[b]]

CloseSocket(q, a) == [b \in DOMAIN q \ {a} |-> q[b]]
=============================================================================
