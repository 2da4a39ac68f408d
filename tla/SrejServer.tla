----------------------------- MODULE SrejServer -----------------------------
(***************************************************************************)
(* The server of Program3_SelectReject (server.c): the process that        *)
(* listens on the main port (process_server) and the children it forks,    *)
(* one for every packet it receives there (process_client).  One action    *)
(* per outcome of each state's function.                                   *)
(***************************************************************************)
EXTENDS Datagram

CONSTANT
    MaxChild    \* bound: children that can be forked before fork fails

ASSUME MaxChildAssumption == MaxChild \in Nat

VARIABLES
    listening,  \* FALSE once the main process has exited
    child       \* child[i]: the i-th child and the variables it works on

serverVars == <<listening, child>>

ChildId == 1 .. MaxChild

(* BLOCKED is a child inside the recvfrom of wait_on_eof_ack, which has no *)
(* time limit; the other states are those of process_client.               *)
ChildState ==
    {"UNBORN", "FILENAME", "SEND_DATA", "WAIT_ON_ACK", "TIMEOUT_ON_ACK",
     "WAIT_ON_EOF_ACK", "TIMEOUT_ON_EOF_ACK", "BLOCKED", "DONE"}

ChildMessage ==
    {"", "FNAME_BAD", "read error", "no response", "sendto failed",
     "this should never happen", "complete successfully"}

(* remote and seq are process_client's client->remote and seq_num, fname   *)
(* the name in the packet it was forked for, packet the last one sent and  *)
(* kept to be sent again.  recv_buf stores the sender of every packet in   *)
(* remote, too; no one but remote sends to a child.  retry stands for the  *)
(* two static retryCounts: the second starts at 0, and the first is 0 when *)
(* the child leaves wait_on_ack for the end of file.                       *)
ChildRecord ==
    [state : ChildState, remote : Address, fname : Load, seq : Nat,
     packet : Packet, retry : Nat, said : ChildMessage]

Unborn ==
    [state |-> "UNBORN", remote |-> Main, fname |-> 0, seq |-> START_SEQ_NUM,
     packet |-> createHeader("FNAME_OK", 0, 0, Main), retry |-> 0, said |-> ""]

ServerInit ==
    /\ listening = TRUE
    /\ child = [i \in ChildId |-> Unborn]

-----------------------------------------------------------------------------
(* process_server: every packet whose checksum holds makes a child.        *)

NextChild(i) ==
    /\ child[i].state = "UNBORN"
    /\ \A j \in 1 .. i - 1 : child[j].state # "UNBORN"

Fork(i, k) ==
    LET p == queue[Main][k]
    IN  /\ listening
        /\ p.flag # "CRC_ERROR"
        /\ NextChild(i)
        /\ queue' = safeRecvfrom(queue, Main, k)
        /\ child' = [child EXCEPT ![i] =
                [@ EXCEPT !.state = "FILENAME",
                          !.remote = p.from, !.fname = p.load]]
        /\ UNCHANGED listening

(* No process can be created: the main process exits.                      *)
ForkFails(k) ==
    /\ listening
    /\ queue[Main][k].flag # "CRC_ERROR"
    /\ \A i \in ChildId : child[i].state # "UNBORN"
    /\ listening' = FALSE
    /\ queue' = CloseSocket(queue, Main)
    /\ UNCHANGED child

MainCorrupt(k) ==
    /\ listening
    /\ queue[Main][k].flag = "CRC_ERROR"
    /\ queue' = safeRecvfrom(queue, Main, k)
    /\ UNCHANGED serverVars

-----------------------------------------------------------------------------
In(i, s) == child[i].state = s

(* A child goes to state s; the last packet it sent, its sequence number   *)
(* and its retryCount become p, n and r.                                   *)
ChildGoto(i, s, p, n, r) ==
    /\ child' = [child EXCEPT ![i] =
           [@ EXCEPT !.state = s, !.packet = p, !.seq = n, !.retry = r]]
    /\ UNCHANGED listening

ChildMoves(i, s, r) ==
    ChildGoto(i, s, child[i].packet, child[i].seq, r)

ChildExit(i, message, q) ==
    /\ child' = [child EXCEPT ![i] =
           [@ EXCEPT !.state = "DONE", !.said = message]]
    /\ queue' = CloseSocket(q, Child(i))
    /\ UNCHANGED listening

(* safeSendto fails in whatever state a child sends: the child exits.      *)
ChildSendFails(i) ==
    /\ child[i].state \in {"FILENAME", "SEND_DATA", "TIMEOUT_ON_ACK",
                           "TIMEOUT_ON_EOF_ACK"}
    /\ SendMayFail
    /\ ChildExit(i, "sendto failed", queue)

-----------------------------------------------------------------------------
(* filename: open a socket of its own and the file.                        *)

FilenameOpens(i, o) ==
    /\ In(i, "FILENAME")
    /\ queue' = safeSendto(OpenSocket(queue, Child(i)), child[i].remote,
                           createHeader("FNAME_OK", 0, 0, Child(i)), o)
    /\ ChildMoves(i, "SEND_DATA", child[i].retry)

(* The file does not exist or cannot be opened; or it could, but the name  *)
(* is not the one that was sent: fname is an uninitialised array and only  *)
(* the bytes of the packet, which have no NUL at the end, are copied.      *)
FilenameFails(i, o) ==
    /\ In(i, "FILENAME")
    /\ ChildExit(i, "FNAME_BAD",
                 safeSendto(OpenSocket(queue, Child(i)), child[i].remote,
                            createHeader("FNAME_BAD", 0, 0, Child(i)), o))

-----------------------------------------------------------------------------
(* send_data: the next block, or the end of the file.                      *)

Blocks(i) == File[child[i].fname]

SendPacket(i, p, s, n, o) ==
    /\ queue' = safeSendto(queue, child[i].remote, p, o)
    /\ ChildGoto(i, s, p, n, child[i].retry)

SendBlock(i, o) ==
    LET n == child[i].seq
    IN  /\ In(i, "SEND_DATA")
        /\ n <= Len(Blocks(i))
        /\ SendPacket(i, createHeader("DATA", n, Blocks(i)[n], Child(i)),
                      "WAIT_ON_ACK", n + 1, o)

(* Mutant: the last block of the file is not sent.                         *)
SendEndOfFileEarly(i, o) ==
    LET n == child[i].seq
    IN  /\ In(i, "SEND_DATA")
        /\ n >= Len(Blocks(i))
        /\ SendPacket(i, createHeader("END_OF_FILE", n, 0, Child(i)),
                      "WAIT_ON_EOF_ACK", n, o)

SendEndOfFile(i, o) ==
    LET n == child[i].seq
    IN  /\ In(i, "SEND_DATA")
        /\ n > Len(Blocks(i))
        /\ SendPacket(i, createHeader("END_OF_FILE", n, 0, Child(i)),
                      "WAIT_ON_EOF_ACK", n, o)

SendDataReadError(i) ==
    /\ In(i, "SEND_DATA")
    /\ ChildExit(i, "read error", queue)

-----------------------------------------------------------------------------
(* wait_on_ack: processSelect, then an acknowledgement.  Neither its       *)
(* number nor the packet's own is compared with what was sent.             *)

(* Mutant: retryCount is never incremented.                                *)
TriesNotCounted(i) == child[i].retry

Tries(i) == child[i].retry + 1

WaitOnAckGiveUp(i) ==
    /\ In(i, "WAIT_ON_ACK")
    /\ Tries(i) > MAX_TRIES
    /\ ChildExit(i, "no response", queue)

WaitOnAckTimeout(i) ==
    /\ In(i, "WAIT_ON_ACK")
    /\ Tries(i) <= MAX_TRIES
    /\ ChildMoves(i, "TIMEOUT_ON_ACK", Tries(i))
    /\ UNCHANGED queue

WaitOnAckReady(i) ==
    /\ In(i, "WAIT_ON_ACK")
    /\ Tries(i) <= MAX_TRIES

WaitOnAckCorrupt(i, k) ==
    /\ WaitOnAckReady(i)
    /\ queue[Child(i)][k].flag = "CRC_ERROR"
    /\ queue' = safeRecvfrom(queue, Child(i), k)
    /\ ChildMoves(i, "WAIT_ON_ACK", 0)

WaitOnAckRR(i, k) ==
    /\ WaitOnAckReady(i)
    /\ queue[Child(i)][k].flag = "RR"
    /\ queue' = safeRecvfrom(queue, Child(i), k)
    /\ ChildMoves(i, "SEND_DATA", 0)

WaitOnAckOther(i, k) ==
    /\ WaitOnAckReady(i)
    /\ queue[Child(i)][k].flag \notin {"CRC_ERROR", "RR"}
    /\ ChildExit(i, "this should never happen",
                 safeRecvfrom(queue, Child(i), k))

(* Mutant: after sending again the child goes on without an answer.        *)
TimeoutOnAckGoesOn(i, o) ==
    /\ In(i, "TIMEOUT_ON_ACK")
    /\ queue' = safeSendto(queue, child[i].remote, child[i].packet, o)
    /\ ChildMoves(i, "SEND_DATA", child[i].retry)

TimeoutOnAck(i, o) ==
    /\ In(i, "TIMEOUT_ON_ACK")
    /\ queue' = safeSendto(queue, child[i].remote, child[i].packet, o)
    /\ ChildMoves(i, "WAIT_ON_ACK", child[i].retry)

-----------------------------------------------------------------------------
(* wait_on_eof_ack.  Its doneState and its dataReadyState are both DONE,   *)
(* so giving up, too, leads to recv_buf.  There the count is past          *)
(* MAX_TRIES for good: it is kept at MAX_TRIES + 1.                        *)

(* Mutant: a client that no longer answers is taken to have the file.      *)
WaitOnEofAckGiveUpSucceeds(i) ==
    /\ In(i, "WAIT_ON_EOF_ACK")
    /\ Tries(i) > MAX_TRIES
    /\ ChildExit(i, "complete successfully", queue)

WaitOnEofAckGiveUp(i) ==
    /\ In(i, "WAIT_ON_EOF_ACK")
    /\ Tries(i) > MAX_TRIES
    /\ ChildMoves(i, "BLOCKED", MAX_TRIES + 1)
    /\ UNCHANGED queue

WaitOnEofAckTimeout(i) ==
    /\ In(i, "WAIT_ON_EOF_ACK")
    /\ Tries(i) <= MAX_TRIES
    /\ ChildMoves(i, "TIMEOUT_ON_EOF_ACK", Tries(i))
    /\ UNCHANGED queue

EofAckReady(i) ==
    \/ In(i, "WAIT_ON_EOF_ACK") /\ Tries(i) <= MAX_TRIES
    \/ In(i, "BLOCKED")

EofAckCorrupt(i, k) ==
    /\ EofAckReady(i)
    /\ queue[Child(i)][k].flag = "CRC_ERROR"
    /\ queue' = safeRecvfrom(queue, Child(i), k)
    /\ ChildMoves(i, "WAIT_ON_EOF_ACK",
                  IF In(i, "BLOCKED") THEN child[i].retry ELSE 0)

EofAck(i, k) ==
    /\ EofAckReady(i)
    /\ queue[Child(i)][k].flag = "EOF_ACK"
    /\ ChildExit(i, "complete successfully", safeRecvfrom(queue, Child(i), k))

EofAckOther(i, k) ==
    /\ EofAckReady(i)
    /\ queue[Child(i)][k].flag \notin {"CRC_ERROR", "EOF_ACK"}
    /\ ChildExit(i, "this should never happen",
                 safeRecvfrom(queue, Child(i), k))

TimeoutOnEofAck(i, o) ==
    /\ In(i, "TIMEOUT_ON_EOF_ACK")
    /\ queue' = safeSendto(queue, child[i].remote, child[i].packet, o)
    /\ ChildMoves(i, "WAIT_ON_EOF_ACK", child[i].retry)
=============================================================================
