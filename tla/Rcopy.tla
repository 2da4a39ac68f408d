------------------------------- MODULE Rcopy --------------------------------
(***************************************************************************)
(* rcopy, the client of Program3_SelectReject (rcopy.c): the state machine *)
(* of processFile, one action per outcome of each state's function.        *)
(*                                                                         *)
(* The sender of the packet just received is where the client answers:     *)
(* recv_buf stores it in server->remote.  The sequence numbers of the      *)
(* client's own packets (clientSeqNum) are left out: no code reads them.   *)
(***************************************************************************)
EXTENDS Integers, Datagram

CONSTANTS
    WindowSize,   \* argv[3], the slots of the client's window
    MaxSock       \* bound: sockets a client opens before the setup fails

ASSUME WindowSizeAssumption == WindowSize \in Nat
ASSUME MaxSockAssumption    == MaxSock \in Nat

VARIABLES
    cstate,     \* state of processFile
    sock,       \* sockets a request left from so far; the newest is in use
    cretry,     \* the static retryCount of filename
    expected,   \* the static expected_seq_num of recv_data
    output,     \* the blocks in the output file
    data_buf,   \* the block recv_data is about to write, or wrote last
    PDUs,       \* the window's slots: the seqNum stored, 0 for NULL
    said        \* the last message printed: how the client ended

rcopyVars ==
    <<cstate, sock, cretry, expected, output, data_buf, PDUs, said>>

(* RR_SENT and EOF_ACK_SENT are points inside recv_data: an answer has     *)
(* left, and the server may act on it, before the client goes on.          *)
ClientState ==
    {"START_STATE", "FILENAME", "FILE_OK", "RECV_DATA", "RR_SENT",
     "EOF_ACK_SENT", "DONE", "CRASHED"}

ClientMessage ==
    {"", "no host", "no response", "not found", "open failed",
     "server gone", "sendto failed", "File done"}

Slot == 0 .. WindowSize - 1

RcopyInit ==
    /\ cstate = [c \in Clients |-> "START_STATE"]
    /\ sock = [c \in Clients |-> 0]
    /\ cretry = [c \in Clients |-> 0]
    /\ expected = [c \in Clients |-> START_SEQ_NUM]
    /\ output = [c \in Clients |-> <<>>]
    /\ data_buf = [c \in Clients |-> 0]
    /\ PDUs = [c \in Clients |-> [i \in Slot |-> 0]]
    /\ said = [c \in Clients |-> ""]

-----------------------------------------------------------------------------
Me(c) == <<c, sock[c]>>

Goto(c, s) == cstate' = [cstate EXCEPT ![c] = s]

(* The process ends with a message; its socket closes.  q is what the      *)
(* network is after whatever the client sent or received in the step.      *)
Exit(c, message, q) ==
    /\ Goto(c, "DONE")
    /\ said' = [said EXCEPT ![c] = message]
    /\ queue' = CloseSocket(q, Me(c))

-----------------------------------------------------------------------------
(* start_state: close the socket of the last attempt, open a new one and   *)
(* send the name of the file to the server's main port.                    *)

(* Mutant: the socket of the last attempt is used again.                   *)
StartStateSameSocket(c, o) ==
    LET new == <<c, 1>>
    IN  /\ cstate[c] = "START_STATE"
        /\ sock[c] < MaxSock
        /\ sock' = [sock EXCEPT ![c] = 1]
        /\ queue' = safeSendto(IF sock[c] = 0 THEN OpenSocket(queue, new)
                                              ELSE queue,
                               Main, createHeader("FNAME", 0, c, new), o)
        /\ Goto(c, "FILENAME")
        /\ UNCHANGED <<cretry, expected, output, data_buf, PDUs, said>>

StartState(c, o) ==
    LET old == Me(c)
        new == <<c, sock[c] + 1>>
    IN  /\ cstate[c] = "START_STATE"
        /\ sock[c] < MaxSock
        /\ sock' = [sock EXCEPT ![c] = @ + 1]
        /\ queue' = safeSendto(OpenSocket(CloseSocket(queue, old), new),
                               Main, createHeader("FNAME", 0, c, new), o)
        /\ Goto(c, "FILENAME")
        /\ UNCHANGED <<cretry, expected, output, data_buf, PDUs, said>>

(* safeSendto fails and the process exits: the new socket opens and closes *)
(* with nothing sent from it.                                              *)
StartStateSendFails(c) ==
    /\ cstate[c] = "START_STATE"
    /\ sock[c] < MaxSock
    /\ SendMayFail
    /\ Exit(c, "sendto failed", queue)
    /\ UNCHANGED <<sock, cretry, expected, output, data_buf, PDUs>>

(* udpClientSetup fails: the name of the host cannot be resolved.          *)
StartStateNoHost(c) ==
    /\ cstate[c] = "START_STATE"
    /\ Exit(c, "no host", queue)
    /\ UNCHANGED <<sock, cretry, expected, output, data_buf, PDUs>>

-----------------------------------------------------------------------------
(* filename: processSelect, then the answer of the server.                 *)

FilenameGiveUp(c) ==
    /\ cstate[c] = "FILENAME"
    /\ cretry[c] + 1 > MAX_TRIES
    /\ cretry' = [cretry EXCEPT ![c] = @ + 1]
    /\ Exit(c, "no response", queue)
    /\ UNCHANGED <<sock, expected, output, data_buf, PDUs>>

FilenameTimeout(c) ==
    /\ cstate[c] = "FILENAME"
    /\ cretry[c] + 1 <= MAX_TRIES
    /\ cretry' = [cretry EXCEPT ![c] = @ + 1]
    /\ Goto(c, "START_STATE")
    /\ UNCHANGED <<queue, sock, expected, output, data_buf, PDUs, said>>

FilenameReady(c) ==
    /\ cstate[c] = "FILENAME"
    /\ cretry[c] + 1 <= MAX_TRIES
    /\ cretry' = [cretry EXCEPT ![c] = 0]
    /\ UNCHANGED <<sock, expected, output, data_buf, PDUs>>

FilenameCorrupt(c, k) ==
    /\ FilenameReady(c)
    /\ queue[Me(c)][k].flag = "CRC_ERROR"
    /\ queue' = safeRecvfrom(queue, Me(c), k)
    /\ Goto(c, "START_STATE")
    /\ UNCHANGED said

FilenameBad(c, k) ==
    /\ FilenameReady(c)
    /\ queue[Me(c)][k].flag = "FNAME_BAD"
    /\ Exit(c, "not found", safeRecvfrom(queue, Me(c), k))

(* Any other flag will do: FNAME_OK, or the block or the end of file that  *)
(* overtook or replaced it, which is consumed here and not written.        *)
FilenameOk(c, k) ==
    /\ FilenameReady(c)
    /\ queue[Me(c)][k].flag \notin {"CRC_ERROR", "FNAME_BAD"}
    /\ queue' = safeRecvfrom(queue, Me(c), k)
    /\ Goto(c, "FILE_OK")
    /\ UNCHANGED said

-----------------------------------------------------------------------------
(* file_ok: create or truncate the output file.                            *)

FileOk(c) ==
    /\ cstate[c] = "FILE_OK"
    /\ output' = [output EXCEPT ![c] = <<>>]
    /\ Goto(c, "RECV_DATA")
    /\ UNCHANGED <<queue, sock, cretry, expected, data_buf, PDUs, said>>

FileOkFails(c) ==
    /\ cstate[c] = "FILE_OK"
    /\ Exit(c, "open failed", queue)
    /\ UNCHANGED <<sock, cretry, expected, output, data_buf, PDUs>>

-----------------------------------------------------------------------------
(* recv_data.  The flag is never compared with DATA: whatever is not       *)
(* END_OF_FILE is taken for a block and judged by its sequence number.     *)

(* What the client sends in answer to the k-th packet of its queue.        *)
Answer(c, k, flag, load, o) ==
    safeSendto(safeRecvfrom(queue, Me(c), k), queue[Me(c)][k].from,
               createHeader(flag, 0, load, Me(c)), o)

(* Mutant: select_call without a time limit.                               *)
RecvDataNoTimer(c) == FALSE

RecvDataTimeout(c) ==
    /\ cstate[c] = "RECV_DATA"
    /\ Exit(c, "server gone", queue)
    /\ UNCHANGED <<sock, cretry, expected, output, data_buf, PDUs>>

(* Mutant: a packet with a wrong checksum is acknowledged.                 *)
RecvDataCorruptAcknowledged(c, k) ==
    /\ cstate[c] = "RECV_DATA"
    /\ queue[Me(c)][k].flag = "CRC_ERROR"
    /\ queue' = Answer(c, k, "RR", expected[c], "sent")
    /\ UNCHANGED rcopyVars

RecvDataCorrupt(c, k) ==
    /\ cstate[c] = "RECV_DATA"
    /\ queue[Me(c)][k].flag = "CRC_ERROR"
    /\ queue' = safeRecvfrom(queue, Me(c), k)
    /\ UNCHANGED rcopyVars

(* The answer to the end of the file leaves, then the client reports that  *)
(* it is done and ends.                                                    *)
RecvEndOfFile(c, k, o) ==
    /\ cstate[c] = "RECV_DATA"
    /\ queue[Me(c)][k].flag = "END_OF_FILE"
    /\ queue' = Answer(c, k, "EOF_ACK", 0, o)
    /\ Goto(c, "EOF_ACK_SENT")
    /\ UNCHANGED <<sock, cretry, expected, output, data_buf, PDUs, said>>

FileDone(c) ==
    /\ cstate[c] = "EOF_ACK_SENT"
    /\ Exit(c, "File done", queue)
    /\ UNCHANGED <<sock, cretry, expected, output, data_buf, PDUs>>

(* safeSendto fails, whatever the answer: the process exits, and what it   *)
(* received goes with its socket.                                          *)
RecvDataSendFails(c, k) ==
    /\ cstate[c] = "RECV_DATA"
    /\ SendMayFail
    /\ queue[Me(c)][k].flag # "CRC_ERROR"
    /\ Exit(c, "sendto failed", queue)
    /\ UNCHANGED <<sock, cretry, expected, output, data_buf, PDUs>>

NotEndOfFile(c, k) ==
    /\ cstate[c] = "RECV_DATA"
    /\ queue[Me(c)][k].flag \notin {"CRC_ERROR", "END_OF_FILE"}
    /\ UNCHANGED <<sock, cretry, said>>

RecvOld(c, k, o) ==
    LET p == queue[Me(c)][k]
    IN  /\ NotEndOfFile(c, k)
        /\ p.seq < expected[c]
        /\ queue' = Answer(c, k, "RR", p.seq, o)
        /\ UNCHANGED <<cstate, expected, output, data_buf, PDUs>>

(* The block expected: the RR leaves first.                                *)
RecvExpected(c, k, o) ==
    LET p == queue[Me(c)][k]
    IN  /\ NotEndOfFile(c, k)
        /\ p.seq = expected[c]
        /\ queue' = Answer(c, k, "RR", p.seq, o)
        /\ data_buf' = [data_buf EXCEPT ![c] = p.load]
        /\ Goto(c, "RR_SENT")
        /\ UNCHANGED <<expected, output, PDUs>>

(* Mutant: expected_seq_num++ is missing.                                  *)
WriteBlockNotCounted(c) ==
    /\ cstate[c] = "RR_SENT"
    /\ output' = [output EXCEPT ![c] = Append(@, data_buf[c])]
    /\ Goto(c, "RECV_DATA")
    /\ UNCHANGED <<queue, sock, cretry, expected, data_buf, PDUs, said>>

(* Mutant: the packet is written with its header.                          *)
WriteBlockWithHeader(c) ==
    /\ cstate[c] = "RR_SENT"
    /\ expected' = [expected EXCEPT ![c] = @ + 1]
    /\ output' = [output EXCEPT ![c] =
           Append(@, createHeader("DATA", expected[c], data_buf[c], Main))]
    /\ Goto(c, "RECV_DATA")
    /\ UNCHANGED <<queue, sock, cretry, data_buf, PDUs, said>>

(* Then the block is counted and written.  The loop that would write the   *)
(* blocks kept in the window after it never runs: nothing moves lower or   *)
(* current after window_init, so isEmpty always answers 1.                 *)
WriteBlock(c) ==
    /\ cstate[c] = "RR_SENT"
    /\ expected' = [expected EXCEPT ![c] = @ + 1]
    /\ output' = [output EXCEPT ![c] = Append(@, data_buf[c])]
    /\ Goto(c, "RECV_DATA")
    /\ UNCHANGED <<queue, sock, cretry, data_buf, PDUs, said>>

(* The SREJ carries the first byte of the received number in network order *)
(* (sizeof(srej_num) bytes of ackSeqNum).                                  *)
SrejByte(n) == (n \div 2^24) % 256

(* Mutant: a block beyond the one expected is acknowledged.                *)
RecvAheadAcknowledged(c, k, o) ==
    LET p == queue[Me(c)][k]
    IN  /\ NotEndOfFile(c, k)
        /\ p.seq > expected[c]
        /\ queue' = Answer(c, k, "RR", p.seq, o)
        /\ PDUs' = [PDUs EXCEPT ![c][p.seq % WindowSize] = p.seq]
        /\ UNCHANGED <<cstate, expected, output, data_buf>>

(* A block beyond the one expected: SREJ, then addToWindow, whose          *)
(* seqNum % windowsize traps when the window has no slot.                  *)
RecvAhead(c, k, o) ==
    LET p      == queue[Me(c)][k]
        answer == Answer(c, k, "SREJ", SrejByte(p.seq), o)
    IN  /\ NotEndOfFile(c, k)
        /\ p.seq > expected[c]
        /\ IF WindowSize = 0
           THEN /\ Goto(c, "CRASHED")
                /\ queue' = CloseSocket(answer, Me(c))
                /\ UNCHANGED PDUs
           ELSE /\ PDUs' = [PDUs EXCEPT ![c][p.seq % WindowSize] = p.seq]
                /\ queue' = answer
                /\ UNCHANGED cstate
        /\ UNCHANGED <<expected, output, data_buf>>
=============================================================================
