---------------------------- MODULE SelectReject ----------------------------
(***************************************************************************)
(* Program3_SelectReject: the rcopy clients, the server and its children   *)
(* and the network between them.                                           *)
(*                                                                         *)
(* The timers of the code are select calls of SHORT_TIME and LONG_TIME     *)
(* seconds.  With Prompt = TRUE a timer runs out only when the packet it   *)
(* waits for was lost: every packet arrives, and every process takes the   *)
(* steps it is free to take, well within SHORT_TIME.  With Prompt = FALSE  *)
(* nothing is assumed of the speed of anything, and a timer may run out    *)
(* while the answer is on its way.                                         *)
(***************************************************************************)
EXTENDS Rcopy, SrejServer

CONSTANT Prompt

ASSUME PromptAssumption == Prompt \in BOOLEAN

vars == <<queue, rcopyVars, serverVars>>

Init ==
    /\ queue = [a \in {Main} |-> <<>>]
    /\ RcopyInit
    /\ ServerInit

-----------------------------------------------------------------------------
(* Timing: what Prompt leaves of the time-outs.                            *)

Awaits(c, i) ==
    /\ child[i].state \notin {"UNBORN", "DONE"}
    /\ child[i].remote = Me(c)

(* Nothing is on its way to the client's socket, and neither is the packet *)
(* it sent last.                                                           *)
NothingFor(c) ==
    /\ queue[Me(c)] = <<>>
    /\ \A a \in DOMAIN queue : \A k \in 1 .. Len(queue[a]) :
           queue[a][k].from # Me(c)

FilenameTimerEnds(c) ==
    Prompt =>
        /\ NothingFor(c)
        /\ \A i \in ChildId :
               Awaits(c, i) => child[i].state \notin {"FILENAME", "SEND_DATA"}

(* LONG_TIME is MAX_TRIES times SHORT_TIME: by the time the client stops   *)
(* waiting its child is gone, or blocked, or at its last try.              *)
RecvDataTimerEnds(c) ==
    Prompt =>
        /\ NothingFor(c)
        /\ \A i \in ChildId : Awaits(c, i) =>
              \/ child[i].state = "BLOCKED"
              \/ /\ child[i].state \in {"WAIT_ON_ACK", "WAIT_ON_EOF_ACK"}
                 /\ child[i].retry + 1 >= MAX_TRIES

ChildTimerEnds(i) ==
    Prompt =>
        /\ queue[Child(i)] = <<>>
        /\ child[i].remote \in DOMAIN queue =>
              \A k \in 1 .. Len(queue[child[i].remote]) :
                  queue[child[i].remote][k].from # Child(i)

-----------------------------------------------------------------------------
(* One step of a client.                                                   *)

RecvData(c, k, o) ==
    \/ RecvEndOfFile(c, k, o)
    \/ RecvOld(c, k, o)
    \/ RecvExpected(c, k, o)
    \/ RecvAhead(c, k, o)

ClientReceives(c, k) ==
    \/ FilenameCorrupt(c, k)
    \/ FilenameBad(c, k)
    \/ FilenameOk(c, k)
    \/ RecvDataCorrupt(c, k)
    \/ \E o \in Outcome : RecvData(c, k, o)
    \/ RecvDataSendFails(c, k)

ClientStep(c) ==
    \/ \E o \in Outcome : StartState(c, o)
    \/ StartStateSendFails(c)
    \/ StartStateNoHost(c)
    \/ FilenameGiveUp(c)
    \/ FilenameTimeout(c) /\ FilenameTimerEnds(c)
    \/ FileOk(c)
    \/ FileOkFails(c)
    \/ WriteBlock(c)
    \/ FileDone(c)
    \/ RecvDataTimeout(c) /\ RecvDataTimerEnds(c)
    \/ /\ cstate[c] \in {"FILENAME", "RECV_DATA"}
       /\ \E k \in Arrivals(Me(c)) : ClientReceives(c, k)

(* One step of the main process of the server.                             *)
MainStep ==
    /\ listening
    /\ \E k \in Arrivals(Main) :
           \/ \E i \in ChildId : Fork(i, k)
           \/ ForkFails(k)
           \/ MainCorrupt(k)

(* One step of a child.                                                    *)
ChildReceives(i, k) ==
    \/ WaitOnAckCorrupt(i, k)
    \/ WaitOnAckRR(i, k)
    \/ WaitOnAckOther(i, k)
    \/ EofAckCorrupt(i, k)
    \/ EofAck(i, k)
    \/ EofAckOther(i, k)

ChildSends(i, o) ==
    \/ FilenameOpens(i, o)
    \/ FilenameFails(i, o)
    \/ SendBlock(i, o)
    \/ SendEndOfFile(i, o)
    \/ TimeoutOnAck(i, o)
    \/ TimeoutOnEofAck(i, o)

ChildStep(i) ==
    \/ \E o \in Outcome : ChildSends(i, o)
    \/ ChildSendFails(i)
    \/ SendDataReadError(i)
    \/ WaitOnAckGiveUp(i)
    \/ WaitOnEofAckGiveUp(i)
    \/ WaitOnAckTimeout(i) /\ ChildTimerEnds(i)
    \/ WaitOnEofAckTimeout(i) /\ ChildTimerEnds(i)
    \/ /\ child[i].state \in {"WAIT_ON_ACK", "WAIT_ON_EOF_ACK", "BLOCKED"}
       /\ \E k \in Arrivals(Child(i)) : ChildReceives(i, k)

Next ==
    \/ \E c \in Clients : ClientStep(c) /\ UNCHANGED serverVars
    \/ MainStep /\ UNCHANGED rcopyVars
    \/ \E i \in ChildId : ChildStep(i) /\ UNCHANGED rcopyVars

Spec == Init /\ [][Next]_vars

-----------------------------------------------------------------------------
(* Properties.                                                             *)

(* The variables have the types srej.h and the two state machines give     *)
(* them.                                                                   *)
TypeOK ==
    /\ DOMAIN queue \subseteq Address
    /\ \A a \in DOMAIN queue : queue[a] \in Seq(Packet)
    /\ cstate \in [Clients -> ClientState]
    /\ sock \in [Clients -> Nat]
    /\ cretry \in [Clients -> Nat]
    /\ expected \in [Clients -> Nat]
    /\ output \in [Clients -> Seq(Block)]
    /\ data_buf \in [Clients -> Load]
    /\ PDUs \in [Clients -> [Slot -> Nat]]
    /\ said \in [Clients -> ClientMessage]
    /\ listening \in BOOLEAN
    /\ child \in [ChildId -> ChildRecord]

(* Whatever is lost, flipped, repeated, overtaken or late, and although    *)
(* recv_data never looks whether a packet is DATA, an output file only     *)
(* ever holds the first blocks of the file its client asked for.           *)
OutputIsPrefix ==
    \A c \in Clients : IsPrefix(output[c], File[c])

(* The blocks a client has: those in its output file, and the one that is  *)
(* acknowledged already and about to be written.                           *)
Has == [c \in Clients |-> IF cstate[c] = "RR_SENT"
                          THEN Append(output[c], data_buf[c])
                          ELSE output[c]]

(* A client acknowledges only what it has.  An RR overtakes the write of   *)
(* its block (rcopy.c:215, 220), and may meet the server before it: but no *)
(* RR on its way names a block beyond the one its client is about to       *)
(* write, and once the client reads on, none beyond its output file.       *)
AcksOnlyReceived ==
    \A a \in DOMAIN queue : \A k \in 1 .. Len(queue[a]) :
        LET p == queue[a][k]
        IN  p.flag = "RR" => p.load <= Len(Has[p.from[1]])

(* "This should never happen" (server.c:222, 250): a child never gets      *)
(* anything but an acknowledgement of the kind it waits for.               *)
NeverHappens ==
    \A i \in ChildId : child[i].said # "this should never happen"

(* A child that serves a client in recv_data is at most one block ahead of *)
(* it: it goes on only after the client got the block it sent last.  That  *)
(* block may still have to be written when the next one arrives.           *)
StopAndWait ==
    \A c \in Clients, i \in ChildId :
        (cstate[c] \in {"RECV_DATA", "RR_SENT"} /\ Awaits(c, i)) =>
            child[i].seq - 1 <= Len(Has[c]) + 1

(* A client that tries again does so from a new socket, so no two children *)
(* ever send to the same one: what an earlier attempt left behind cannot   *)
(* mix with the transfer under way.                                        *)
OneChildPerSocket ==
    \A c \in Clients, i, j \in ChildId :
        Awaits(c, i) /\ Awaits(c, j) => i = j

(* "File tranfer complete successfully." (server.c:255) is printed only    *)
(* when the whole file is in the output file.                              *)
SuccessIsComplete ==
    \A i \in ChildId :
        child[i].said = "complete successfully" =>
            output[child[i].remote[1]] = File[child[i].remote[1]]

(* The inductive invariant behind OutputIsPrefix and AcksOnlyReceived.     *)

(* The packets that may be on their way to socket a when the clients have  *)
(* the blocks out.  To a client: from a child; a block is the one its      *)
(* number says, of that client's file; and nothing else but an END_OF_FILE *)
(* has a number of its own.  To the main port: the names of files.         *)
Good(a, out) ==
    {p \in Packet :
        /\ a[1] \in Clients =>
              /\ p.from[1] = Server /\ p.from[2] > 0
              /\ p.flag \in {"DATA", "FNAME_OK", "FNAME_BAD", "END_OF_FILE",
                             "CRC_ERROR"}
              /\ p.flag \notin {"DATA", "END_OF_FILE"} => p.seq = 0
              /\ p.flag = "DATA" => /\ p.seq \in DOMAIN File[a[1]]
                                    /\ p.load = File[a[1]][p.seq]
        /\ a[1] = Server => p.from[1] \in Clients
        /\ a = Main => /\ p.flag \in {"FNAME", "CRC_ERROR"}
                       /\ p.flag = "FNAME" => p.load = p.from[1]
        /\ p.flag = "RR" => /\ p.from[1] \in Clients
                            /\ p.load \in 0 .. Len(out[p.from[1]])}

QueueOK(q, out) ==
    /\ DOMAIN q \subseteq Address
    /\ \A a \in DOMAIN q : q[a] \in Seq(Good(a, out))

(* The number a client expects is the one after what it has written, and   *)
(* what it is about to write is the block of that number; nothing is       *)
(* written before the output file is open.                                 *)
ClientOK(c) ==
    /\ expected[c] = Len(output[c]) + 1
    /\ IsPrefix(output[c], File[c])
    /\ cstate[c] = "RR_SENT" =>
           /\ expected[c] \in DOMAIN File[c]
           /\ data_buf[c] = File[c][expected[c]]
    /\ cstate[c] \in {"START_STATE", "FILENAME", "FILE_OK"} =>
           output[c] = <<>>

(* A child serves the client that asked, with the file it asked for, and   *)
(* what it keeps to send again is a packet for that client.                *)
ChildOK(i) ==
    /\ child[i].seq > 0
    /\ child[i].state # "UNBORN" =>
          /\ child[i].remote[1] \in Clients
          /\ child[i].fname = child[i].remote[1]
    /\ child[i].state \in {"WAIT_ON_ACK", "TIMEOUT_ON_ACK", "WAIT_ON_EOF_ACK",
                           "TIMEOUT_ON_EOF_ACK", "BLOCKED"} =>
          child[i].packet \in Good(child[i].remote, Has)

(* Whoever may receive has an open socket.                                 *)
SocketsOK ==
    /\ listening => Main \in DOMAIN queue
    /\ \A c \in Clients :
          cstate[c] \in {"FILENAME", "FILE_OK", "RECV_DATA", "RR_SENT",
                         "EOF_ACK_SENT"} =>
              Me(c) \in DOMAIN queue
    /\ \A i \in ChildId :
          child[i].state \notin {"UNBORN", "FILENAME", "DONE"} =>
              Child(i) \in DOMAIN queue

IInv ==
    /\ TypeOK
    /\ QueueOK(queue, Has)
    /\ \A c \in Clients : ClientOK(c)
    /\ \A i \in ChildId : ChildOK(i)
    /\ SocketsOK

(* Nobody waits for somebody who waits for him: the system comes to rest   *)
(* only when every client has ended and every child has ended or waits for *)
(* an EOF_ACK of a client that has.  No client has crashed: while packets   *)
(* keep their order none is ahead, and the window needs no slot.           *)
RestsOnlyAtTheEnd ==
    ~ ENABLED Next =>
        /\ \A c \in Clients : cstate[c] = "DONE"
        /\ \A i \in ChildId : child[i].state \in {"UNBORN", "BLOCKED", "DONE"}

(* The transfer as its users see it.                                       *)
Transfer == INSTANCE FileCopy WITH
    copy <- output,
    done <- {c \in Clients : said[c] = "File done"},
    complete <- {child[i].remote[1] :
                 i \in {j \in ChildId : child[j].said = "complete successfully"}}

(* With prompt timers the protocol implements a file transfer.             *)
IsFileCopy == Transfer!Spec

-----------------------------------------------------------------------------
(* Fairness: every process goes on as long as it can.  A packet sent often *)
(* enough gets through (libcpe464 spares a packet with probability at      *)
(* least 1 - error_rate > 0): a client that answers again and again is not *)
(* hit every time.                                                         *)
AnswerGetsThrough(c) ==
    /\ cstate[c] = "RECV_DATA"
    /\ \E k \in Arrivals(Me(c)) : RecvData(c, k, "sent")
    /\ UNCHANGED serverVars

Fairness ==
    /\ \A c \in Clients :
          /\ WF_vars(ClientStep(c) /\ UNCHANGED serverVars)
          /\ SF_vars(AnswerGetsThrough(c))
    /\ WF_vars(MainStep /\ UNCHANGED rcopyVars)
    /\ \A i \in ChildId : WF_vars(ChildStep(i) /\ UNCHANGED rcopyVars)

FairSpec == Spec /\ Fairness


(* No child serves forever: it ends, or comes to wait for an EOF_ACK       *)
(* without a timer.                                                        *)
ChildrenStop ==
    \A i \in ChildId :
        (child[i].state # "UNBORN") ~> (child[i].state \in {"BLOCKED", "DONE"})
=============================================================================
