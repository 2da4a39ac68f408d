----------------------------- MODULE ChatServer -----------------------------
(***************************************************************************)
(* The server of Program2_Chat (myServer.c, pollLib.c): one process that   *)
(* serves the lowest socket that is ready.  A handler works out what it    *)
(* sends from the PDU and the list alone, so it is a step that reads the   *)
(* PDU and fills outbox, and the sends, each of which may block or fail,   *)
(* are steps that empty it; serverControl polls again when it is empty.    *)
(***************************************************************************)
EXTENDS ChatStream, HandleTable, FiniteSetsExt

CONSTANT
    MaxFD       \* bound: sockets the process may open

ASSUME MaxFDAssumption == MaxFD \in Nat \ {0}

VARIABLES
    server,     \* "RUNNING" or "DEAD"
    backlog,    \* clients connected and not accepted yet
    fds,        \* fds[s]: the client at the other end of socket s
    pollSet,    \* sockets in the poll set
    list,       \* the list of clients
    outbox,     \* what the handler under way still does, in order
    buf         \* the PDU left in processClient's buffer

serverVars == <<server, backlog, fds, pollSet, list, outbox, buf>>

(* Socket 1 stands for the first descriptor the process opens.             *)
ServerSocket == 1
FD == ServerSocket .. MaxFD

NoPDU == Command("NONE")

ServerInit ==
    /\ server = "RUNNING"
    /\ backlog = <<>>
    /\ fds = [s \in FD |-> NoClient]
    /\ pollSet = {ServerSocket}
    /\ list = <<>>
    /\ outbox = <<>>
    /\ buf = NoPDU

-----------------------------------------------------------------------------
(* Steps of a handler.                                                     *)

Send(s, p) == [op |-> "send", socket |-> s, pdu |-> p]
Close(s)   == [op |-> "close", socket |-> s, pdu |-> NoPDU]

(* The process ends: every connection is closed.                           *)
ServerDies ==
    /\ server' = "DEAD"
    /\ outbox' = <<>>
    /\ CloseDown(Clients, ToSet(backlog))

-----------------------------------------------------------------------------
(* pollCall returns the lowest socket that is ready.                       *)

Ready(s) ==
    /\ s \in pollSet
    /\ IF s = ServerSocket THEN backlog # <<>>
       ELSE fds[s] # NoClient /\ SomethingToRead(fds[s])

pollCall(s) ==
    /\ server = "RUNNING"
    /\ outbox = <<>>
    /\ Ready(s)
    /\ \A t \in FD : Ready(t) => s <= t

-----------------------------------------------------------------------------
(* A new connection: accept returns the lowest free descriptor.            *)

FreeFD == {s \in FD \ {ServerSocket} : fds[s] = NoClient}

(* Mutant: accept's answer is added to the poll set even when it failed.   *)
addNewClientUnchecked ==
    /\ pollCall(ServerSocket)
    /\ IF FreeFD # {}
       THEN /\ fds' = [fds EXCEPT ![Min(FreeFD)] = Head(backlog)]
            /\ pollSet' = pollSet \cup {Min(FreeFD)}
       ELSE /\ UNCHANGED fds
            /\ pollSet' = pollSet \cup {ServerSocket - 1}
    /\ backlog' = Tail(backlog)
    /\ UNCHANGED <<server, list, outbox, buf, streamVars>>

addNewClient ==
    /\ pollCall(ServerSocket)
    /\ FreeFD # {}
    /\ fds' = [fds EXCEPT ![Min(FreeFD)] = Head(backlog)]
    /\ pollSet' = pollSet \cup {Min(FreeFD)}
    /\ backlog' = Tail(backlog)
    /\ UNCHANGED <<server, list, outbox, buf, streamVars>>

AcceptFails ==
    /\ pollCall(ServerSocket)
    /\ FreeFD = {}
    /\ ServerDies
    /\ UNCHANGED <<backlog, fds, pollSet, list, buf, up, down>>

-----------------------------------------------------------------------------
(* The handlers of processClient: what each sends in answer to PDU p from  *)
(* socket s.                                                               *)

(* Mutant: the name is not looked up first.                                *)
connectClientUnchecked(s, p) ==
    /\ list' = insertList(list, s, p.handle)
    /\ outbox' = <<Send(s, Command("OK"))>>

(* Mutant: the node is inserted before the answer is known.                *)
connectClientListsAll(s, p) ==
    /\ list' = insertList(list, s, p.handle)
    /\ outbox' = IF getClientHandle(list, p.handle) = NULL
                 THEN <<Send(s, Command("OK"))>>
                 ELSE <<Send(s, Command("IN_USE")), Close(s)>>

connectClient(s, p) ==
    IF getClientHandle(list, p.handle) = NULL
    THEN /\ list' = insertList(list, s, p.handle)
         /\ outbox' = <<Send(s, Command("OK"))>>
    ELSE /\ outbox' = <<Send(s, Command("IN_USE")), Close(s)>>
         /\ UNCHANGED list

(* Mutant: a broadcast goes to every connection, registered or not.        *)
recAndSendBroadCastToAll(p) ==
    SetToSeq({Send(s, p) : s \in {t \in FD : fds[t] # NoClient}})

(* A send for every node that has another name, in the order of the list.  *)
recAndSendBroadCast(p) ==
    LET sends[i \in 0 .. Len(list)] ==
            IF i = 0 THEN <<>>
            ELSE IF list[i].handle = p.handle THEN sends[i - 1]
            ELSE Append(sends[i - 1], Send(list[i].data, p))
    IN  sends[Len(list)]

(* Mutant: the last name of the message is left out.                       *)
recAndSendMessButLast(s, p) ==
    [i \in 1 .. Len(p.to) - 1 |->
        LET client == getClientHandle(list, p.to[i])
        IN  IF client = NULL THEN Send(s, HandlePDU("UNKNOWN", p.to[i]))
            ELSE Send(list[client].data, p)]

recAndSendMess(s, p) ==
    [i \in DOMAIN p.to |->
        LET client == getClientHandle(list, p.to[i])
        IN  IF client = NULL THEN Send(s, HandlePDU("UNKNOWN", p.to[i]))
            ELSE Send(list[client].data, p)]

(* Mutant: the list is not closed by an END.                               *)
sendListNoEnd(s) ==
    <<Send(s, Command("NUMBER"))>>
    \o [i \in DOMAIN list |-> Send(s, HandlePDU("HANDLE", list[i].handle))]

sendList(s) ==
    <<Send(s, Command("NUMBER"))>>
    \o [i \in DOMAIN list |-> Send(s, HandlePDU("HANDLE", list[i].handle))]
    \o <<Send(s, Command("END"))>>

(* Mutant: a client that leaves is not answered.                           *)
HandlerExitIgnored(s, p) ==
    CASE p.flag = "BROADCAST" -> recAndSendBroadCast(p)
      [] p.flag = "MESSAGE"   -> recAndSendMess(s, p)
      [] p.flag = "EXIT"      -> <<>>
      [] p.flag = "LIST"      -> sendList(s)

Handler(s, p) ==
    CASE p.flag = "BROADCAST" -> recAndSendBroadCast(p)
      [] p.flag = "MESSAGE"   -> recAndSendMess(s, p)
      [] p.flag = "EXIT"      -> <<Send(s, Command("EXIT"))>>
      [] p.flag = "LIST"      -> sendList(s)

processClient(s) ==
    LET c == fds[s]
    IN  /\ s # ServerSocket
        /\ pollCall(s)
        /\ up[c] # <<>>
        /\ RecvUp(c)
        /\ buf' = Head(up[c])
        /\ \/ /\ Head(up[c]).flag = "HELLO"
              /\ connectClient(s, Head(up[c]))
           \/ /\ Head(up[c]).flag # "HELLO"
              /\ outbox' = Handler(s, Head(up[c]))
              /\ UNCHANGED list
        /\ UNCHANGED <<server, backlog, fds, pollSet, link, down>>

-----------------------------------------------------------------------------
(* The end of a connection: recvPDU answers 0.                             *)

AtEnd(s) ==
    /\ s # ServerSocket
    /\ pollCall(s)
    /\ up[fds[s]] = <<>>

(* Mutant: the socket is closed and its node stays.                        *)
ClientGoneStaysListed(s) ==
    /\ AtEnd(s)
    /\ link[fds[s]] \in {"fin", "bounced"}
    /\ fds' = [fds EXCEPT ![s] = NoClient]
    /\ pollSet' = pollSet \ {s}
    /\ UNCHANGED <<server, backlog, list, outbox, buf, streamVars>>

ClientGone(s) ==
    /\ AtEnd(s)
    /\ link[fds[s]] \in {"fin", "bounced"}
    /\ getClientSocket(list, s) # NULL \/ list = <<>>
    /\ list' = removeList(list, s)
    /\ fds' = [fds EXCEPT ![s] = NoClient]
    /\ pollSet' = pollSet \ {s}
    /\ UNCHANGED <<server, backlog, outbox, buf, streamVars>>

(* The client never registered and others did: getClientSocket answers     *)
(* NULL and removeListHelper reads client->data.                           *)
StrangerGone(s) ==
    /\ AtEnd(s)
    /\ link[fds[s]] \in {"fin", "bounced"}
    /\ getClientSocket(list, s) = NULL /\ list # <<>>
    /\ ServerDies
    /\ UNCHANGED <<backlog, fds, pollSet, list, buf, up, down>>

(* recv fails.  Its -1 is kept in a uint8_t, so recvPDU takes the first    *)
(* two bytes of an uninitialised buffer for a length: a length that is     *)
(* too small ends the process, and any other makes processClient handle    *)
(* whatever PDU the buffer holds.  On the stack of serverControl's loop    *)
(* that is the one handled before, if no answer overwrote its flag: a      *)
(* message, sent out again, or one whose answer to s fails at once.  (The  *)
(* length 2 is taken for the end of the connection, which is found there   *)
(* by the next poll anyway.)                                               *)
RecvFails(s) ==
    /\ AtEnd(s)
    /\ link[fds[s]] = "reset"

RecvFailsEnds(s) ==
    /\ RecvFails(s)
    /\ ServerDies
    /\ UNCHANGED <<backlog, fds, pollSet, list, buf, up, down>>

RecvFailsGoesOn(s) ==
    /\ RecvFails(s)
    /\ link' = [link EXCEPT ![fds[s]] = "bounced"]
    /\ outbox' \in {<<>>} \cup
          (IF buf.flag \in {"BROADCAST", "MESSAGE"}
           THEN {Handler(s, buf)} ELSE {})
    /\ UNCHANGED <<server, backlog, fds, pollSet, list, buf, up, down>>

-----------------------------------------------------------------------------
(* sendTo, and the end of connectClient for a name in use.                 *)

Sending == server = "RUNNING" /\ outbox # <<>>

SendTo ==
    /\ Sending
    /\ Head(outbox).op = "send"
    /\ LET c == fds[Head(outbox).socket]
       IN  c # NoClient /\ SendDown(c, Head(outbox).pdu)
    /\ outbox' = Tail(outbox)
    /\ UNCHANGED <<server, backlog, fds, pollSet, list, buf>>

(* A send that fails ends the server.                                      *)
SendToFails ==
    /\ Sending
    /\ Head(outbox).op = "send"
    /\ LET c == fds[Head(outbox).socket]
       IN  c = NoClient \/ SendDownFails(c)
    /\ ServerDies
    /\ UNCHANGED <<backlog, fds, pollSet, list, buf, up, down>>

CloseSocket ==
    /\ Sending
    /\ Head(outbox).op = "close"
    /\ LET s == Head(outbox).socket
       IN  /\ pollSet' = pollSet \ {s}
           /\ CloseDown({fds[s]}, {})
           /\ fds' = [fds EXCEPT ![s] = NoClient]
    /\ outbox' = Tail(outbox)
    /\ UNCHANGED <<server, backlog, list, buf, up, down>>

ServerStep ==
    \/ addNewClient
    \/ AcceptFails
    \/ \E s \in FD :
          \/ processClient(s)
          \/ ClientGone(s)
          \/ StrangerGone(s)
          \/ RecvFailsEnds(s)
          \/ RecvFailsGoesOn(s)
    \/ SendTo
    \/ SendToFails
    \/ CloseSocket
=============================================================================
