----------------------------- MODULE EchoServer -----------------------------
(***************************************************************************)
(* The echo servers of LAB3 and LAB3_2 (their myServer.c).  That of LAB3_2 *)
(* polls its sockets; that of LAB3 serves one client to its end, closes    *)
(* both sockets and begins again.  What they do with a PDU is the same.    *)
(***************************************************************************)
EXTENDS EchoClient, PollSet, Sequences, FiniteSetsExt, SequencesExt

CONSTANTS
    Labs,           \* which of the two servers
    Limits,         \* greatest descriptors a process may be given
    NoClient

ServerSocket == 3
ClientSocket == 4

ASSUME LabsAssumption == Labs \subseteq {"LAB3", "LAB3_2"}
ASSUME LimitsAssumption ==
    Limits \subseteq {n \in Nat : n >= ClientSocket} /\ IsFiniteSet(Limits)
ASSUME EntryAssumption == ServerSocket < POLL_SET_SIZE /\ NoClient \notin Clients

VARIABLES
    lab,        \* the server that runs
    server,     \* "RUNNING", "CLOSED" (its sockets), "SPINS", or what it ended of
    backlog,    \* clients connected and not accepted yet
    fds,        \* fds[s]: the client at the other end of socket s
    limit,      \* its greatest descriptor
    pending,    \* the PDU it has received and not sent back, and to which socket
    stdin       \* "open", or "hung": descriptor 0 is at its end

serverVars == <<lab, server, backlog, fds, limit, pending, stdin, pollSetVars>>

Socket == ClientSocket .. Max(Limits)

Idle == [socket |-> 0, pdu |-> NoLine]

ServerInit ==
    /\ lab \in Labs
    /\ server = "RUNNING"
    /\ backlog = <<>>
    /\ fds = [s \in Socket |-> NoClient]
    /\ limit \in Limits
    /\ pending = Idle
    /\ stdin = "open"
    /\ setupPollSet(ServerSocket)

-----------------------------------------------------------------------------
(* The clients in C find their connection closed; one that was not         *)
(* accepted, or not read to its end, is reset.                             *)
CloseDown(C) ==
    link' = [c \in Clients |->
                IF c \in C /\ link[c] = "up"
                THEN IF up[c] = NoLine /\ c \notin Range(backlog) THEN "cut" ELSE "aborted"
                ELSE link[c]]

ServerDies(of) ==
    /\ server' = of
    /\ pending' = Idle
    /\ CloseDown(Clients)
    /\ UNCHANGED <<backlog, fds, up, down>>

SomethingToRead(c) == up[c] # NoLine \/ link[c] \in {"fin", "reset"}

-----------------------------------------------------------------------------
(* Which socket is served.                                                 *)

Readable ==
    (IF backlog # <<>> THEN {ServerSocket} ELSE {})
    \cup {s \in Socket : fds[s] # NoClient /\ SomethingToRead(fds[s])}

(* A descriptor that is not open is reported like one at its end.          *)
HungUp ==
    (IF stdin = "hung" THEN {0} ELSE {})
    \cup {s \in Socket : fds[s] = NoClient}

Ready == server = "RUNNING" /\ pending = Idle

(* LAB3_2 asks poll, LAB3 waits for its client.                            *)
Serves(s) ==
    /\ Ready
    /\ s \in Socket
    /\ \/ lab = "LAB3_2" /\ pollCall(Readable, HungUp, s)
       \/ lab = "LAB3" /\ s \in Readable

FreeFD == {s \in Socket : s <= limit /\ fds[s] = NoClient}

(* accept answers the lowest free descriptor.                              *)
tcpAccept ==
    /\ FreeFD # {}
    /\ fds' = [fds EXCEPT ![Min(FreeFD)] = Head(backlog)]
    /\ backlog' = Tail(backlog)

addNewClient ==
    /\ Ready /\ lab = "LAB3_2"
    /\ pollCall(Readable, HungUp, ServerSocket)
    /\ tcpAccept
    /\ addToPollSet(Min(FreeFD))
    /\ UNCHANGED <<lab, server, limit, pending, stdin, linkVars>>

AcceptFails ==
    /\ Ready /\ lab = "LAB3_2"
    /\ pollCall(Readable, HungUp, ServerSocket)
    /\ FreeFD = {}
    /\ ServerDies("accept")
    /\ UNCHANGED <<lab, limit, stdin, pollSetVars>>

-----------------------------------------------------------------------------
(* Mutant: LAB3_2 leaves the socket in the poll set.                       *)
CloseClientPolled(s) ==
    /\ fds' = [fds EXCEPT ![s] = NoClient]
    /\ \/ /\ lab = "LAB3_2"
          /\ UNCHANGED <<server, backlog, link, pollSetVars>>
       \/ /\ lab = "LAB3"
          /\ server' = "CLOSED"
          /\ CloseDown(Range(backlog))
          /\ backlog' = <<>>
          /\ UNCHANGED pollSetVars

(* Mutant: LAB3_2 closes main's clientSocket instead.                      *)
CloseClientSocket(s) ==
    /\ fds' = [fds EXCEPT ![ClientSocket] = NoClient]
    /\ removeFromPollSet(ClientSocket)
    /\ CloseDown({fds[ClientSocket]})
    /\ UNCHANGED <<server, backlog>>

(* What is done about a client for which processClient answers 0, or       *)
(* recvFromClient.  LAB3's close of the server's socket turns away whoever *)
(* is waiting.                                                             *)
CloseClient(s) ==
    /\ fds' = [fds EXCEPT ![s] = NoClient]
    /\ \/ /\ lab = "LAB3_2"
          /\ removeFromPollSet(s)
          /\ UNCHANGED <<server, backlog, link>>
       \/ /\ lab = "LAB3"
          /\ server' = "CLOSED"
          /\ CloseDown(Range(backlog))
          /\ backlog' = <<>>
          /\ UNCHANGED pollSetVars

(* recvPDU answers the length of a line.                                   *)
recvPDU(s) ==
    /\ Serves(s) /\ fds[s] # NoClient
    /\ up[fds[s]] \notin {NoLine, Exit}
    /\ up' = [up EXCEPT ![fds[s]] = NoLine]
    /\ pending' = [socket |-> s, pdu |-> up[fds[s]]]
    /\ UNCHANGED <<lab, server, backlog, fds, limit, stdin, pollSetVars, link, down>>

(* The client says exit, or its connection is at its end.                  *)
ClientGone(s) ==
    /\ Serves(s) /\ fds[s] # NoClient
    /\ LET c == fds[s]
       IN  /\ up[c] = Exit \/ (up[c] = NoLine /\ link[c] = "fin")
           /\ up' = [up EXCEPT ![c] = NoLine]
    /\ CloseClient(s)
    /\ UNCHANGED <<lab, limit, pending, stdin, down>>

(* recv fails.  Its -1 is 255 in a uint8_t, so the first bytes of an        *)
(* uninitialised buffer are taken for a length.  It may be too small, and  *)
(* the process ends; or what is in the buffer is sent back, which raises   *)
(* SIGPIPE; or it is 2, or the buffer says exit, and the client is closed. *)
recvPDUFails(s) ==
    /\ Serves(s)
    /\ s \in {t \in Socket :
                fds[t] # NoClient => up[fds[t]] = NoLine /\ link[fds[t]] = "reset"}
    /\ \/ \E of \in {"recv", "send"} : ServerDies(of) /\ UNCHANGED pollSetVars
       \/ CloseClient(s) /\ UNCHANGED <<pending, up, down>>
    /\ UNCHANGED <<lab, limit, stdin>>

(* Entry 0 stands for descriptor 0, which poll reports, asked or not, when *)
(* the other end of stdin is gone.  recv fails there, for it is no socket; *)
(* the process ends, or the buffer says exit, descriptor 0 is closed, and  *)
(* as poll reports it still, this repeats forever.                         *)
ProcessStdin ==
    /\ Ready /\ lab = "LAB3_2"
    /\ pollCall(Readable, HungUp, 0)
    /\ \/ ServerDies("stdin")
       \/ server' = "SPINS" /\ UNCHANGED <<backlog, fds, pending, linkVars>>
    /\ UNCHANGED <<lab, limit, stdin, pollSetVars>>

(* Mutant: the echo goes to every client that is connected.                *)
sendPDUToAll(s, pdu) ==
    down' = [c \in Clients |->
                IF link[c] = "up" /\ \E t \in Socket : fds[t] = c THEN pdu ELSE down[c]]

(* To a client that has closed it goes nowhere.                            *)
sendPDU(s, pdu) ==
    LET c == fds[s]
    IN  down' = [down EXCEPT ![c] = IF link[c] = "up" THEN pdu ELSE @]

Echo ==
    /\ server = "RUNNING"
    /\ pending # Idle
    /\ sendPDU(pending.socket, pending.pdu)
    /\ pending' = Idle
    /\ UNCHANGED <<lab, server, backlog, fds, limit, stdin, pollSetVars, link, up>>

-----------------------------------------------------------------------------
(* LAB3 accepts when it has no client.                                     *)
AcceptOne ==
    /\ Ready /\ lab = "LAB3"
    /\ \A s \in Socket : fds[s] = NoClient
    /\ backlog # <<>>
    /\ tcpAccept
    /\ UNCHANGED <<lab, server, limit, pending, stdin, pollSetVars, linkVars>>

(* The port may still belong to the connection that was closed last.       *)
tcpServerSetup ==
    /\ server = "CLOSED"
    /\ server' \in {"RUNNING", "bind"}
    /\ UNCHANGED <<lab, backlog, fds, limit, pending, stdin, pollSetVars, linkVars>>

ServerStep ==
    \/ addNewClient
    \/ AcceptFails
    \/ \E s \in Socket :
          \/ recvPDU(s)
          \/ ClientGone(s)
          \/ recvPDUFails(s)
    \/ ProcessStdin
    \/ Echo
    \/ AcceptOne
    \/ tcpServerSetup

StdinHangsUp ==
    /\ stdin = "open"
    /\ stdin' = "hung"
    /\ UNCHANGED <<lab, server, backlog, fds, limit, pending, pollSetVars>>
=============================================================================
