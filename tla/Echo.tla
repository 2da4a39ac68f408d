-------------------------------- MODULE Echo --------------------------------
(***************************************************************************)
(* LAB3 and LAB3_2: a server, its clients and their connections.           *)
(***************************************************************************)
EXTENDS EchoServer

VARIABLE
    served      \* the clients accepted so far

vars == <<clientVars, linkVars, serverVars, served>>

Init == ClientInit /\ ServerInit /\ served = {}

Listening == server \in {"RUNNING", "SPINS"}

Connects(c) ==
    /\ Listening
    /\ tcpClientSetup(c)
    /\ backlog' = Append(backlog, c)
    /\ UNCHANGED <<lab, server, fds, limit, pending, stdin, pollSetVars, served>>

Server ==
    /\ ServerStep
    /\ served' = served \cup (Range(fds') \ {NoClient})
    /\ UNCHANGED clientVars

Client(c) == ClientStep(c) /\ UNCHANGED <<serverVars, served>>

Next ==
    \/ Server
    \/ \E c \in Clients :
          \/ Connects(c)
          \/ Client(c)
          \/ UserStep(c) /\ UNCHANGED <<serverVars, served>>
          \/ ~ Listening /\ ConnectFails(c) /\ UNCHANGED <<serverVars, served>>
    \/ lab = "LAB3_2" /\ StdinHangsUp /\ UNCHANGED <<clientVars, linkVars, served>>

(* The processes are scheduled; the users are not.                         *)
Spec ==
    /\ Init
    /\ [][Next]_vars
    /\ WF_vars(Server)
    /\ \A c \in Clients : WF_vars(Client(c))

-----------------------------------------------------------------------------
(* However the clients take turns and descriptors are used again: what a    *)
(* client prints is the line it has just sent, unless its connection is    *)
(* broken (myServer.c:82, myClient.c:118).                                 *)
EchoIsOwn ==
    \A c \in Clients :
        heard[c] # NoLine =>
            \/ heard[c] = said[c]
            \/ heard[c] = Stale /\ link[c] \in {"cut", "broken"}

(* A client that has not closed is turned out by nobody: its connection    *)
(* ends when the server does, or when it was waiting behind another client *)
(* of LAB3 (myServer.c:55).                                                *)
NobodyIsTurnedOut ==
    \A c \in Clients :
        link[c] \in {"cut", "aborted"} =>
            \/ server \notin {"RUNNING", "CLOSED", "SPINS"}
            \/ lab = "LAB3" /\ c \notin served

(* An entry of the poll set asks for input just when it stands for a       *)
(* socket that is open, and poll looks at all of these (pollLib.c:37-61).  *)
PollSetIsOpen ==
    lab = "LAB3_2" =>
        LET open == {ServerSocket} \cup {s \in Socket : fds[s] # NoClient}
        IN  /\ \A i \in DOMAIN pollFileDescriptors :
                  pollFileDescriptors[i] = IF i \in open THEN Polled(i) ELSE Unused
            /\ open \subseteq DOMAIN pollFileDescriptors
            /\ \A s \in open : s < maxFileDescriptor
            /\ maxFileDescriptor <= currentPollSetSize

(* A server ends, or is lost in a loop, only because a client was stopped   *)
(* before it had read its echo, the other end of stdin went away, it ran    *)
(* out of descriptors, or it began again too soon (PDUlab.c:8, pollLib.c:59,*)
(* networks.c:79, 45).                                                     *)
EndsOnlyBecause ==
    /\ server \in {"recv", "send"} => \E c \in served : cstate[c] = "killed"
    /\ server \in {"stdin", "SPINS"} => stdin = "hung"
    /\ server = "accept" => FreeFD = {}
    /\ server = "bind" => lab = "LAB3" /\ \E c \in served : Ended(c)

(* Somebody else is served first: in LAB3_2, a client with a lower         *)
(* descriptor (pollLib.c:86); in LAB3, the client it has accepted.         *)
Overtaken(c) ==
    \E s \in Socket :
        /\ fds[s] \notin {c, NoClient}
        /\ \/ lab = "LAB3"
           \/ /\ pending.socket = s
              /\ \A t \in Socket : fds[t] = c => s < t

(* Whoever has sent a line gets an answer, or finds that the server is      *)
(* gone, unless others are served before it again and again, or the server  *)
(* is lost in a loop.                                                      *)
IsAnswered ==
    \A c \in Clients :
        \/ (cstate[c] = "RECV") ~> (cstate[c] # "RECV" \/ server = "SPINS")
        \/ []<>Overtaken(c)
=============================================================================
