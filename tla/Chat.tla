-------------------------------- MODULE Chat --------------------------------
(***************************************************************************)
(* Program2_Chat: the server, its clients and the connections between      *)
(* them.                                                                   *)
(***************************************************************************)
EXTENDS ChatServer, ChatClient

CONSTANTS
    To,         \* the lists of names users type after %M
    MayLeave,   \* TRUE iff users type %E
    MayStop,    \* TRUE iff users stop their client by force
    MayHangUp   \* TRUE iff the input of a client ends

ASSUME ToAssumption    == To \subseteq Seq(Handle)
ASSUME LeaveAssumption == {MayLeave, MayStop, MayHangUp} \subseteq BOOLEAN

vars == <<streamVars, serverVars, clientVars>>

Init == StreamInit /\ ServerInit /\ ClientInit

(* connect succeeds as soon as the connection is in the server's backlog.  *)
Arrive(c) ==
    /\ server = "RUNNING"
    /\ Connect(c)
    /\ backlog' = Append(backlog, c)
    /\ UNCHANGED <<server, fds, pollSet, list, outbox, buf>>

Types(c) ==
    \/ MayLeave /\ LineExit(c)
    \/ LineList(c)
    \/ \E k \in 1 .. MaxPieces :
          \/ brodcast(c, k)
          \/ \E to \in To : messageSend(c, to, k)

ClientStep(c) ==
    \/ SendNext(c)
    \/ SendNextFails(c)
    \/ Receives(c)

Next ==
    \/ ServerStep /\ UNCHANGED clientVars
    \/ \E c \in Clients : Arrive(c)
    \/ /\ \E c \in Clients :
             \/ ClientStep(c)
             \/ Types(c)
             \/ server = "DEAD" /\ ConnectFails(c)
             \/ MayStop /\ Interrupt(c)
             \/ MayHangUp /\ StdinEnds(c)
       /\ UNCHANGED serverVars

Spec == Init /\ [][Next]_vars

-----------------------------------------------------------------------------
(* Properties.                                                             *)

Action == [op : {"send", "close"}, socket : FD, pdu : PDU]

(* The variables have the types of the code.                               *)
TypeOK ==
    /\ link \in [Clients -> LinkState]
    /\ up \in [Clients -> Seq(PDU)]
    /\ down \in [Clients -> Seq(PDU)]
    /\ server \in {"RUNNING", "DEAD"}
    /\ backlog \in Seq(Clients)
    /\ fds \in [FD -> Clients \cup {NoClient}]
    /\ pollSet \subseteq FD
    /\ list \in Seq(Node(FD, Handle))
    /\ outbox \in Seq(Action)
    /\ buf \in PDU
    /\ cstate \in [Clients -> ClientState]
    /\ cout \in [Clients -> Seq(PDU)]
    /\ typed \in [Clients -> Nat]
    /\ screen \in [Clients -> Seq(Text)]
    /\ leaving \in [Clients -> BOOLEAN]

(* However clients come, go and are refused, and although descriptors are  *)
(* used again: no two nodes of the list have the same name (connectClient) *)
HandlesDiffer ==
    \A i, j \in DOMAIN list : list[i].handle = list[j].handle => i = j

(* ... or the same socket, and every node's socket is open and polled: the *)
(* server never sends to a descriptor that is closed or has become someone *)
(* else's.                                                                 *)
NodesAreOpen ==
    \A i \in DOMAIN list :
        /\ fds[list[i].data] # NoClient
        /\ list[i].data \in pollSet
        /\ name[fds[list[i].data]] = list[i].handle
        /\ \A j \in DOMAIN list : list[i].data = list[j].data => i = j

(* The first PDU a client receives answers its name: recvConf, which gives *)
(* up on any other, never meets a message of somebody else.                *)
AnswerComesFirst ==
    \A c \in Clients :
        cstate[c] = "CONF" /\ down[c] # <<>> =>
            Head(down[c]).flag \in {"OK", "IN_USE"}

(* A client whose name was in use is not in the room: nothing it says is   *)
(* passed on and nothing is said to it.                                    *)
RefusedIsOut ==
    \A c \in Clients :
        cstate[c] = "in use" =>
            /\ screen[c] = <<>>
            /\ \A i \in DOMAIN list : fds[list[i].data] # c

(* The server sends to a client that reads nothing, and the connection is  *)
(* full: the client itself is sending, and full is the other direction,    *)
(* too; or its input has ended.                                            *)
Standstill ==
    /\ Sending
    /\ LET c == fds[Head(outbox).socket]
       IN  /\ c # NoClient
           /\ link[c] = "up"
           /\ Len(down[c]) = BufCap
           /\ \/ cout[c] # <<>> /\ Len(up[c]) = BufCap
              \/ cstate[c] = "DEAF"

(* The chat comes to rest only when every client waits for its user, has   *)
(* none any more, has ended or hangs in getallHandles on a server that is  *)
(* dead; or when it stands still.                                          *)
RestsOnlyWhen ==
    ~ ENABLED (ServerStep \/ \E c \in Clients : ClientStep(c)) =>
        \/ \A c \in Clients :
              \/ cstate[c] \in {"START", "POLL", "DEAF"} /\ cout[c] = <<>>
              \/ Ended(c)
              \/ cstate[c] = "LIST" /\ server = "DEAD"
        \/ Standstill

-----------------------------------------------------------------------------
(* The room.  A text is heard when the server puts it in its outbox: what  *)
(* the client has displayed, what is on its way and what is about to be    *)
(* sent.                                                                   *)

(* What is displayed of a PDU.                                             *)
Shown(p) == IF p.flag \in {"BROADCAST", "MESSAGE"} THEN <<p.text>> ELSE <<>>

Texts(pdus) == FlattenSeq([i \in DOMAIN pdus |-> Shown(pdus[i])])

(* Those for c of what is sent to sockets.                                 *)
TextsFor(c, socket, sends) ==
    FlattenSeq([i \in DOMAIN sends |->
        IF socket[sends[i].socket] = c THEN Shown(sends[i].pdu) ELSE <<>>])

Room == INSTANCE ChatRoom WITH
    Text <- [c \in Clients |->
                [by : {c}, no : 0 .. MaxCommands, piece : 1 .. MaxPieces]],
    member <- {fds[list[i].data] : i \in DOMAIN list},
    heard <- [c \in Clients |->
                 screen[c] \o Texts(down[c]) \o TextsFor(c, fds, outbox)]

(* As long as nobody leaves, the server implements the room.               *)
IsChatRoom == Room!Spec

-----------------------------------------------------------------------------
(* Fairness: the processes are scheduled.                                  *)
FairSpec ==
    /\ Spec
    /\ WF_vars(ServerStep /\ UNCHANGED clientVars)
    /\ \A c \in Clients : WF_vars(ClientStep(c) /\ UNCHANGED serverVars)

(* A client with a lower descriptor is served first (pollLib.c:9-10, 86).  *)
Overtaken(c) ==
    \E s, t \in FD : s < t /\ Ready(s) /\ Ready(t) /\ fds[t] = c

(* A user who asks to leave and types nothing more is let go, unless the   *)
(* chat stands still or others are served before it again and again, as    *)
(* they may be who type without end; but not one whose input ends before   *)
(* the answer comes (myClient.c:257-269).                                  *)
ExitIsAnswered ==
    \A c \in Clients :
        \/ leaving[c] ~>
              \/ Ended(c)
              \/ ~ leaving[c]
              \/ cstate[c] = "DEAF"
              \/ Standstill
        \/ []<>Overtaken(c)
=============================================================================
