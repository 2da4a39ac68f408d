----------------------------- MODULE ChatClient -----------------------------
(***************************************************************************)
(* The client of Program2_Chat (myClient.c): it connects, registers its    *)
(* user's name and then serves, one at a time, lines of the user and PDUs  *)
(* of the server.  What a command sends is put in cout and sent PDU by     *)
(* PDU, each send blocking while the connection is full.                   *)
(***************************************************************************)
EXTENDS ChatStream

CONSTANTS
    name,           \* name[c]: the name c's user gave on the command line
    MaxCommands,    \* bound: lines a user types
    MaxPieces,      \* bound: PDUs a message is cut into
    Endless         \* TRUE iff the bound is for messages only, not for %E and %L

ASSUME NameAssumption   == name \in [Clients -> Handle]
ASSUME BoundsAssumption == MaxCommands \in Nat /\ MaxPieces \in Nat
ASSUME EndlessAssumption == Endless \in BOOLEAN

VARIABLES
    cstate,     \* where the process is
    cout,       \* what it still has to send before it goes on
    typed,      \* lines its user typed, those that count
    screen,     \* the messages it displayed
    leaving     \* TRUE after a %E; FALSE after any other line, or one %E more

clientVars == <<cstate, cout, typed, screen, leaving>>

(* START: before connect; CONF: in recvConf; POLL: in clientControl; LIST: *)
(* in getallHandles; DEAF: at the end of its input; the others say how the  *)
(* process ended.                                                          *)
ClientState ==
    {"START", "CONF", "POLL", "LIST", "DEAF",
     "in use", "not answered", "terminated", "exit", "no server", "killed"}

Ended(c) == cstate[c] \notin {"START", "CONF", "POLL", "LIST", "DEAF"}

ClientInit ==
    /\ cstate = [c \in Clients |-> "START"]
    /\ cout = [c \in Clients |-> <<>>]
    /\ typed = [c \in Clients |-> 0]
    /\ screen = [c \in Clients |-> <<>>]
    /\ leaving = [c \in Clients |-> FALSE]

Goto(c, s) == cstate' = [cstate EXCEPT ![c] = s]

(* The process ends: its connection is closed.                             *)
Ends(c, how) ==
    /\ Goto(c, how)
    /\ cout' = [cout EXCEPT ![c] = <<>>]
    /\ CloseUp(c)
    /\ UNCHANGED <<typed, screen, leaving>>

-----------------------------------------------------------------------------
(* main: connect, and setupConnect's sendHandle.                           *)

Connect(c) ==
    /\ cstate[c] = "START"
    /\ Goto(c, "CONF")
    /\ cout' = [cout EXCEPT ![c] = <<HandlePDU("HELLO", name[c])>>]
    /\ link' = [link EXCEPT ![c] = "up"]
    /\ UNCHANGED <<typed, screen, leaving, up, down>>

ConnectFails(c) ==
    /\ cstate[c] = "START"
    /\ Goto(c, "no server")
    /\ UNCHANGED <<cout, typed, screen, leaving, streamVars>>

-----------------------------------------------------------------------------
(* sendTo.                                                                 *)

SendNext(c) ==
    /\ cout[c] # <<>>
    /\ SendUp(c, Head(cout[c]))
    /\ cout' = [cout EXCEPT ![c] = Tail(@)]
    /\ UNCHANGED <<cstate, typed, screen, leaving>>

(* The server has closed the connection: the send fails or raises SIGPIPE. *)
SendNextFails(c) ==
    /\ cout[c] # <<>>
    /\ link[c] \in {"cut", "aborted"}
    /\ Ends(c, "killed")

-----------------------------------------------------------------------------
(* parseString: a line of the user.                                        *)

Line(c) ==
    /\ cstate[c] = "POLL"
    /\ cout[c] = <<>>
    /\ UNCHANGED <<screen, streamVars>>

Counted(c) ==
    /\ typed[c] < MaxCommands
    /\ typed' = [typed EXCEPT ![c] = @ + 1]

NotAMessage(c) == IF Endless THEN UNCHANGED typed ELSE Counted(c)

Sends(c, s) == cout' = [cout EXCEPT ![c] = s]

(* %E.  The client goes on until the server's answer comes; a second %E is *)
(* one line more.                                                          *)
LineExit(c) ==
    /\ Line(c)
    /\ Sends(c, <<Command("EXIT")>>)
    /\ leaving' = [leaving EXCEPT ![c] = ~ @]
    /\ NotAMessage(c)
    /\ UNCHANGED cstate

Stays(c) == leaving' = [leaving EXCEPT ![c] = FALSE]

(* %L *)
LineList(c) ==
    /\ Line(c)
    /\ Sends(c, <<Command("LIST")>>)
    /\ Goto(c, "LIST")
    /\ Stays(c)
    /\ NotAMessage(c)

(* %B and %M: the message is cut into pieces of 200 bytes, each in a PDU   *)
(* with the same header; an empty message is one PDU without text.         *)
Pieces(c, flag, to, k) ==
    [i \in 1 .. k |->
        TextPDU(flag, name[c], to, [by |-> c, no |-> typed[c], piece |-> i])]

MessageLine(c, pieces) ==
    /\ Line(c)
    /\ Counted(c)
    /\ Sends(c, pieces)
    /\ Stays(c)
    /\ UNCHANGED cstate

brodcast(c, k) == MessageLine(c, Pieces(c, "BROADCAST", <<>>, k))

messageSend(c, to, k) == MessageLine(c, Pieces(c, "MESSAGE", to, k))

(* At the end of its input getchar answers EOF for ever, and poll reports   *)
(* descriptor 0 before the socket: the client takes line after line of     *)
(* nothing for invalid commands and never reads its socket again.          *)
StdinEnds(c) ==
    /\ cstate[c] = "POLL"
    /\ cout[c] = <<>>
    /\ Goto(c, "DEAF")
    /\ UNCHANGED <<cout, typed, screen, leaving, streamVars>>

-----------------------------------------------------------------------------
(* recvFromServer.                                                         *)

Reads(c, s) ==
    /\ cstate[c] = s
    /\ cout[c] = <<>>
    /\ down[c] # <<>>

(* recvConf: the first PDU.                                                *)
ConfOk(c) ==
    /\ Reads(c, "CONF")
    /\ Head(down[c]).flag = "OK"
    /\ RecvDown(c)
    /\ Goto(c, "POLL")
    /\ UNCHANGED <<cout, typed, screen, leaving>>

ConfNot(c) ==
    /\ Reads(c, "CONF")
    /\ Head(down[c]).flag # "OK"
    /\ Ends(c, IF Head(down[c]).flag = "IN_USE" THEN "in use"
                                                ELSE "not answered")

Displays(c, p) ==
    screen' = IF p.flag \in {"BROADCAST", "MESSAGE"}
              THEN [screen EXCEPT ![c] = Append(@, p.text)]
              ELSE screen

(* clientControl *)
PollReads(c) ==
    /\ Reads(c, "POLL")
    /\ Head(down[c]).flag # "EXIT"
    /\ Displays(c, Head(down[c]))
    /\ RecvDown(c)
    /\ UNCHANGED <<cstate, cout, typed, leaving>>

PollReadsExit(c) ==
    /\ Reads(c, "POLL")
    /\ Head(down[c]).flag = "EXIT"
    /\ Goto(c, "exit")
    /\ CloseUp(c)
    /\ UNCHANGED <<cout, typed, screen, leaving>>

(* getallHandles reads until the end of the list, whatever else comes.     *)
ListReads(c) ==
    /\ Reads(c, "LIST")
    /\ Displays(c, Head(down[c]))
    /\ RecvDown(c)
    /\ Goto(c, IF Head(down[c]).flag = "END" THEN "POLL" ELSE "LIST")
    /\ UNCHANGED <<cout, typed, leaving>>

(* The end of the connection.  In getallHandles a recv that answers 0 is   *)
(* followed by another, for ever: no step of this module.  A recv that     *)
(* fails ends the process everywhere: the length read from the cleared     *)
(* buffer is negative.                                                     *)
ServerGone(c) ==
    /\ cout[c] = <<>>
    /\ down[c] = <<>>
    /\ \/ /\ cstate[c] \in {"CONF", "POLL"}
          /\ link[c] \in {"cut", "aborted"}
       \/ /\ cstate[c] = "LIST"
          /\ link[c] = "aborted"
    /\ Ends(c, "terminated")

-----------------------------------------------------------------------------
(* The user stops the process, anywhere.                                   *)
Interrupt(c) ==
    /\ cstate[c] # "START"
    /\ ~ Ended(c)
    /\ Ends(c, "killed")

Receives(c) ==
    \/ ConfOk(c)
    \/ ConfNot(c)
    \/ PollReads(c)
    \/ PollReadsExit(c)
    \/ ListReads(c)
    \/ ServerGone(c)
=============================================================================
