----------------------------- MODULE EchoClient -----------------------------
(***************************************************************************)
(* The client of LAB3 and LAB3_2 (myClient.c, the same in both) and its    *)
(* TCP connection: it sends a line, waits for its echo, prints it and asks *)
(* for the next, so there is never more than one PDU each way.  TCP is     *)
(* external: what is modelled of it is what send and recv answer.          *)
(***************************************************************************)
EXTENDS Naturals

CONSTANTS
    Clients,
    Lines,          \* what users type, besides "exit"
    Exit,           \* the line "exit"
    Fill,           \* what readFromStdin makes of the end of the input
    NoLine, Stale   \* nothing, and a buffer nothing was received into

ASSUME LinesAssumption ==
    Fill \in Lines /\ {Exit, NoLine, Stale} \cap Lines = {}
    /\ Exit # NoLine /\ Exit # Stale /\ NoLine # Stale

VARIABLES
    cstate,     \* where each client is
    said,       \* said[c]: the line it sent last
    heard,      \* heard[c]: what it printed since
    link,       \* link[c]: the state of its connection
    up,         \* up[c]: the PDU from it that the server has not read
    down        \* down[c]: the PDU to it that it has not read

clientVars == <<cstate, said, heard>>
linkVars   == <<link, up, down>>

(* "left": the user typed exit; "failed": a call failed or raised SIGPIPE;  *)
(* "killed": the user stopped the process.                                 *)
Ended(c) == cstate[c] \in {"left", "failed", "killed"}

ClientState == {"START", "TYPE", "RECV", "left", "failed", "killed"}

(* As the server finds it: "up"; "fin", closed by the client (recv answers *)
(* 0); "reset", closed by a client that had not read all (recv fails).     *)
(* As the client finds it: "cut", closed by the server (recv answers 0);   *)
(* "aborted", closed by a server that had not read or accepted all (recv   *)
(* fails); "broken", and nothing can be sent any more.                     *)
LinkState == {"none", "up", "fin", "reset", "cut", "aborted", "broken"}

ClientInit ==
    /\ cstate = [c \in Clients |-> "START"]
    /\ said = [c \in Clients |-> NoLine]
    /\ heard = [c \in Clients |-> NoLine]
    /\ link = [c \in Clients |-> "none"]
    /\ up = [c \in Clients |-> NoLine]
    /\ down = [c \in Clients |-> NoLine]

-----------------------------------------------------------------------------
Goto(c, s) == cstate' = [cstate EXCEPT ![c] = s]

(* What a client that has ended said and heard tells nothing.              *)
Ends(c, s) ==
    /\ Goto(c, s)
    /\ said' = [said EXCEPT ![c] = NoLine]
    /\ heard' = [heard EXCEPT ![c] = NoLine]

tcpClientSetup(c) ==
    /\ cstate[c] = "START"
    /\ Goto(c, "TYPE")
    /\ link' = [link EXCEPT ![c] = "up"]
    /\ UNCHANGED <<said, heard, up, down>>

ConnectFails(c) ==
    /\ cstate[c] = "START"
    /\ Ends(c, "failed")
    /\ UNCHANGED linkVars

(* getchar's EOF is taken for a character, again and again.                *)
readFromStdin(c, line) ==
    /\ cstate[c] = "TYPE"
    /\ line \in Lines \cup {Exit}
    /\ said[c] = Fill => line = Fill

(* What is sent to a server that has closed goes nowhere, and is answered  *)
(* with a reset.                                                           *)
Sends(c, line) ==
    \/ /\ link[c] = "up"
       /\ up' = [up EXCEPT ![c] = line]
       /\ UNCHANGED <<link, down>>
    \/ /\ link[c] = "cut"
       /\ link' = [link EXCEPT ![c] = "broken"]
       /\ UNCHANGED <<up, down>>
    \/ link[c] = "aborted" /\ UNCHANGED linkVars

sendToServer(c, line) ==
    /\ readFromStdin(c, line)
    /\ line # Exit
    /\ Sends(c, line)
    /\ Goto(c, "RECV")
    /\ said' = [said EXCEPT ![c] = line]
    /\ heard' = [heard EXCEPT ![c] = NoLine]

(* The client sends the line "exit" too, and closes its end.               *)
LeaveWithExit(c) ==
    /\ readFromStdin(c, Exit)
    /\ IF link[c] = "up"
       THEN /\ up' = [up EXCEPT ![c] = Exit]
            /\ link' = [link EXCEPT ![c] = "fin"]
            /\ UNCHANGED down
       ELSE link[c] # "broken" /\ UNCHANGED linkVars
    /\ Ends(c, "left")

SendFails(c) ==
    /\ cstate[c] = "TYPE"
    /\ link[c] \in {"aborted", "broken"}
    /\ Ends(c, "failed")
    /\ UNCHANGED linkVars

-----------------------------------------------------------------------------
Prints(c, what) ==
    /\ heard' = [heard EXCEPT ![c] = what]
    /\ Goto(c, "TYPE")
    /\ UNCHANGED said

recvFromServer(c) ==
    /\ cstate[c] = "RECV"
    /\ down[c] # NoLine
    /\ Prints(c, down[c])
    /\ down' = [down EXCEPT ![c] = NoLine]
    /\ UNCHANGED <<link, up>>

(* recvPDU's 0 is printed like any other length, with what is in buf.      *)
RecvEnd(c) ==
    /\ cstate[c] = "RECV"
    /\ down[c] = NoLine
    /\ link[c] \in {"cut", "broken"}
    /\ Prints(c, Stale)
    /\ UNCHANGED linkVars

(* recv's -1 is 255 in a uint8_t: the first bytes of an uninitialised       *)
(* buffer are taken for a length, which may be too small.                  *)
RecvFails(c) ==
    /\ cstate[c] = "RECV"
    /\ down[c] = NoLine
    /\ link[c] = "aborted"
    /\ link' = [link EXCEPT ![c] = "broken"]
    /\ \/ Prints(c, Stale)
       \/ Ends(c, "failed")
    /\ UNCHANGED <<up, down>>

(* The user stops the client.  An echo it has not read is answered with a   *)
(* reset, at once if it is there already.                                  *)
Kill(c) ==
    /\ cstate[c] \in {"TYPE", "RECV"}
    /\ Ends(c, "killed")
    /\ \E l \in IF down[c] = NoLine THEN {"fin"} ELSE {"fin", "reset"} :
          link' = [link EXCEPT ![c] = IF @ = "up" THEN l ELSE @]
    /\ down' = [down EXCEPT ![c] = NoLine]
    /\ UNCHANGED up

(* What a client does without its user.                                    *)
ClientStep(c) ==
    \/ recvFromServer(c)
    \/ RecvEnd(c)
    \/ RecvFails(c)
    \/ said[c] = Fill /\ (sendToServer(c, Fill) \/ SendFails(c))

UserStep(c) ==
    \/ \E line \in Lines : sendToServer(c, line)
    \/ LeaveWithExit(c)
    \/ SendFails(c)
    \/ Kill(c)
=============================================================================
