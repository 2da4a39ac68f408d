----------------------------- MODULE ChatStream -----------------------------
(***************************************************************************)
(* The TCP connections of Program2_Chat and the PDUs on them (networks.c,  *)
(* PDUlab.c, comm.c).  Every client makes one connection.  TCP itself is   *)
(* external: what is modelled of it is what recv and send answer.          *)
(***************************************************************************)
EXTENDS Naturals, Sequences, SequencesExt

CONSTANTS
    Clients,    \* the client processes
    Handle,     \* the names users can type
    NoClient, NoHandle,
    BufCap      \* PDUs a connection holds in one direction: send blocks then

ASSUME NoneAssumption   == NoClient \notin Clients /\ NoHandle \notin Handle
ASSUME BufCapAssumption == BufCap \in Nat \ {0}

VARIABLES
    link,       \* link[c]: the state of c's connection
    up,         \* up[c]: PDUs from c that the server has not read
    down        \* down[c]: PDUs to c that c has not read

streamVars == <<link, up, down>>

(* As the server finds the connection: "up"; "fin", closed by the client   *)
(* (recv answers 0); "reset", closed by a client that had not read all it  *)
(* was sent (recv fails, once); "bounced", no more can be sent (send fails *)
(* or raises SIGPIPE) and recv answers 0.                                  *)
(* As the client finds it: "cut", closed by the server (recv answers 0);   *)
(* "aborted", closed by a server that had not read all (recv fails).       *)
LinkState ==
    {"none", "up", "fin", "reset", "bounced", "cut", "aborted"}

StreamInit ==
    /\ link = [c \in Clients |-> "none"]
    /\ up = [c \in Clients |-> <<>>]
    /\ down = [c \in Clients |-> <<>>]

-----------------------------------------------------------------------------
(* PDUs.  The flags, in the order of their numbers in the code: 1, 2, 3,   *)
(* 4, 5, 7, 8, 10, 11, 12, 13; NONE is a buffer that never held a PDU.     *)

FLAG == {"HELLO", "OK", "IN_USE", "BROADCAST", "MESSAGE", "UNKNOWN", "EXIT",
         "LIST", "NUMBER", "HANDLE", "END", "NONE"}

(* The text of a message, by who typed it, in which command, which piece.  *)
Text == [by : Clients \cup {NoClient}, no : Nat, piece : Nat]

NoText == [by |-> NoClient, no |-> 0, piece |-> 0]

PDU == [flag : FLAG, handle : Handle \cup {NoHandle}, to : Seq(Handle),
        text : Text]

Command(flag) ==
    [flag |-> flag, handle |-> NoHandle, to |-> <<>>, text |-> NoText]

HandlePDU(flag, h) == [Command(flag) EXCEPT !.handle = h]

TextPDU(flag, h, to, text) ==
    [flag |-> flag, handle |-> h, to |-> to, text |-> text]

-----------------------------------------------------------------------------
(* The server's end.                                                       *)

SomethingToRead(c) ==
    up[c] # <<>> \/ link[c] \in {"fin", "reset", "bounced"}

(* send puts the PDU on its way; to a closed client it goes nowhere and    *)
(* comes back as a reset, which may take a while.                          *)
SendDown(c, p) ==
    /\ \/ /\ link[c] = "up"
          /\ Len(down[c]) < BufCap
          /\ down' = [down EXCEPT ![c] = Append(@, p)]
          /\ UNCHANGED link
       \/ /\ link[c] = "fin"
          /\ \E l \in {"fin", "bounced"} : link' = [link EXCEPT ![c] = l]
          /\ UNCHANGED down
    /\ UNCHANGED up

SendDownFails(c) == link[c] \in {"reset", "bounced"}

RecvUp(c) == up' = [up EXCEPT ![c] = Tail(@)]

(* The server closes its end of some connections.  One it has not read to  *)
(* its end, or never accepted, is reset.                                   *)
CloseDown(C, unaccepted) ==
    link' = [c \in Clients |->
                IF c \in C /\ link[c] = "up"
                THEN IF up[c] = <<>> /\ c \notin unaccepted THEN "cut" ELSE "aborted"
                ELSE link[c]]

-----------------------------------------------------------------------------
(* The client's end.                                                       *)

SendUp(c, p) ==
    /\ \/ /\ link[c] = "up"
          /\ Len(up[c]) < BufCap
          /\ up' = [up EXCEPT ![c] = Append(@, p)]
       \/ /\ link[c] \in {"cut", "aborted"}
          /\ UNCHANGED up
    /\ UNCHANGED <<link, down>>

RecvDown(c) ==
    /\ down' = [down EXCEPT ![c] = Tail(@)]
    /\ UNCHANGED <<link, up>>

(* The client closes its end.  What it has not read is lost, and answered  *)
(* with a reset at once or when it arrives.                                *)
CloseUp(c) ==
    /\ \E l \in IF down[c] = <<>> THEN {"fin"} ELSE {"fin", "reset", "bounced"} :
          link' = [link EXCEPT ![c] = IF @ = "up" THEN l ELSE @]
    /\ down' = [down EXCEPT ![c] = <<>>]
    /\ UNCHANGED up
=============================================================================
