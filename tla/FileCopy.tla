------------------------------ MODULE FileCopy ------------------------------
(***************************************************************************)
(* What a file transfer promises its users, whatever the protocol: a       *)
(* client's output file grows block by block into the file it asked for,   *)
(* and neither the client reports that the file is done nor the server     *)
(* that its transfer is complete before it is all there.  Which of the two *)
(* reports first is not settled.                                           *)
(***************************************************************************)
EXTENDS Naturals, Sequences

CONSTANTS
    Clients,
    Block,
    File        \* File[c]: the file client c asks for

VARIABLES
    copy,       \* copy[c]: the output file of c
    done,       \* the clients that reported the end of the file
    complete    \* the clients whose transfer the server reported complete

vars == <<copy, done, complete>>

Init ==
    /\ copy = [c \in Clients |-> <<>>]
    /\ done = {}
    /\ complete = {}

(* The client writes the next block of the file. *)
Write(c) ==
    /\ c \notin done
    /\ Len(copy[c]) < Len(File[c])
    /\ copy' = [copy EXCEPT ![c] = Append(@, File[c][Len(@) + 1])]
    /\ UNCHANGED <<done, complete>>

(* The client reports the end of the file. *)
Finish(c) ==
    /\ copy[c] = File[c]
    /\ done' = done \cup {c}
    /\ UNCHANGED <<copy, complete>>

(* The server reports a complete transfer. *)
Report(c) ==
    /\ copy[c] = File[c]
    /\ complete' = complete \cup {c}
    /\ UNCHANGED <<copy, done>>

Next == \E c \in Clients : Write(c) \/ Finish(c) \/ Report(c)

Spec == Init /\ [][Next]_vars
=============================================================================
