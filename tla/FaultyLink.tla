----------------------------- MODULE FaultyLink -----------------------------
(***************************************************************************)
(* What a program may rely on when it sends through libcpe464, and what    *)
(* Datagram assumes: before its first packet it is settled which faults    *)
(* can happen to it, and from then on every packet is sent as it is, is    *)
(* refused by the socket, or suffers exactly one of them.                  *)
(***************************************************************************)
EXTENDS Sequences

CONSTANT Process

VARIABLES
    faults,     \* faults[p]: what may happen to the packets of p
    outcomes    \* outcomes[p]: what happened to them

linkVars == <<faults, outcomes>>

Fault == {"drop", "flip"}

LinkInit ==
    /\ faults = [p \in Process |-> {}]
    /\ outcomes = [p \in Process |-> <<>>]

Settle(p) ==
    /\ outcomes[p] = <<>>
    /\ \E F \in SUBSET Fault : faults' = [faults EXCEPT ![p] = F]
    /\ UNCHANGED outcomes

Transmit(p) ==
    /\ \E o \in {"sent", "failed"} \cup faults[p] :
          outcomes' = [outcomes EXCEPT ![p] = Append(@, o)]
    /\ UNCHANGED faults

LinkNext == \E p \in Process : Settle(p) \/ Transmit(p)

LinkSpec == LinkInit /\ [][LinkNext]_linkVars
=============================================================================
