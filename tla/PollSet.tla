------------------------------ MODULE PollSet ------------------------------
(***************************************************************************)
(* LAB3_2/pollLib.c: the array given to poll, indexed by descriptor.  An   *)
(* entry that was never used, or is used no more, has the descriptor 0 and *)
(* asks for no event.                                                      *)
(***************************************************************************)
EXTENDS Integers, FiniteSets

CONSTANT
    POLL_SET_SIZE   \* entries the array has, and grows by; 10 in pollLib.h

ASSUME PollSetAssumption == POLL_SET_SIZE \in Nat \ {0}

VARIABLES
    pollFileDescriptors,
    maxFileDescriptor   \* one more than the greatest entry ever used

pollSetVars == <<pollFileDescriptors, maxFileDescriptor>>

Unused == [fd |-> 0, events |-> {}]
Polled(s) == [fd |-> s, events |-> {"POLLIN"}]

currentPollSetSize == Cardinality(DOMAIN pollFileDescriptors)

(* The server's socket is added before anything else happens.              *)
setupPollSet(s) ==
    /\ pollFileDescriptors =
          [i \in 0 .. POLL_SET_SIZE - 1 |-> IF i = s THEN Polled(s) ELSE Unused]
    /\ maxFileDescriptor = s + 1

growPollSet(newSetSize) ==
    [i \in 0 .. newSetSize - 1 |->
        IF i < currentPollSetSize THEN pollFileDescriptors[i] ELSE Unused]

(* Mutant: the array is not grown for the first socket that is beyond it.  *)
addToPollSetOffByOne(s) ==
    LET grown == IF s > currentPollSetSize
                 THEN growPollSet(s + POLL_SET_SIZE) ELSE pollFileDescriptors
    IN  /\ pollFileDescriptors' = [grown EXCEPT ![s] = Polled(s)]
        /\ maxFileDescriptor' =
              IF s + 1 >= maxFileDescriptor THEN s + 1 ELSE maxFileDescriptor

addToPollSet(s) ==
    LET grown == IF s >= currentPollSetSize
                 THEN growPollSet(s + POLL_SET_SIZE) ELSE pollFileDescriptors
    IN  /\ pollFileDescriptors' = [grown EXCEPT ![s] = Polled(s)]
        /\ maxFileDescriptor' =
              IF s + 1 >= maxFileDescriptor THEN s + 1 ELSE maxFileDescriptor

removeFromPollSet(s) ==
    /\ pollFileDescriptors' = [pollFileDescriptors EXCEPT ![s] = Unused]
    /\ UNCHANGED maxFileDescriptor

(* What poll reports: an entry that asks for input, of a descriptor that    *)
(* has some; and any entry of a descriptor that has hung up or is not open. *)
Reported(readable, hungUp) ==
    {i \in 0 .. maxFileDescriptor - 1 :
        LET entry == pollFileDescriptors[i]
        IN  \/ entry.fd \in hungUp
            \/ entry.fd \in readable /\ "POLLIN" \in entry.events}

(* Mutant: the greatest of them is served.                                 *)
pollCallHighest(readable, hungUp, s) ==
    /\ s \in Reported(readable, hungUp)
    /\ \A i \in Reported(readable, hungUp) : i <= s

(* pollCall answers the lowest of them.                                    *)
pollCall(readable, hungUp, s) ==
    /\ s \in Reported(readable, hungUp)
    /\ \A i \in Reported(readable, hungUp) : s <= i
=============================================================================
