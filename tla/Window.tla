------------------------------- MODULE Window -------------------------------
(***************************************************************************)
(* WindowLab/windows.c, the window of a sender, and testWindows.c, which    *)
(* fills it while it is open and asks for an RR when it is not.  A slot     *)
(* holds the number of the Data it points to; the Data's pdu is the         *)
(* driver's one buffer in every slot.                                      *)
(***************************************************************************)
EXTENDS Integers, FiniteSets

CONSTANTS
    SIZE,       \* slots of the window; 4 in testWindows.c
    IntMax,     \* the greatest int
    Typed,      \* numbers the user types
    Junk,       \* what datalen may hold before it is set, in steps of 20 bytes
    MAXLEN,     \* steps of 20 bytes that fit into pduBuffer; 69
    MaxSeq,     \* bound: PDUs made
    NULL, Wild  \* an empty slot, and one that malloc left as it was

ASSUME SizeAssumption == SIZE \in Nat \ {0} /\ IntMax \in Nat /\ SIZE <= IntMax
ASSUME TypedAssumption == Typed \subseteq (-IntMax - 1) .. IntMax
ASSUME LenAssumption == Junk \subseteq Int /\ MAXLEN \in Nat
ASSUME SeqAssumption == MaxSeq \in 0 .. IntMax
ASSUME PointerAssumption == NULL \notin Int /\ Wild \notin Int /\ NULL # Wild

VARIABLES
    lower, current, upper,  \* of the window
    PDUs,                   \* its slots
    datalen,                \* length of the next payload
    heap,                   \* numbers of the Data allocated and not freed
    asked,                  \* which kinds of RR have come
    status                  \* "running", or what the program ended of

window == <<lower, current, upper, PDUs>>
vars == <<lower, current, upper, PDUs, datalen, heap, asked, status>>

Slot == 0 .. SIZE - 1

-----------------------------------------------------------------------------
(* A signed sum that leaves the range of int; it wraps in this build.      *)
ToInt(n) == ((n + IntMax + 1) % (2 * IntMax + 2)) - (IntMax + 1)

(* An int compared with a uint32_t becomes one.                            *)
Unsigned(n) == n % (2 * IntMax + 2)

(* Mutant: one slot too few is taken for the first window.                 *)
window_initShort ==
    /\ lower = 0 /\ current = 0 /\ upper = SIZE - 1
    /\ PDUs = [i \in Slot |-> Wild]

window_init ==
    /\ lower = 0 /\ current = 0 /\ upper = SIZE
    /\ PDUs = [i \in Slot |-> Wild]

Init ==
    /\ window_init
    /\ datalen \in Junk
    /\ heap = {}
    /\ asked = {}
    /\ status = "running"

(* Mutant: the window closes one PDU late.                                 *)
isOpenLate == upper >= current

isOpen == upper > current

index(seqNum) == seqNum % SIZE

findPDU(seqNum) == PDUs[index(seqNum)]

(* Mutant: a Data that is still there is kept.                             *)
addPDUtoWindowKeeps(seqNum) ==
    /\ PDUs' = [PDUs EXCEPT ![index(seqNum)] =
                    IF @ \in {NULL, Wild} THEN seqNum ELSE @]
    /\ heap' = heap \cup {seqNum}

(* The slot's Data is replaced, never freed.                               *)
addPDUtoWindow(seqNum) ==
    /\ PDUs' = [PDUs EXCEPT ![index(seqNum)] = seqNum]
    /\ heap' = heap \cup {seqNum}

(* createPDU writes the header and the payload into pduBuffer.             *)
Fits(len) == len \in 0 .. MAXLEN

(* The numbers are the driver's seqNum, which always equals current.       *)
AddPDU ==
    /\ status = "running"
    /\ isOpen
    /\ current < MaxSeq
    /\ datalen' = datalen + 1
    /\ IF Fits(datalen')
       THEN /\ addPDUtoWindow(current)
            /\ current' = current + 1
            /\ UNCHANGED status
       ELSE status' = "buffer" /\ UNCHANGED <<current, PDUs, heap>>
    /\ UNCHANGED <<lower, upper, asked>>

(* Mutant: what is below the window is freed, not what is below the RR.    *)
AcknowledgedLate(RR) == {i \in Slot : PDUs[i] < lower}

Acknowledged(RR) == {i \in Slot : PDUs[i] < Unsigned(RR)}

(* processRR reads through every slot.  The loop frees on its way to one    *)
(* that points nowhere; the program ends there all the same.               *)
processRR(RR) ==
    IF \E i \in Slot : PDUs[i] \in {NULL, Wild}
    THEN status' = "slot" /\ UNCHANGED <<lower, upper, PDUs, heap>>
    ELSE /\ PDUs' = [i \in Slot |-> IF i \in Acknowledged(RR) THEN NULL ELSE PDUs[i]]
         /\ heap' = heap \ {PDUs[i] : i \in Acknowledged(RR)}
         /\ IF lower < RR
            THEN lower' = RR /\ upper' = ToInt(RR + SIZE)
            ELSE UNCHANGED <<lower, upper>>
         /\ UNCHANGED status

(* printEntireWindow looks into every slot that is not NULL.               *)
PrintFails == \E i \in Slot : PDUs[i] = Wild

(* An RR is for numbers that have been sent, or for some that have not, or  *)
(* one that processRR does not mean: a negative one, which the unsigned     *)
(* comparison makes great, or one whose window ends beyond the last int.   *)
Kind(RR) ==
    IF RR < 0 \/ RR > IntMax - SIZE THEN "strange"
    ELSE IF RR \in 0 .. current THEN "sent" ELSE "ahead"

AskRR(RR) ==
    /\ status = "running"
    /\ ~ isOpen
    /\ asked' = asked \cup {Kind(RR)}
    /\ IF PrintFails
       THEN status' = "slot" /\ UNCHANGED <<lower, upper, PDUs, heap>>
       ELSE processRR(RR)
    /\ UNCHANGED <<current, datalen>>

Next == AddPDU \/ \E RR \in Typed : AskRR(RR)

Spec == Init /\ [][Next]_vars
-----------------------------------------------------------------------------
TypeOK ==
    /\ lower \in 0 .. IntMax
    /\ current \in 0 .. MaxSeq
    /\ upper \in (-IntMax - 1) .. IntMax
    /\ PDUs \in [Slot -> (0 .. MaxSeq) \cup {NULL, Wild}]
    /\ datalen \in Int
    /\ heap \subseteq 0 .. MaxSeq
    /\ asked \subseteq {"sent", "ahead", "strange"}
    /\ status \in {"running", "slot", "buffer"}

(* What has been sent and not acknowledged is in the window, whatever was   *)
(* acknowledged in whatever order (windows.c:43-102).                      *)
UnackedIsKept ==
    "strange" \notin asked =>
        \A n \in lower .. current - 1 : findPDU(n) = n

(* A slot never holds another number than the last of its own              *)
(* (windows.c:54, 91).                                                     *)
SlotsHoldLast ==
    \A i \in Slot :
        PDUs[i] \notin {NULL, Wild} =>
            /\ PDUs[i] \in current - SIZE .. current - 1
            /\ index(PDUs[i]) = i

(* The program reads through an empty slot only after a number it does not  *)
(* mean (windows.c:90).                                                    *)
StopsOnlyBecause == status = "slot" => "strange" \in asked

(* As long as nobody acknowledges what was not sent, no Data is lost when a *)
(* slot is used again (windows.c:65).                                      *)
NoneIsLost ==
    asked \subseteq {"sent"} =>
        heap = {PDUs[i] : i \in Slot} \ {NULL, Wild}

(* The inductive invariant of WindowProofs: besides, the window stays as     *)
(* wide as it is and behind what was sent, and, as long as nobody runs      *)
(* ahead, nothing acknowledged is left in it.                              *)
InStep ==
    "strange" \notin asked =>
        /\ upper = lower + SIZE
        /\ current <= upper

InOrder ==
    asked \subseteq {"sent"} =>
        /\ lower <= current
        /\ \A i \in Slot : PDUs[i] \notin {NULL, Wild} => lower <= PDUs[i]

IInv ==
    /\ TypeOK
    /\ SlotsHoldLast
    /\ InStep
    /\ UnackedIsKept
    /\ InOrder
    /\ NoneIsLost
    /\ StopsOnlyBecause
=============================================================================
