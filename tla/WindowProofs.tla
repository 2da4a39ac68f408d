---------------------------- MODULE WindowProofs ----------------------------
(***************************************************************************)
(* Window, for every size of the window, every range of int and every       *)
(* sequence of numbers typed.                                              *)
(***************************************************************************)
EXTENDS Window, TLAPS

(* Facts about numbers modulo SIZE.                                        *)
LEMMA IndexInSlot ==
    ASSUME NEW n \in Int
    PROVE  index(n) \in Slot
  BY SMT, SizeAssumption DEF index, Slot

(* Quotient and remainder.                                                 *)
LEMMA DivMod ==
    ASSUME NEW n \in Int
    PROVE  \E q \in Int : n = SIZE * q + index(n)
<1>1. n - SIZE * (n \div SIZE) = n % SIZE /\ n \div SIZE \in Int
  BY SMT, SizeAssumption
<1>2. PICK q \in Int : q = n \div SIZE
  BY <1>1
<1>3. n - SIZE * q = n % SIZE
  BY <1>1, <1>2
<1>4. SIZE * q \in Int /\ n % SIZE \in Int
  BY SMT, SizeAssumption
<1>5. n = SIZE * q + index(n)
  BY SMT, <1>3, <1>4 DEF index
<1> QED BY <1>5

(* Numbers less than n apart have the same remainder only if they are the  *)
(* same.                                                                   *)
LEMMA ModUnique ==
    ASSUME NEW n \in Int, NEW q \in Int, NEW i \in Slot, n = SIZE * q + i
    PROVE  index(n) = i
  BY SMT, SizeAssumption DEF index, Slot

(* Two numbers of one slot are SIZE apart at least.                        *)
LEMMA Apart ==
    ASSUME NEW m \in Int, NEW n \in Int, index(m) = index(n), m < n
    PROVE  m <= n - SIZE
<1>1. PICK p \in Int : m = SIZE * p + index(m)
  BY DivMod
<1>2. PICK q \in Int : n = SIZE * q + index(n)
  BY DivMod
<1>3. index(m) \in Int /\ SIZE \in Nat \ {0}
  BY SMT, IndexInSlot, SizeAssumption DEF Slot
<1>4. n - m = SIZE * (q - p)
  BY SMT, <1>1, <1>2, <1>3
<1>5. PICK k \in Int : k = q - p
  BY SMT
<1>6. CASE k >= 1
  <2>1. SIZE * k >= SIZE
    BY SMT, <1>6, <1>3
  <2> QED BY SMT, <2>1, <1>3, <1>4, <1>5
<1>7. CASE k <= 0
  <2>1. SIZE * k <= 0
    BY SMT, <1>7, <1>3
  <2> QED BY SMT, <2>1, <1>4, <1>5
<1> QED BY SMT, <1>5, <1>6, <1>7

(* SIZE numbers in a row meet every slot.                                  *)
LEMMA Onto ==
    ASSUME NEW l \in Int, NEW i \in Slot
    PROVE  \E n \in l .. l + SIZE - 1 : index(n) = i
<1>1. PICK q \in Int : l = SIZE * q + index(l)
  BY DivMod
<1>2. index(l) \in 0 .. SIZE - 1 /\ i \in 0 .. SIZE - 1 /\ SIZE \in Nat \ {0}
  BY IndexInSlot, SizeAssumption DEF Slot
<1>3. CASE i >= index(l)
  <2>1. l + (i - index(l)) = SIZE * q + i
    BY SMT, <1>1, <1>2
  <2>2. l + (i - index(l)) \in l .. l + SIZE - 1
    BY SMT, <1>2, <1>3
  <2> QED BY <2>1, <2>2, ModUnique
<1>4. CASE i < index(l)
  <2>1. l + (i - index(l)) + SIZE = SIZE * (q + 1) + i
    BY SMT, <1>1, <1>2
  <2>2. l + (i - index(l)) + SIZE \in l .. l + SIZE - 1
    BY SMT, <1>2, <1>4
  <2>3. q + 1 \in Int
    BY SMT
  <2> QED BY <2>1, <2>2, <2>3, ModUnique
<1> QED BY SMT, <1>2, <1>3, <1>4

LEMMA Shifted ==
    ASSUME NEW n \in Int
    PROVE  index(n - SIZE) = index(n)
<1>1. PICK q \in Int : n = SIZE * q + index(n)
  BY DivMod
<1>2. index(n) \in Slot /\ index(n) \in Int
  BY SMT, IndexInSlot, SizeAssumption DEF Slot
<1>3. n - SIZE = SIZE * (q - 1) + index(n)
  BY SMT, <1>1, <1>2, SizeAssumption
<1>4. q - 1 \in Int /\ n - SIZE \in Int
  BY SMT, SizeAssumption
<1> QED BY <1>2, <1>3, <1>4, ModUnique

(* Conversions leave alone what fits.                                      *)
LEMMA Converted ==
    ASSUME NEW n \in Int
    PROVE  /\ ToInt(n) \in (-IntMax - 1) .. IntMax
           /\ Unsigned(n) \in Nat
           /\ n \in 0 .. IntMax => ToInt(n) = n /\ Unsigned(n) = n
<1> USE SizeAssumption
<1>1. PICK M \in Nat \ {0} : M = 2 * IntMax + 2
  BY SMT
<1>2. n % M \in 0 .. M - 1 /\ (n + IntMax + 1) % M \in 0 .. M - 1
  BY SMT
<1>3. n \in 0 .. IntMax => n % M = n
  <2> SUFFICES ASSUME n \in 0 .. IntMax PROVE n % M = n
    OBVIOUS
  <2>1. n = M * 0 + n /\ n \in 0 .. M - 1
    BY SMT, <1>1
  <2> QED BY SMT, <2>1
<1>4. n \in 0 .. IntMax => (n + IntMax + 1) % M = n + IntMax + 1
  <2> SUFFICES ASSUME n \in 0 .. IntMax PROVE (n + IntMax + 1) % M = n + IntMax + 1
    OBVIOUS
  <2>1. n + IntMax + 1 = M * 0 + (n + IntMax + 1) /\ n + IntMax + 1 \in 0 .. M - 1
    BY SMT, <1>1
  <2> QED BY SMT, <2>1
<1> QED BY SMT, <1>1, <1>2, <1>3, <1>4 DEF ToInt, Unsigned

-----------------------------------------------------------------------------
(* The initial states satisfy the inductive invariant.                     *)
LEMMA InitIInv == Init => IInv
<1> SUFFICES ASSUME Init PROVE IInv
  OBVIOUS
<1> USE SizeAssumption, SeqAssumption, LenAssumption, PointerAssumption DEF Init, window_init
<1>1. TypeOK
  BY SMT DEF TypeOK
<1>2. \A i \in Slot : PDUs[i] = Wild
  OBVIOUS
<1>3. SlotsHoldLast /\ InOrder /\ NoneIsLost
  <2>1. SlotsHoldLast
    BY <1>2 DEF SlotsHoldLast
  <2>2. InOrder
    BY <1>2 DEF InOrder
  <2>3. NoneIsLost
    BY <1>2 DEF NoneIsLost
  <2> QED BY <2>1, <2>2, <2>3
<1>4. InStep /\ UnackedIsKept /\ StopsOnlyBecause
  BY SMT DEF InStep, UnackedIsKept, StopsOnlyBecause
<1> QED BY <1>1, <1>3, <1>4 DEF IInv

(* What a slot holds that holds something.                                 *)
LEMMA Held ==
    ASSUME IInv, NEW i \in Slot, PDUs[i] \notin {NULL, Wild}
    PROVE  PDUs[i] \in Int /\ PDUs[i] \in current - SIZE .. current - 1 /\ index(PDUs[i]) = i
<1>1. PDUs[i] \in current - SIZE .. current - 1 /\ index(PDUs[i]) = i
  BY DEF IInv, SlotsHoldLast
<1>2. PDUs[i] \in Int
  BY SMT, SizeAssumption, SeqAssumption DEF IInv, TypeOK
<1> QED BY <1>1, <1>2

(* A PDU is added.                                                         *)
LEMMA AddPDUStep == IInv /\ AddPDU => IInv'
<1> SUFFICES ASSUME IInv, AddPDU PROVE IInv'
  OBVIOUS
<1> USE SizeAssumption, SeqAssumption, LenAssumption, PointerAssumption
<1>t. TypeOK
  BY DEF IInv
<1>0. /\ status = "running" /\ isOpen /\ current < MaxSeq
      /\ datalen' = datalen + 1
      /\ lower' = lower /\ upper' = upper /\ asked' = asked
  BY DEF AddPDU
<1>1. CASE ~ Fits(datalen')
  <2>1. /\ status' = "buffer"
        /\ current' = current /\ PDUs' = PDUs /\ heap' = heap
    BY <1>1 DEF AddPDU
  <2>2. TypeOK' /\ StopsOnlyBecause'
    BY SMT, <1>t, <1>0, <1>1, <2>1 DEF TypeOK, StopsOnlyBecause
  <2>3. SlotsHoldLast' /\ InStep' /\ UnackedIsKept' /\ InOrder' /\ NoneIsLost'
    BY <1>0, <2>1 DEF IInv, SlotsHoldLast, InStep, UnackedIsKept, InOrder, NoneIsLost, findPDU
  <2> QED BY <2>2, <2>3 DEF IInv
<1>2. CASE Fits(datalen')
  <2> DEFINE i == index(current)
  <2>1. /\ current' = current + 1 /\ status' = status
        /\ heap' = heap \cup {current}
        /\ PDUs' = [PDUs EXCEPT ![i] = current]
    BY <1>2 DEF AddPDU, addPDUtoWindow
  <2>2. current \in Int /\ current \in 0 .. MaxSeq /\ current + 1 \in 0 .. MaxSeq
        /\ lower \in Int /\ upper \in Int
    BY SMT, <1>t, <1>0 DEF TypeOK
  <2>3. i \in Slot
    BY <2>2, IndexInSlot
  <2>4. \A j \in Slot : PDUs'[j] = IF j = i THEN current ELSE PDUs[j]
    BY <1>t, <2>1, <2>3 DEF TypeOK
  <2> HIDE DEF i
  <2>5. TypeOK'
    BY SMT, <1>t, <1>0, <2>1, <2>2, <2>3 DEF TypeOK
  <2>6. SlotsHoldLast'
    <3> SUFFICES ASSUME NEW j \in Slot, PDUs'[j] \notin {NULL, Wild}
                 PROVE  PDUs'[j] \in current' - SIZE .. current' - 1 /\ index(PDUs'[j]) = j
      BY DEF SlotsHoldLast
    <3>1. CASE j = i
      BY SMT, <3>1, <2>1, <2>2, <2>4 DEF i
    <3>2. CASE j # i
      <4>1. PDUs'[j] = PDUs[j]
        BY <2>4, <3>2
      <4>2. PDUs[j] \in Int /\ PDUs[j] \in current - SIZE .. current - 1 /\ index(PDUs[j]) = j
        BY <4>1, Held
      <4>3. PDUs[j] # current - SIZE
        BY <4>2, <3>2, <2>2, Shifted DEF i
      <4> QED BY SMT, <4>1, <4>2, <4>3, <2>1, <2>2
    <3> QED BY <3>1, <3>2
  <2>7. InStep' /\ StopsOnlyBecause'
    <3>1. InStep'
      BY SMT, <1>0, <2>1, <2>2 DEF IInv, InStep, isOpen
    <3>2. StopsOnlyBecause'
      BY <1>0, <2>1 DEF StopsOnlyBecause
    <3> QED BY <3>1, <3>2
  <2>8. ASSUME "strange" \notin asked
        PROVE  current - SIZE < lower
    BY SMT, <2>8, <2>2, <1>0 DEF IInv, InStep, isOpen
  <2>9. UnackedIsKept'
    <3> SUFFICES ASSUME "strange" \notin asked, NEW n \in lower .. current
                 PROVE  PDUs'[index(n)] = n
      BY SMT, <1>0, <2>1, <2>2 DEF UnackedIsKept, findPDU
    <3>1. n \in Int /\ index(n) \in Slot
      BY SMT, <2>2, IndexInSlot
    <3>2. CASE n = current
      BY <3>1, <3>2, <2>4 DEF i
    <3>3. CASE n # current
      <4>1. n < current /\ n \in lower .. current - 1
        BY SMT, <3>3, <2>2
      <4>2. PDUs[index(n)] = n
        BY <4>1 DEF IInv, UnackedIsKept, findPDU
      <4>3. index(n) # i
        <5> SUFFICES ASSUME index(n) = i PROVE FALSE
          OBVIOUS
        <5>1. n <= current - SIZE
          BY <4>1, <3>1, <2>2, Apart DEF i
        <5> QED BY SMT, <5>1, <2>8, <2>2, <3>1
      <4> QED BY <3>1, <4>2, <4>3, <2>4
    <3> QED BY <3>2, <3>3
  <2>10. ASSUME asked \subseteq {"sent"}
         PROVE  /\ lower <= current
                /\ \A j \in Slot : PDUs[j] \notin {NULL, Wild} => lower <= PDUs[j]
                /\ heap = {PDUs[j] : j \in Slot} \ {NULL, Wild}
                /\ PDUs[i] \in {NULL, Wild}
    <3>1. /\ lower <= current
          /\ \A j \in Slot : PDUs[j] \notin {NULL, Wild} => lower <= PDUs[j]
          /\ heap = {PDUs[j] : j \in Slot} \ {NULL, Wild}
      BY <2>10 DEF IInv, InOrder, NoneIsLost
    <3>2. SUFFICES ASSUME PDUs[i] \notin {NULL, Wild} PROVE FALSE
      BY <3>1
    <3>3. PDUs[i] \in Int /\ PDUs[i] \in current - SIZE .. current - 1 /\ index(PDUs[i]) = i
      BY <3>2, <2>3, Held
    <3>4. PDUs[i] <= current - SIZE
      <4>1. PDUs[i] < current
        BY SMT, <3>3, <2>2
      <4> QED BY <4>1, <3>3, <2>2, Apart DEF i
    <3>5. "strange" \notin asked
      BY <2>10
    <3>6. lower <= PDUs[i]
      BY <3>1, <3>2, <2>3
    <3> QED BY SMT, <3>3, <3>4, <3>6, <2>8, <3>5, <2>2
  <2>11. InOrder'
    <3> SUFFICES ASSUME asked \subseteq {"sent"}
                 PROVE  /\ lower <= current + 1
                        /\ \A j \in Slot : PDUs'[j] \notin {NULL, Wild} => lower <= PDUs'[j]
      BY <1>0, <2>1 DEF InOrder
    <3>1. lower <= current + 1
      BY SMT, <2>10, <2>2
    <3>2. \A j \in Slot : PDUs'[j] \notin {NULL, Wild} => lower <= PDUs'[j]
      BY <2>10, <2>4
    <3> QED BY <3>1, <3>2
  <2>12. NoneIsLost'
    <3> SUFFICES ASSUME asked \subseteq {"sent"}
                 PROVE  heap' = {PDUs'[j] : j \in Slot} \ {NULL, Wild}
      BY <1>0 DEF NoneIsLost
    <3>1. current \notin {NULL, Wild}
      BY <2>2
    <3> QED BY <3>1, <2>1, <2>3, <2>4, <2>10
  <2> QED BY <2>5, <2>6, <2>7, <2>9, <2>11, <2>12 DEF IInv
<1> QED BY <1>1, <1>2

(* When the window is closed and no strange number has come, every slot     *)
(* holds one of the SIZE numbers that are out.                             *)
LEMMA Full ==
    ASSUME IInv, ~ isOpen, "strange" \notin asked
    PROVE  /\ current = lower + SIZE
           /\ \A i \in Slot : PDUs[i] \in lower .. current - 1
<1> USE SizeAssumption, SeqAssumption
<1>0. current \in Int /\ lower \in Int /\ upper \in Int
  BY SMT DEF IInv, TypeOK
<1>1. current = lower + SIZE
  BY SMT, <1>0 DEF IInv, InStep, isOpen
<1>2. ASSUME NEW i \in Slot
      PROVE  PDUs[i] \in lower .. current - 1
  <2>1. PICK n \in lower .. lower + SIZE - 1 : index(n) = i
    BY <1>0, Onto
  <2>2. n \in lower .. current - 1
    BY SMT, <2>1, <1>1, <1>0
  <2> QED BY <2>1, <2>2 DEF IInv, UnackedIsKept, findPDU
<1> QED BY <1>1, <1>2

(* The numbers that are below the RR, and what is left of the slots.        *)
LEMMA Kept ==
    ASSUME IInv, NEW RR \in Int, \A i \in Slot : PDUs[i] \notin {NULL, Wild},
           processRR(RR)
    PROVE  /\ \A i \in Slot : PDUs'[i] =
                 IF PDUs[i] < Unsigned(RR) THEN NULL ELSE PDUs[i]
           /\ heap' = heap \ {PDUs[i] : i \in Acknowledged(RR)}
           /\ PDUs' \in [Slot -> (0 .. MaxSeq) \cup {NULL, Wild}]
           /\ status' = status
           /\ IF lower < RR THEN lower' = RR /\ upper' = ToInt(RR + SIZE)
                            ELSE lower' = lower /\ upper' = upper
<1>1. /\ PDUs' = [i \in Slot |-> IF i \in Acknowledged(RR) THEN NULL ELSE PDUs[i]]
      /\ heap' = heap \ {PDUs[i] : i \in Acknowledged(RR)}
      /\ status' = status
      /\ IF lower < RR THEN lower' = RR /\ upper' = ToInt(RR + SIZE)
                       ELSE lower' = lower /\ upper' = upper
  BY DEF processRR
<1>2. \A i \in Slot : PDUs[i] \in (0 .. MaxSeq) \cup {NULL, Wild}
  BY DEF IInv, TypeOK
<1> QED BY <1>1, <1>2 DEF Acknowledged

(* An RR is asked about.                                                   *)
LEMMA AskRRStep == ASSUME NEW RR \in Typed PROVE IInv /\ AskRR(RR) => IInv'
<1> SUFFICES ASSUME IInv, AskRR(RR) PROVE IInv'
  OBVIOUS
<1> USE SizeAssumption, SeqAssumption, PointerAssumption
<1>t. TypeOK /\ RR \in Int /\ RR >= -IntMax - 1 /\ RR <= IntMax
  BY SMT, TypedAssumption DEF IInv
<1>0. /\ status = "running" /\ ~ isOpen
      /\ asked' = asked \cup {Kind(RR)}
      /\ current' = current /\ datalen' = datalen
  BY DEF AskRR
<1>k. Kind(RR) \in {"sent", "ahead", "strange"}
  BY DEF Kind
<1>n. \A i \in Slot : PDUs[i] \in Int \/ PDUs[i] \in {NULL, Wild}
  BY SMT, <1>t DEF TypeOK
<1>i. current \in Int /\ lower \in Int /\ upper \in Int
  BY SMT, <1>t DEF TypeOK
<1>f. "strange" \notin asked => \A i \in Slot : PDUs[i] \notin {NULL, Wild}
  <2> SUFFICES ASSUME "strange" \notin asked, NEW i \in Slot
               PROVE  PDUs[i] \notin {NULL, Wild}
    OBVIOUS
  <2>1. PDUs[i] \in lower .. current - 1
    BY <1>0, Full
  <2>2. PDUs[i] \in Int
    BY SMT, <2>1, <1>i
  <2> QED BY <2>2
<1>1. CASE \E i \in Slot : PDUs[i] \in {NULL, Wild}
  <2>1. "strange" \in asked
    BY <1>1, <1>f
  <2>2. /\ status' = "slot" /\ lower' = lower /\ upper' = upper
        /\ PDUs' = PDUs /\ heap' = heap
    BY <1>1 DEF AskRR, processRR
  <2>3. "strange" \in asked' /\ asked' \subseteq {"sent", "ahead", "strange"}
    BY <2>1, <1>0, <1>k, <1>t DEF TypeOK
  <2>4. TypeOK'
    BY <1>t, <1>0, <2>2, <2>3 DEF TypeOK
  <2>5. SlotsHoldLast'
    BY <1>0, <2>2 DEF IInv, SlotsHoldLast
  <2>6. InStep' /\ UnackedIsKept' /\ InOrder' /\ NoneIsLost' /\ StopsOnlyBecause'
    BY <2>2, <2>3 DEF InStep, UnackedIsKept, InOrder, NoneIsLost, StopsOnlyBecause
  <2> QED BY <2>4, <2>5, <2>6 DEF IInv
<1>2. CASE \A i \in Slot : PDUs[i] \notin {NULL, Wild}
  <2>0. processRR(RR)
    BY <1>2 DEF AskRR, PrintFails
  <2>1. /\ \A i \in Slot : PDUs'[i] =
              IF PDUs[i] < Unsigned(RR) THEN NULL ELSE PDUs[i]
        /\ heap' = heap \ {PDUs[i] : i \in Acknowledged(RR)}
        /\ PDUs' \in [Slot -> (0 .. MaxSeq) \cup {NULL, Wild}]
        /\ status' = status
        /\ IF lower < RR THEN lower' = RR /\ upper' = ToInt(RR + SIZE)
                         ELSE lower' = lower /\ upper' = upper
    BY <1>t, <1>2, <2>0, Kept
  <2>2. ToInt(RR + SIZE) \in (-IntMax - 1) .. IntMax /\ Unsigned(RR) \in Nat
    <3>1. RR + SIZE \in Int
      BY SMT, <1>t
    <3> QED BY <3>1, <1>t, Converted
  <2>3. TypeOK'
    <3>1. lower' \in 0 .. IntMax
      BY SMT, <1>t, <2>1 DEF TypeOK
    <3>2. upper' \in (-IntMax - 1) .. IntMax
      BY <1>t, <2>1, <2>2 DEF TypeOK
    <3>3. asked' \subseteq {"sent", "ahead", "strange"} /\ heap' \subseteq 0 .. MaxSeq
      BY <1>t, <1>0, <1>k, <2>1 DEF TypeOK
    <3> QED BY <3>1, <3>2, <3>3, <1>t, <1>0, <2>1 DEF TypeOK
  <2>4. SlotsHoldLast'
    <3> SUFFICES ASSUME NEW i \in Slot, PDUs'[i] \notin {NULL, Wild}
                 PROVE  PDUs'[i] \in current - SIZE .. current - 1 /\ index(PDUs'[i]) = i
      BY <1>0 DEF SlotsHoldLast
    <3>1. PDUs'[i] = PDUs[i]
      BY <2>1
    <3> QED BY <3>1, Held
  <2>5. StopsOnlyBecause'
    BY <1>0, <2>1 DEF StopsOnlyBecause
  <2>6. CASE Kind(RR) = "strange"
    <3>1. "strange" \in asked'
      BY <1>0, <2>6
    <3>2. InStep' /\ UnackedIsKept' /\ InOrder' /\ NoneIsLost'
      BY <3>1 DEF InStep, UnackedIsKept, InOrder, NoneIsLost
    <3> QED BY <2>3, <2>4, <2>5, <3>2 DEF IInv
  <2>7. CASE Kind(RR) # "strange"
    <3>1. RR \in 0 .. IntMax /\ RR + SIZE \in 0 .. IntMax
      BY SMT, <1>t, <2>7 DEF Kind
    <3>2. ToInt(RR + SIZE) = RR + SIZE /\ Unsigned(RR) = RR
      <4>1. RR + SIZE \in Int
        BY SMT, <1>t
      <4> QED BY <3>1, <4>1, <1>t, Converted
    <3>3. ASSUME "strange" \notin asked'
          PROVE  /\ "strange" \notin asked
                 /\ current = lower + SIZE
                 /\ \A i \in Slot : PDUs[i] \in lower .. current - 1
      BY <3>3, <1>0, Full
    <3>4. InStep'
      <4> SUFFICES ASSUME "strange" \notin asked'
                   PROVE  upper' = lower' + SIZE /\ current <= upper'
        BY <1>0 DEF InStep
      <4>1. upper = lower + SIZE /\ current <= upper
        BY <3>3 DEF IInv, InStep
      <4> QED BY SMT, <4>1, <2>1, <3>2, <1>i, <1>t
    <3>5. UnackedIsKept'
      <4> SUFFICES ASSUME "strange" \notin asked', NEW n \in lower' .. current - 1
                   PROVE  PDUs'[index(n)] = n
        BY <1>0 DEF UnackedIsKept, findPDU
      <4>1. n \in Int /\ n \in lower .. current - 1 /\ RR <= n
        BY SMT, <2>1, <1>i, <1>t
      <4>2. PDUs[index(n)] = n /\ index(n) \in Slot
        BY <3>3, <4>1, IndexInSlot DEF IInv, UnackedIsKept, findPDU
      <4>3. ~ (n < RR)
        BY SMT, <4>1, <1>t
      <4> QED BY <4>2, <4>3, <2>1, <3>2
    <3>6. ASSUME asked' \subseteq {"sent"}
          PROVE  /\ asked \subseteq {"sent"} /\ "strange" \notin asked'
                 /\ RR <= current
      <4>1. Kind(RR) = "sent" /\ asked \subseteq {"sent"}
        BY <3>6, <1>0
      <4>2. RR \in 0 .. current
        BY <4>1, <2>7 DEF Kind
      <4> QED BY SMT, <3>6, <4>1, <4>2, <1>i
    <3>7. InOrder'
      <4> SUFFICES ASSUME asked' \subseteq {"sent"}
                   PROVE  /\ lower' <= current
                          /\ \A i \in Slot : PDUs'[i] \notin {NULL, Wild} => lower' <= PDUs'[i]
        BY <1>0 DEF InOrder
      <4>1. /\ lower <= current
            /\ \A i \in Slot : PDUs[i] \notin {NULL, Wild} => lower <= PDUs[i]
        BY <3>6 DEF IInv, InOrder
      <4>2. lower' <= current
        BY <3>6, <4>1, <2>1
      <4>3. ASSUME NEW i \in Slot, PDUs'[i] \notin {NULL, Wild}
            PROVE  lower' <= PDUs'[i]
        <5>1. PDUs'[i] = PDUs[i] /\ ~ (PDUs[i] < RR) /\ PDUs[i] \in Int
          BY <4>3, <2>1, <3>2, <1>n, <1>2
        <5>2. lower <= PDUs[i]
          BY <4>1, <1>2
        <5> QED BY SMT, <5>1, <5>2, <2>1, <1>i, <1>t
      <4> QED BY <4>2, <4>3
    <3>8. NoneIsLost'
      <4> SUFFICES ASSUME asked' \subseteq {"sent"}
                   PROVE  heap' = {PDUs'[i] : i \in Slot} \ {NULL, Wild}
        BY DEF NoneIsLost
      <4>1. heap = {PDUs[i] : i \in Slot}
        <5>1. heap = {PDUs[i] : i \in Slot} \ {NULL, Wild}
          BY <3>6 DEF IInv, NoneIsLost
        <5> QED BY <5>1, <1>2
      <4>2. \A i \in Slot : PDUs[i] \in Int /\ (i \in Acknowledged(RR) <=> PDUs[i] < RR)
        BY <1>n, <1>2, <3>2 DEF Acknowledged
      <4>3. heap' = {PDUs[i] : i \in Slot} \ {PDUs[i] : i \in Acknowledged(RR)}
        BY <2>1, <4>1
      <4>4. heap' = {n \in {PDUs[i] : i \in Slot} : ~ (n < RR)}
        BY <4>2, <4>3 DEF Acknowledged
      <4>5. {PDUs'[i] : i \in Slot} \ {NULL, Wild} = {n \in {PDUs[i] : i \in Slot} : ~ (n < RR)}
        BY <2>1, <3>2, <1>2
      <4> QED BY <4>4, <4>5
    <3> QED BY <2>3, <2>4, <2>5, <3>4, <3>5, <3>7, <3>8 DEF IInv
  <2> QED BY <2>6, <2>7
<1> QED BY <1>1, <1>2

-----------------------------------------------------------------------------
(* IInv is inductive, so it always holds: what processRR and addPDUtoWindow *)
(* do to the window keeps it in step with what was sent (windows.c:43-102).*)
THEOREM Invariance == Spec => []IInv
<1>1. IInv /\ [Next]_vars => IInv'
  <2> SUFFICES ASSUME IInv, [Next]_vars PROVE IInv'
    OBVIOUS
  <2>1. CASE AddPDU
    BY <2>1, AddPDUStep
  <2>2. CASE \E RR \in Typed : AskRR(RR)
    BY <2>2, AskRRStep
  <2>3. CASE UNCHANGED vars
    BY <2>3 DEF vars, IInv, TypeOK, SlotsHoldLast, InStep, UnackedIsKept, InOrder,
        NoneIsLost, StopsOnlyBecause, findPDU, isOpen
  <2> QED BY <2>1, <2>2, <2>3 DEF Next
<1> QED BY InitIInv, <1>1, PTL DEF Spec

(* The types of windows.h's serverWindow and of testWindows.c's variables.  *)
THEOREM Types == Spec => []TypeOK
<1>1. IInv => TypeOK
  BY DEF IInv
<1> QED BY <1>1, Invariance, PTL

(* Whatever is sent and not acknowledged can be found (windows.c:76-84).    *)
THEOREM Unacked == Spec => []UnackedIsKept
<1>1. IInv => UnackedIsKept
  BY DEF IInv
<1> QED BY <1>1, Invariance, PTL

(* A slot never goes back to an older number (windows.c:54, 65).            *)
THEOREM Last == Spec => []SlotsHoldLast
<1>1. IInv => SlotsHoldLast
  BY DEF IInv
<1> QED BY <1>1, Invariance, PTL

(* processRR meets no empty slot before it is given a number that is        *)
(* negative or so great that the window's end wraps (windows.c:90, 100).    *)
THEOREM Stops == Spec => []StopsOnlyBecause
<1>1. IInv => StopsOnlyBecause
  BY DEF IInv
<1> QED BY <1>1, Invariance, PTL

(* No Data is left behind while only what was sent is acknowledged          *)
(* (windows.c:65, 91).                                                     *)
THEOREM Lost == Spec => []NoneIsLost
<1>1. IInv => NoneIsLost
  BY DEF IInv
<1> QED BY <1>1, Invariance, PTL
=============================================================================
