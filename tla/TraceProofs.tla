---------------------------- MODULE TraceProofs ----------------------------
(***************************************************************************)
(* Proofs about Program1_Trace: what the answer of in_cksum says, for      *)
(* every sum an int can hold and every sequence of bytes as long as a      *)
(* datagram, and what the program prints of every capture.                 *)
(***************************************************************************)
EXTENDS Trace, NumberLemmas, SequenceTheorems

SumBound == 2147483648

(* Folding makes a sum small and changes nothing modulo 65535.             *)
LEMMA OneFold ==
    ASSUME NEW s \in Nat, s < SumBound
    PROVE  /\ Fold(s) \in Nat /\ Fold(s) <= 98302
           /\ Fold(s) % 65535 = s % 65535
           /\ Fold(s) = 0 <=> s = 0
<1>1. PICK q \in Nat : q = s \div 65536
  BY SMT
<1>2. PICK r \in Nat : r = s % 65536
  BY SMT
<1>3. q <= 32767 /\ r <= 65535 /\ s = 65536 * q + r
  BY SMT, <1>1, <1>2 DEF SumBound
<1>4. Fold(s) = q + r
  BY SMT, <1>1, <1>2 DEF Fold, WORD
<1>5. s = 65535 * q + (q + r)
  BY SMT, <1>3
<1>6. (q + r) % 65535 = s % 65535
  BY SMT, <1>5
<1> QED BY SMT, <1>3, <1>4, <1>6

(* The second fold and the complement.                                     *)
LEMMA AnswerOfFold ==
    ASSUME NEW s \in Nat, s < SumBound
    PROVE  Answer(s) = IF Fold(s) < 65536 THEN 65535 - Fold(s)
                                          ELSE 131070 - Fold(s)
<1>1. PICK f \in Nat : f = Fold(s) /\ f <= 98302
  BY SMT, OneFold
<1>2. Answer(s) = 65535 - ((f + (f \div 65536)) % 65536)
  BY SMT, <1>1 DEF Answer, Complement, WORD
<1>3. CASE f < 65536
  <2>1. f \div 65536 = 0 /\ f % 65536 = f
    BY SMT, <1>3
  <2> QED BY SMT, <1>1, <1>2, <1>3, <2>1
<1>4. CASE f >= 65536
  <2>1. f \div 65536 = 1 /\ (f + 1) % 65536 = f + 1 - 65536
    BY SMT, <1>1, <1>4
  <2> QED BY SMT, <1>1, <1>2, <1>4, <2>1
<1> QED BY SMT, <1>1, <1>3, <1>4

(* A packet is found good exactly when its words add up to a multiple of   *)
(* 65535 other than 0 (checksum.c:46-74).                                  *)
THEOREM GoodIsMultiple ==
    ASSUME NEW s \in Nat, s < SumBound
    PROVE  Answer(s) = 0 <=> s > 0 /\ s % 65535 = 0
<1>1. PICK f \in Nat : f = Fold(s) /\ f <= 98302
                        /\ f % 65535 = s % 65535 /\ (f = 0 <=> s = 0)
  BY SMT, OneFold
<1>2. Answer(s) = IF f < 65536 THEN 65535 - f ELSE 131070 - f
  BY SMT, <1>1, AnswerOfFold
<1>3. Answer(s) = 0 <=> f = 65535
  BY SMT, <1>1, <1>2
<1>4. f = 65535 <=> f > 0 /\ f % 65535 = 0
  BY SMT, <1>1
<1> QED BY SMT, <1>1, <1>3, <1>4

(* The checksum computed over a field that is 0, and then stored in it,    *)
(* makes the packet good (UDP.c:15-17).                                    *)
THEOREM StoredIsGood ==
    ASSUME NEW s \in Nat, s < SumBound, s + Answer(s) < SumBound
    PROVE  Answer(s + Answer(s)) = 0
<1>1. PICK f \in Nat : f = Fold(s) /\ f <= 98302
                        /\ f % 65535 = s % 65535 /\ (f = 0 <=> s = 0)
  BY SMT, OneFold
<1>2. PICK a \in Int : a = Answer(s)
                        /\ a = IF f < 65536 THEN 65535 - f ELSE 131070 - f
  BY SMT, <1>1, AnswerOfFold
<1>3. a \in Nat /\ s + a > 0
  BY SMT, <1>1, <1>2
<1>4. PICK i \in Int, j \in Int : i = s \div 65535 /\ j = f \div 65535
  BY SMT
<1>5. s - f = 65535 * (i - j)
  BY SMT, <1>1, <1>4
<1>6. (s + a) % 65535 = (f + a) % 65535
  BY SMT, <1>1, <1>2, <1>3, <1>5
<1>7. (f + a) % 65535 = 0
  BY SMT, <1>1, <1>2
<1> QED BY SMT, <1>2, <1>3, <1>6, <1>7, GoodIsMultiple

(* What libcpe464 does to a packet, one byte complemented, is noticed      *)
(* wherever in the packet the byte is: a receiver never takes such a       *)
(* packet for a good one (errorFlipBits.cpp:23, srej.c:69).                *)
THEOREM FlipIsNoticed ==
    ASSUME NEW s \in Nat, s < SumBound, Answer(s) = 0,
           NEW b \in Nat, b <= 255, NEW w \in {1, 256},
           s + w * (255 - 2 * b) \in Nat, s + w * (255 - 2 * b) < SumBound
    PROVE  Answer(s + w * (255 - 2 * b)) # 0
<1>1. s % 65535 = 0
  BY SMT, GoodIsMultiple
<1>2. PICK d \in Int : d = w * (255 - 2 * b)
  BY SMT
<1>3. d >= -65280 /\ d <= 65280 /\ d # 0
  <2>1. CASE w = 1
    BY SMT, <1>2, <2>1
  <2>2. CASE w = 256
    BY SMT, <1>2, <2>2
  <2> QED BY <2>1, <2>2
<1>4. (s + d) % 65535 # 0
  BY SMT, <1>1, <1>3
<1> QED BY SMT, <1>2, <1>4, GoodIsMultiple

-----------------------------------------------------------------------------
(* The sums.                                                               *)

(* A running sum exists: its recursive definition defines it.              *)
LEMMA Running ==
    ASSUME NEW N \in Nat, NEW w
    PROVE  \E F : F = [i \in 0 .. N |-> IF i = 0 THEN 0 ELSE F[i - 1] + w[i]]
<1> DEFINE next(F, i) == IF i = 0 THEN 0 ELSE F[i - 1] + w[i]
           Fits(F, n) == F = [i \in 0 .. n |-> next(F, i)]
           S == {n \in 0 .. N : \E F : Fits(F, n)}
<1>1. 0 \in S
  <2> DEFINE F == [i \in 0 .. 0 |-> 0]
  <2>1. 0 .. 0 = {0} /\ 0 \in 0 .. N
    BY SMT
  <2>2. Fits(F, 0)
    BY <2>1
  <2> QED BY <2>1, <2>2
<1>2. ASSUME NEW n \in 0 .. N - 1, n \in S
      PROVE  n + 1 \in S
  <2>1. PICK F : Fits(F, n)
    BY <1>2
  <2> DEFINE G == [i \in 0 .. n + 1 |-> IF i = n + 1 THEN next(F, i) ELSE F[i]]
  <2>2. /\ n + 1 \in 0 .. N /\ n \in Nat /\ (n + 1) - 1 = n /\ n \in 0 .. n /\ n + 1 # n
        /\ \A i \in 0 .. n : i \in 0 .. n + 1 /\ i # n + 1
        /\ \A i \in 0 .. n + 1 : i # n + 1 => i \in 0 .. n
        /\ \A i \in 0 .. n : i # 0 => i - 1 \in 0 .. n
        /\ n + 1 # 0
    BY SMT
  <2>3. \A i \in 0 .. n : G[i] = F[i]
    BY <2>2
  <2>4. \A i \in 0 .. n + 1 : G[i] = next(G, i)
    <3> SUFFICES ASSUME NEW i \in 0 .. n + 1 PROVE G[i] = next(G, i)
      OBVIOUS
    <3>1. CASE i = n + 1
      <4>1. G[i] = next(F, i) /\ G[i - 1] = F[i - 1]
        BY <2>2, <2>3, <3>1
      <4> HIDE DEF G
      <4> QED BY <4>1
    <3>2. CASE i # n + 1
      <4>1. i \in 0 .. n /\ G[i] = F[i] /\ F[i] = next(F, i)
        BY <2>1, <2>2, <2>3, <3>2
      <4>2. i # 0 => G[i - 1] = F[i - 1]
        BY <2>2, <2>3, <4>1
      <4> HIDE DEF G
      <4> QED BY <4>1, <4>2
    <3> QED BY <3>1, <3>2
  <2>5. Fits(G, n + 1)
    <3> HIDE DEF next
    <3>1. G = [i \in 0 .. n + 1 |-> G[i]]
      OBVIOUS
    <3> HIDE DEF G
    <3> QED BY <2>4, <3>1
  <2> HIDE DEF G, Fits
  <2> QED BY <2>2, <2>5
<1> HIDE DEF Fits
<1>3. S = 0 .. N
  <2>1. S \in SUBSET (0 .. N)
    OBVIOUS
  <2> HIDE DEF S
  <2> QED BY <1>1, <1>2, <2>1, UpTo
<1>4. N \in 0 .. N
  BY SMT
<1>5. \E F : Fits(F, N)
  BY <1>3, <1>4
<1> QED BY <1>5 DEF Fits

(* F is the running sum of the bytes of s as in_cksum adds them up.        *)
HostSums(F, s) ==
    F[0] = 0 /\ \A i \in 1 .. Len(s) : F[i] = F[i - 1] + Weight(i) * s[i]

(* ... and in network order.                                               *)
NetSums(F, s) ==
    F[0] = 0 /\ \A i \in 1 .. Len(s) : F[i] = F[i - 1] + Weight(i + 1) * s[i]

(* Sum16 is the last of them.                                              *)
LEMMA Sum16Runs ==
    ASSUME NEW s, Len(s) \in Nat
    PROVE  \E F : HostSums(F, s) /\ Sum16(s) = F[Len(s)]
<1> DEFINE N == Len(s)
           w == [i \in 1 .. N |-> Weight(i) * s[i]]
           sum == CHOOSE F : F = [i \in 0 .. N |-> IF i = 0 THEN 0 ELSE F[i - 1] + Weight(i) * s[i]]
<1>1. PICK F : F = [i \in 0 .. N |-> IF i = 0 THEN 0 ELSE F[i - 1] + w[i]]
  BY Running
<1>2. \A i \in 0 .. N : i # 0 => i \in 1 .. N
  BY SMT
<1>3. F = [i \in 0 .. N |-> IF i = 0 THEN 0 ELSE F[i - 1] + Weight(i) * s[i]]
  BY <1>1, <1>2
<1>4. sum = [i \in 0 .. N |-> IF i = 0 THEN 0 ELSE sum[i - 1] + Weight(i) * s[i]]
  BY <1>3
<1>5. Sum16(s) = sum[N]
  BY DEF Sum16
<1> HIDE DEF sum
<1>6. 0 \in 0 .. N /\ \A i \in 1 .. N : i \in 0 .. N /\ i # 0
  BY SMT
<1>7. sum[0] = 0 /\ \A i \in 1 .. N : sum[i] = sum[i - 1] + Weight(i) * s[i]
  BY <1>4, <1>6
<1> QED BY <1>5, <1>7 DEF HostSums

(* NetSum is the last of them.                                             *)
LEMMA NetSumRuns ==
    ASSUME NEW s, Len(s) \in Nat
    PROVE  \E F : NetSums(F, s) /\ NetSum(s) = F[Len(s)]
<1> DEFINE N == Len(s)
           w == [i \in 1 .. N |-> Weight(i + 1) * s[i]]
           sum == CHOOSE F : F = [i \in 0 .. N |-> IF i = 0 THEN 0 ELSE F[i - 1] + Weight(i + 1) * s[i]]
<1>1. PICK F : F = [i \in 0 .. N |-> IF i = 0 THEN 0 ELSE F[i - 1] + w[i]]
  BY Running
<1>2. \A i \in 0 .. N : i # 0 => i \in 1 .. N
  BY SMT
<1>3. F = [i \in 0 .. N |-> IF i = 0 THEN 0 ELSE F[i - 1] + Weight(i + 1) * s[i]]
  BY <1>1, <1>2
<1>4. sum = [i \in 0 .. N |-> IF i = 0 THEN 0 ELSE sum[i - 1] + Weight(i + 1) * s[i]]
  BY <1>3
<1>5. NetSum(s) = sum[N]
  BY DEF NetSum
<1> HIDE DEF sum
<1>6. 0 \in 0 .. N /\ \A i \in 1 .. N : i \in 0 .. N /\ i # 0
  BY SMT
<1>7. sum[0] = 0 /\ \A i \in 1 .. N : sum[i] = sum[i - 1] + Weight(i + 1) * s[i]
  BY <1>4, <1>6
<1> QED BY <1>5, <1>7 DEF NetSums

(* The weights of a byte.                                                  *)
LEMMA Weights ==
    \A i \in Nat : /\ Weight(i) \in {1, 256} /\ Weight(i + 1) \in {1, 256}
                   /\ i % 2 = 1 <=> Weight(i) = 1
                   /\ Weight(i) = 1 <=> Weight(i + 1) = 256
                   /\ Weight(i) = 256 <=> Weight(i + 1) = 1
  BY SMT DEF Weight

(* What a running sum can be at most: 65535 for two bytes.                 *)
Small(i, sum) ==
    /\ sum \in Nat
    /\ i % 2 = 0 => 2 * sum <= 65535 * i
    /\ i % 2 = 1 => 2 * sum <= 65535 * i - 65025

(* One more byte keeps it so.                                              *)
LEMMA SmallGrows ==
    ASSUME NEW i \in Nat, NEW sum, Small(i, sum), NEW b \in Byte
    PROVE  Small(i + 1, sum + Weight(i + 1) * b)
<1>1. sum \in Nat /\ b \in Nat /\ b <= 255
  BY SMT DEF Small, Byte
<1>2. CASE i % 2 = 0
  <2>1. (i + 1) % 2 = 1 /\ Weight(i + 1) = 1
    BY SMT, <1>2 DEF Weight
  <2> QED BY SMT, <1>1, <1>2, <2>1 DEF Small
<1>3. CASE i % 2 = 1
  <2>1. (i + 1) % 2 = 0 /\ Weight(i + 1) = 256
    BY SMT, <1>3 DEF Weight
  <2> QED BY SMT, <1>1, <1>3, <2>1 DEF Small
<1> QED BY SMT, <1>2, <1>3

(* As long as a datagram may be, the sum does not overflow an int.         *)
LEMMA SumIsSmall ==
    ASSUME NEW s \in Seq(Byte), Len(s) <= 65535
    PROVE  Sum16(s) \in Nat /\ Sum16(s) < SumBound
<1> DEFINE N == Len(s)
<1>1. N \in Nat /\ \A i \in 1 .. N : s[i] \in Byte
  BY LenProperties, ElementOfSeq
<1>2. PICK F : HostSums(F, s) /\ Sum16(s) = F[N]
  BY <1>1, Sum16Runs
<1> DEFINE S == {i \in 0 .. N : Small(i, F[i])}
<1>3. 0 \in S
  <2>1. F[0] = 0 /\ 0 \in 0 .. N
    BY SMT, <1>1, <1>2 DEF HostSums
  <2>2. Small(0, 0)
    BY SMT DEF Small
  <2> QED BY <2>1, <2>2
<1>4. ASSUME NEW i \in 0 .. N - 1, i \in S
      PROVE  i + 1 \in S
  <2>1. i \in Nat /\ i + 1 \in 1 .. N /\ i + 1 \in 0 .. N /\ (i + 1) - 1 = i
    BY SMT, <1>1
  <2>2. F[i + 1] = F[i] + Weight(i + 1) * s[i + 1]
    BY <1>2, <2>1 DEF HostSums
  <2>3. Small(i, F[i]) /\ s[i + 1] \in Byte
    BY <1>1, <1>4, <2>1
  <2>4. Small(i + 1, F[i] + Weight(i + 1) * s[i + 1])
    BY <2>1, <2>3, SmallGrows
  <2> QED BY <2>1, <2>2, <2>4
<1>5. S = 0 .. N
  <2>1. S \in SUBSET (0 .. N)
    OBVIOUS
  <2> HIDE DEF S
  <2> QED BY <1>1, <1>3, <1>4, <2>1, UpTo
<1>6. Small(N, F[N])
  <2>1. N \in 0 .. N
    BY SMT, <1>1
  <2> QED BY <1>5, <2>1
<1>7. F[N] \in Nat /\ 2 * F[N] <= 65535 * N
  BY SMT, <1>1, <1>6 DEF Small
<1> QED BY SMT, <1>1, <1>2, <1>7 DEF SumBound

(* One byte changes the sum by what it differs, times its weight.          *)
LEMMA SumsDiffer ==
    ASSUME NEW s \in Seq(Byte), NEW t \in Seq(Byte), Len(t) = Len(s),
           NEW k \in 1 .. Len(s), \A i \in 1 .. Len(s) : i # k => t[i] = s[i]
    PROVE  Sum16(t) = Sum16(s) + Weight(k) * (t[k] - s[k])
<1> DEFINE N == Len(s)
           d == Weight(k) * (t[k] - s[k])
<1>1. N \in Nat /\ \A i \in 1 .. N : s[i] \in Nat /\ t[i] \in Nat
  <2>1. N \in Nat /\ \A i \in 1 .. N : s[i] \in Byte
    BY LenProperties, ElementOfSeq
  <2>2. \A i \in 1 .. N : t[i] \in Byte
    BY LenProperties, ElementOfSeq
  <2>3. \A b \in Byte : b \in Nat
    BY SMT DEF Byte
  <2> QED BY <2>1, <2>2, <2>3
<1>2. PICK F : HostSums(F, s) /\ Sum16(s) = F[N]
  BY <1>1, Sum16Runs
<1>3. PICK G : HostSums(G, t) /\ Sum16(t) = G[N]
  BY <1>1, Sum16Runs
<1>4. d \in Int
  <2>1. PICK w, a, b : w = Weight(k) /\ a = s[k] /\ b = t[k]
    OBVIOUS
  <2>2. k \in Nat
    BY SMT, <1>1
  <2>3. w \in {1, 256} /\ a \in Nat /\ b \in Nat
    BY <1>1, <2>1, <2>2, Weights
  <2>4. w * (b - a) \in Int
    BY SMT, <2>3
  <2> QED BY <2>1, <2>4
<1> DEFINE Apart(i) == /\ F[i] \in Int
                       /\ G[i] = IF i < k THEN F[i] ELSE F[i] + d
           S == {i \in 0 .. N : Apart(i)}
<1>5. 0 \in S
  <2>1. F[0] = 0 /\ G[0] = 0 /\ 0 < k /\ 0 \in 0 .. N
    BY SMT, <1>1, <1>2, <1>3 DEF HostSums
  <2> QED BY <2>1
<1>6. ASSUME NEW i \in 0 .. N - 1, i \in S
      PROVE  i + 1 \in S
  <2>1. i \in Nat /\ i + 1 \in 1 .. N /\ i + 1 \in 0 .. N /\ (i + 1) - 1 = i
    BY SMT, <1>1
  <2>2. PICK w, a, b, f, g :
           /\ w = Weight(i + 1) /\ a = s[i + 1] /\ b = t[i + 1]
           /\ f = F[i] /\ g = G[i]
    OBVIOUS
  <2>3. /\ F[i + 1] = f + w * a
        /\ G[i + 1] = g + w * b
    BY <1>2, <1>3, <2>1, <2>2 DEF HostSums
  <2>4. /\ f \in Int /\ a \in Nat /\ b \in Nat
        /\ w \in {1, 256}
        /\ g = IF i < k THEN f ELSE f + d
    BY <1>1, <1>6, <2>1, <2>2, Weights
  <2>5. CASE i + 1 = k
    <3>1. d = w * (b - a)
      BY <2>2, <2>5
    <3>2. i < k /\ ~ (i + 1 < k)
      BY SMT, <2>1, <2>5
    <3>3. g = f /\ f + w * b = (f + w * a) + w * (b - a)
      BY SMT, <2>4, <3>2
    <3>4. G[i + 1] = F[i + 1] + d /\ F[i + 1] \in Int
      <4> HIDE DEF d
      <4>1. f + w * a \in Int
        BY SMT, <2>4
      <4> QED BY <2>3, <3>1, <3>3, <4>1
    <3> QED BY <2>1, <3>2, <3>4
  <2>6. CASE i + 1 # k
    <3>1. a = b
      BY <2>1, <2>2, <2>6
    <3>2. i < k <=> i + 1 < k
      BY SMT, <2>1, <2>6
    <3> HIDE DEF d
    <3>3. f + w * a \in Int /\ (f + d) + w * a = (f + w * a) + d
      BY SMT, <1>4, <2>4
    <3> QED BY <2>1, <2>3, <2>4, <3>1, <3>2, <3>3
  <2> QED BY <2>5, <2>6
<1>7. S = 0 .. N
  <2>1. S \in SUBSET (0 .. N)
    OBVIOUS
  <2> HIDE DEF S
  <2> QED BY <1>1, <1>5, <1>6, <2>1, UpTo
<1>8. N \in 0 .. N /\ ~ (N < k)
  BY SMT, <1>1
<1>9. Apart(N)
  BY <1>7, <1>8
<1> QED BY <1>2, <1>3, <1>8, <1>9

(* The two byte orders: 256 times the one sum is the other, modulo 65535.  *)
Swapped(f, g, q) ==
    /\ f \in Nat /\ g \in Nat /\ q \in Int
    /\ 256 * g = f + 65535 * q
    /\ f = 0 <=> g = 0

LEMMA SwappedGrows ==
    ASSUME NEW f, NEW g, NEW q, Swapped(f, g, q), NEW b \in Byte, NEW i \in Nat
    PROVE  \E r : Swapped(f + Weight(i) * b, g + Weight(i + 1) * b, r)
<1>1. b \in Nat
  BY SMT DEF Byte
<1>2. CASE Weight(i) = 1
  <2>1. Weight(i + 1) = 256
    BY <1>2, Weights
  <2>2. Swapped(f + b, g + 256 * b, q + b)
    BY SMT, <1>1 DEF Swapped
  <2>3. 1 * b = b
    BY SMT, <1>1
  <2> QED BY <1>2, <2>1, <2>2, <2>3
<1>3. CASE Weight(i) = 256
  <2>1. Weight(i + 1) = 1
    BY <1>3, Weights
  <2>2. Swapped(f + 256 * b, g + b, q)
    BY SMT, <1>1 DEF Swapped
  <2>3. 1 * b = b
    BY SMT, <1>1
  <2> QED BY <1>3, <2>1, <2>2, <2>3
<1> QED BY <1>2, <1>3, Weights

(* A machine that keeps the low byte of a word first gets the same answer. *)
LEMMA NetHost ==
    ASSUME NEW s \in Seq(Byte)
    PROVE  \E q : Swapped(Sum16(s), NetSum(s), q)
<1> DEFINE N == Len(s)
<1>1. N \in Nat /\ \A i \in 1 .. N : s[i] \in Byte
  BY LenProperties, ElementOfSeq
<1>2. PICK F : HostSums(F, s) /\ Sum16(s) = F[N]
  BY <1>1, Sum16Runs
<1>3. PICK G : NetSums(G, s) /\ NetSum(s) = G[N]
  BY <1>1, NetSumRuns
<1> DEFINE S == {i \in 0 .. N : \E q : Swapped(F[i], G[i], q)}
<1>4. 0 \in S
  <2>1. F[0] = 0 /\ G[0] = 0 /\ 0 \in 0 .. N
    BY SMT, <1>1, <1>2, <1>3 DEF HostSums, NetSums
  <2>2. Swapped(0, 0, 0)
    BY SMT DEF Swapped
  <2> QED BY <2>1, <2>2
<1>5. ASSUME NEW i \in 0 .. N - 1, i \in S
      PROVE  i + 1 \in S
  <2>1. i + 1 \in Nat /\ i + 1 \in 1 .. N /\ i + 1 \in 0 .. N /\ (i + 1) - 1 = i
    BY SMT, <1>1
  <2>2. /\ F[i + 1] = F[i] + Weight(i + 1) * s[i + 1]
        /\ G[i + 1] = G[i] + Weight((i + 1) + 1) * s[i + 1]
    BY <1>2, <1>3, <2>1 DEF HostSums, NetSums
  <2>3. PICK q : Swapped(F[i], G[i], q)
    BY <1>5
  <2>4. s[i + 1] \in Byte
    BY <1>1, <2>1
  <2>5. \E r : Swapped(F[i] + Weight(i + 1) * s[i + 1],
                       G[i] + Weight((i + 1) + 1) * s[i + 1], r)
    BY <2>1, <2>3, <2>4, SwappedGrows
  <2> QED BY <2>1, <2>2, <2>5
<1>6. S = 0 .. N
  <2>1. S \in SUBSET (0 .. N)
    OBVIOUS
  <2> HIDE DEF S
  <2> QED BY <1>1, <1>4, <1>5, <2>1, UpTo
<1>7. N \in 0 .. N
  BY SMT, <1>1
<1>8. N \in S
  BY <1>6, <1>7
<1> QED BY <1>2, <1>3, <1>8

(* The longest datagram.                                                   *)
MaxLength == 65535

(* in_cksum answers 0 for the bytes of a packet, read in the order of the   *)
(* machine, exactly when the words of the packet, in the order of the       *)
(* network, add up as the protocols say; for every sequence of bytes as     *)
(* long as a datagram may be (checksum.c:46-74).                            *)
THEOREM AnswerIsRule ==
    ASSUME NEW s \in Seq(Byte), Len(s) <= MaxLength
    PROVE  in_cksum(s) = 0 <=> IsGood(s)
<1>1. PICK q : Swapped(Sum16(s), NetSum(s), q)
  BY NetHost
<1>2. PICK f \in Nat, g \in Nat : f = Sum16(s) /\ g = NetSum(s)
  BY <1>1 DEF Swapped
<1>3. f < SumBound
  BY <1>2, SumIsSmall DEF MaxLength
<1>4. Answer(f) = 0 <=> f > 0 /\ f % 65535 = 0
  BY <1>2, <1>3, GoodIsMultiple
<1>5. q \in Int /\ 256 * g = f + 65535 * q /\ (f = 0 <=> g = 0)
  BY <1>1, <1>2 DEF Swapped
<1>6. f % 65535 = 0 <=> g % 65535 = 0
  <2>1. ASSUME f % 65535 = 0 PROVE g % 65535 = 0
    <3>1. PICK j \in Int : j = f \div 65535
      BY SMT
    <3>2. f = 65535 * j
      BY SMT, <2>1, <3>1
    <3>3. g = 65535 * (256 * j + 256 * q - g)
      BY SMT, <1>5, <3>2
    <3> QED BY SMT, <1>5, <3>3
  <2>2. ASSUME g % 65535 = 0 PROVE f % 65535 = 0
    <3>1. PICK j \in Int : j = g \div 65535
      BY SMT
    <3>2. g = 65535 * j
      BY SMT, <2>2, <3>1
    <3>3. f = 65535 * (256 * j - q)
      BY SMT, <1>5, <3>2
    <3> QED BY SMT, <1>5, <3>3
  <2> QED BY <2>1, <2>2
<1>7. (f > 0 <=> g > 0)
  BY SMT, <1>5
<1> QED BY <1>2, <1>4, <1>6, <1>7 DEF in_cksum, IsGood

(* One byte that is not what it was is noticed, whatever the two values,    *)
(* wherever it is, in a packet as long as a datagram may be                 *)
(* (checksum.c:46-74).                                                      *)
THEOREM OneByteIsNoticed ==
    ASSUME NEW s \in Seq(Byte), NEW t \in Seq(Byte), Len(s) <= MaxLength,
           Len(t) = Len(s), NEW k \in 1 .. Len(s), t[k] # s[k],
           \A i \in 1 .. Len(s) : i # k => t[i] = s[i], in_cksum(s) = 0
    PROVE  in_cksum(t) # 0
<1>1. Len(s) \in Nat /\ s[k] \in Byte /\ t[k] \in Byte
  <2>1. Len(s) \in Nat /\ s[k] \in Byte
    BY LenProperties, ElementOfSeq
  <2>2. t[k] \in Byte
    BY LenProperties, ElementOfSeq
  <2> QED BY <2>1, <2>2
<1>2. Sum16(t) = Sum16(s) + Weight(k) * (t[k] - s[k])
  BY SumsDiffer
<1>3. PICK f \in Nat, g \in Nat : /\ f = Sum16(s) /\ g = Sum16(t)
                                  /\ f < SumBound /\ g < SumBound
  <2>1. Sum16(s) \in Nat /\ Sum16(s) < SumBound
    BY SumIsSmall DEF MaxLength
  <2>2. Sum16(t) \in Nat /\ Sum16(t) < SumBound
    BY SumIsSmall DEF MaxLength
  <2> QED BY <2>1, <2>2
<1>4. f % 65535 = 0
  BY <1>3, GoodIsMultiple DEF in_cksum
<1>5. g % 65535 # 0
  <2>1. PICK w, a, b : w = Weight(k) /\ a = s[k] /\ b = t[k]
    OBVIOUS
  <2>2. k \in Nat
    BY SMT, <1>1
  <2>3. w \in {1, 256} /\ a \in Byte /\ b \in Byte /\ a # b /\ g = f + w * (b - a)
    BY <1>1, <1>2, <1>3, <2>1, <2>2, Weights
  <2>4. a \in Nat /\ b \in Nat /\ a <= 255 /\ b <= 255 /\ a # b
    BY SMT, <2>3 DEF Byte
  <2>5. CASE w = 1
    <3>1. g = f + (b - a)
      BY SMT, <2>3, <2>4, <2>5
    <3> QED BY SMT, <1>4, <2>4, <3>1
  <2>6. CASE w = 256
    <3>1. PICK d \in Int : d = 256 * (b - a)
      BY SMT, <2>4
    <3>2. d >= -65280 /\ d <= 65280 /\ d # 0
      BY SMT, <2>4, <3>1
    <3>3. (f + d) % 65535 # 0
      BY SMT, <1>4, <3>2
    <3> QED BY <2>3, <2>6, <3>1, <3>3
  <2> QED BY <2>3, <2>5, <2>6
<1> QED BY <1>3, <1>5, GoodIsMultiple DEF in_cksum

-----------------------------------------------------------------------------
(* The loop.                                                               *)

(* What may be printed of the capture.                                     *)
Shown == Wild \cup UNION {Printed(n) : n \in DOMAIN file.packets}

(* How far the loop has come, and with how many reports.                   *)
Progress ==
    LET n == Len(file.packets)
    IN  \/ pos < n /\ Len(reports) = pos /\ ends = file.ends
        \/ pos = n /\ Len(reports) = n /\ ends = file.ends
        \/ pos = n /\ Len(reports) = n + 1 /\ file.ends = "cut" /\ ends = "end"
        \/ pos = n /\ Len(reports) >= n /\ file.ends = "fails" /\ ends = "fails"

(* pkt_data points to the last packet read, if any.                         *)
Points ==
    current # None =>
        /\ current \in Readable
        /\ current <= pos
        /\ \A k \in Readable : k > current => k > pos

(* The inductive invariant: what has been printed is what could be printed  *)
(* of the packets read so far, in their order.                             *)
IInv ==
    /\ file \in Captures
    /\ pos \in 0 .. Len(file.packets)
    /\ Points
    /\ reports \in Seq(Shown)
    /\ status = "running" => Progress
    /\ ReportsFollowFile

(* The packets of a capture.                                               *)
LEMMA Packets ==
    ASSUME file \in Captures
    PROVE  /\ Len(file.packets) \in Nat
           /\ DOMAIN file.packets = 1 .. Len(file.packets)
           /\ \A i \in DOMAIN file.packets : file.packets[i] \in Packet
           /\ None \notin DOMAIN file.packets
           /\ file.ends \in Endings
           /\ Readable \subseteq 1 .. Len(file.packets)
<1>1. file.packets \in Seq(Packet) /\ file.ends \in Endings
  BY CapturesAssumption
<1>2. Len(file.packets) \in Nat /\ DOMAIN file.packets = 1 .. Len(file.packets)
  BY <1>1, LenProperties
<1>3. \A i \in 1 .. Len(file.packets) : file.packets[i] \in Packet
  BY <1>1, ElementOfSeq
<1> QED BY <1>1, <1>2, <1>3, NoneAssumption DEF Readable

(* A report of packet n carries its number.                                *)
LEMMA OfIs == \A n : \A r \in Printed(n) : r.of = n
<1> SUFFICES ASSUME NEW n, NEW r \in Printed(n) PROVE r.of = n
  OBVIOUS
<1>1. \A layer, fields, ip, tcp : Report(n, layer, fields, ip, tcp).of = n
  BY DEF Report
<1>2. \E layer, fields, ip, tcp : r = Report(n, layer, fields, ip, tcp)
  <2> DEFINE p == file.packets[n]
  <2>1. CASE ethernet_layer(p.type) = 1
    BY <2>1 DEF Printed
  <2>2. CASE ethernet_layer(p.type) = 2
    <3>1. r \in {Report(n, "ARP", APR_protocol(p.bytes), TRUE, TRUE)}
      BY SMT, <2>2 DEF Printed
    <3> QED BY <3>1
  <2>3. CASE ethernet_layer(p.type) # 1 /\ ethernet_layer(p.type) # 2
    <3>1. r \in {Report(n, "?", Short, TRUE, TRUE)}
      BY <2>3 DEF Printed
    <3> QED BY <3>1
  <2> QED BY <2>1, <2>2, <2>3
<1> QED BY <1>1, <1>2

(* A report of no packet.                                                  *)
LEMMA OfWild == \A r \in Wild : r.of = None
  BY DEF Wild, Report

(* One more report.                                                        *)
LEMMA OneMore ==
    ASSUME reports \in Seq(Shown), NEW r \in Shown, reports' = Append(reports, r)
    PROVE  /\ reports' \in Seq(Shown)
           /\ Len(reports) \in Nat /\ Len(reports') = Len(reports) + 1
           /\ DOMAIN reports = 1 .. Len(reports)
           /\ DOMAIN reports' = 1 .. Len(reports) + 1
           /\ \A i \in 1 .. Len(reports) : reports'[i] = reports[i]
           /\ reports'[Len(reports) + 1] = r
<1> DEFINE next == Append(reports, r)
<1>1. /\ next \in Seq(Shown)
      /\ Len(next) = Len(reports) + 1
      /\ \A i \in 1 .. Len(reports) : next[i] = reports[i]
      /\ next[Len(reports) + 1] = r
  BY AppendProperties
<1>2. Len(reports) \in Nat /\ DOMAIN reports = 1 .. Len(reports)
  BY LenProperties
<1>3. DOMAIN next = 1 .. Len(next)
  BY <1>1, LenProperties
<1> HIDE DEF next
<1>4. reports' = next
  BY DEF next
<1> QED BY <1>1, <1>2, <1>3, <1>4

(* Which packet the report of iteration i may carry.                        *)
Fits(r, i) ==
    IF i \in Readable THEN r.of = i ELSE r.of \in {None} \cup Before(i)

(* The next report fits.                                                   *)
LEMMA OneMoreFits ==
    ASSUME IInv, file' = file, status' # "ended",
           NEW r \in Shown, Fits(r, Len(reports) + 1), reports' = Append(reports, r)
    PROVE  reports' \in Seq(Shown') /\ Len(reports') = Len(reports) + 1 /\ ReportsFollowFile'
<1>1. reports \in Seq(Shown)
  BY DEF IInv
<1>2. /\ reports' \in Seq(Shown)
      /\ Len(reports') = Len(reports) + 1 /\ Len(reports) \in Nat
      /\ DOMAIN reports = 1 .. Len(reports)
      /\ DOMAIN reports' = 1 .. Len(reports) + 1
      /\ \A i \in 1 .. Len(reports) : reports'[i] = reports[i]
      /\ reports'[Len(reports) + 1] = r
  BY <1>1, OneMore
<1>3. Shown' = Shown
  BY DEF Shown, Wild, Printed
<1>4. \A i \in DOMAIN reports : Fits(reports[i], i)
  BY DEF IInv, ReportsFollowFile, Fits
<1>5. \A i \in 1 .. Len(reports) + 1 : i \in 1 .. Len(reports) \/ i = Len(reports) + 1
  BY SMT, <1>2
<1>6. \A i \in DOMAIN reports' : Fits(reports'[i], i)
  BY <1>2, <1>4, <1>5
<1>7. Readable' = Readable /\ \A i : Before(i)' = Before(i)
  BY DEF Readable, Before
<1>8. ReportsFollowFile'
  BY <1>6, <1>7 DEF ReportsFollowFile, Fits
<1> QED BY <1>2, <1>3, <1>8

(* The program prints as many reports as the file has records, and they     *)
(* are in its order: the invariant is inductive.                           *)
LEMMA Begins == Init => IInv
<1> SUFFICES ASSUME Init PROVE IInv
  OBVIOUS
<1>1. /\ file \in Captures /\ pos = 0 /\ ends = file.ends /\ current = None
      /\ reports = <<>> /\ status = "running"
  BY DEF Init
<1>2. Len(file.packets) \in Nat
  BY <1>1, Packets
<1>3. reports \in Seq(Shown) /\ Len(reports) = 0
  BY <1>1, EmptySeq
<1>4. DOMAIN reports = {}
  <2>1. DOMAIN reports = 1 .. Len(reports)
    BY <1>3, LenProperties
  <2>2. 1 .. 0 = {}
    BY SMT
  <2> QED BY <1>3, <2>1, <2>2
<1>5. pos \in 0 .. Len(file.packets) /\ (pos < Len(file.packets) \/ pos = Len(file.packets))
  BY SMT, <1>1, <1>2
<1>6. Progress
  BY <1>1, <1>3, <1>5 DEF Progress
<1>7. ReportsFollowFile
  BY <1>1, <1>4 DEF ReportsFollowFile
<1> QED BY <1>1, <1>3, <1>5, <1>6, <1>7 DEF IInv, Points

(* What the steps that read on have in common.                             *)
LEMMA ReadsOn ==
    ASSUME IInv, status = "running", pos < Len(file.packets), file' = file, pos' = pos + 1
    PROVE  /\ pos + 1 \in 1 .. Len(file.packets) /\ pos + 1 \in 0 .. Len(file.packets)
           /\ Len(reports) = pos /\ ends = file.ends
           /\ ends' = ends /\ Len(reports') = Len(reports) + 1 => Progress'
<1>1. /\ file \in Captures /\ pos \in 0 .. Len(file.packets) /\ Progress
  BY DEF IInv
<1>2. Len(file.packets) \in Nat
  BY <1>1, Packets
<1>3. /\ pos + 1 \in 1 .. Len(file.packets) /\ pos + 1 \in 0 .. Len(file.packets)
      /\ pos # Len(file.packets)
      /\ (pos + 1 < Len(file.packets) \/ pos + 1 = Len(file.packets))
  BY SMT, <1>1, <1>2
<1>4. Len(reports) = pos /\ ends = file.ends
  BY <1>1, <1>3 DEF Progress
<1>5. ends' = ends /\ Len(reports') = Len(reports) + 1 => Progress'
  BY <1>3, <1>4 DEF Progress
<1> QED BY <1>3, <1>4, <1>5

(* After a record that is refused the pointer is where it was.             *)
LEMMA PointsOn ==
    ASSUME IInv, file' = file, current' = current,
           \/ pos' = pos
           \/ pos' = pos + 1 /\ pos + 1 \notin Readable
    PROVE  Points'
<1>1. file \in Captures /\ pos \in 0 .. Len(file.packets) /\ Points
  BY DEF IInv
<1>2. Readable \subseteq 1 .. Len(file.packets) /\ Len(file.packets) \in Nat
  BY <1>1, Packets
<1>3. Readable' = Readable
  BY DEF Readable
<1>4. CASE current = None
  BY <1>4 DEF Points
<1>5. CASE current # None
  <2>1. /\ current \in Readable /\ current <= pos
        /\ \A k \in Readable : k > current => k > pos
    BY <1>1, <1>5 DEF Points
  <2>2. current <= pos'
    BY SMT, <1>1, <1>2, <2>1
  <2>3. \A k \in Readable : k > current => k > pos'
    BY SMT, <1>1, <1>2, <2>1
  <2> QED BY <1>3, <2>1, <2>2, <2>3 DEF Points
<1> QED BY <1>4, <1>5

(* An iteration for a packet keeps the invariant.                          *)
LEMMA PacketKeeps == ASSUME IInv, ReadPacket PROVE IInv'
<1>1. /\ status = "running" /\ pos < Len(file.packets) /\ file' = file
      /\ pos + 1 \notin file.bad
      /\ pos' = pos + 1 /\ current' = pos + 1 /\ ends' = ends
      /\ status' \in {"running", "aborted"}
  BY DEF ReadPacket, NextPacket
<1>2. file \in Captures /\ pos \in 0 .. Len(file.packets)
  BY DEF IInv
<1>3. PICK r \in Printed(pos + 1) : reports' = Append(reports, r)
  BY <1>1 DEF ReadPacket
<1>4. /\ pos + 1 \in 1 .. Len(file.packets) /\ pos + 1 \in 0 .. Len(file.packets)
      /\ Len(reports) = pos
      /\ Len(reports') = Len(reports) + 1 => Progress'
  BY <1>1, ReadsOn
<1>5. pos + 1 \in Readable /\ Readable \subseteq 1 .. Len(file.packets)
  BY <1>1, <1>2, <1>4, Packets DEF Readable
<1>6. r \in Shown /\ Fits(r, Len(reports) + 1)
  BY <1>3, <1>4, <1>5, OfIs DEF Shown, Fits, Readable
<1>7. reports' \in Seq(Shown') /\ Len(reports') = Len(reports) + 1 /\ ReportsFollowFile'
  BY <1>1, <1>3, <1>6, OneMoreFits
<1>8. Points'
  <2>1. Readable' = Readable
    BY <1>1 DEF Readable
  <2>2. pos + 1 <= pos + 1
    BY SMT, <1>2
  <2> QED BY <1>1, <1>5, <2>1, <2>2 DEF Points
<1> QED BY <1>1, <1>2, <1>4, <1>7, <1>8 DEF IInv

(* Which report an iteration without a packet may print.                   *)
LEMMA StaleFits ==
    ASSUME IInv, NEW i \in Nat, i > pos, i \notin Readable,
           NEW r \in Wild \cup (IF current = None THEN {} ELSE Printed(current)),
           \A k \in Readable : k > pos => k >= i
    PROVE  r \in Shown /\ Fits(r, i)
<1>1. file \in Captures /\ pos \in 0 .. Len(file.packets) /\ Points
  BY DEF IInv
<1>2. Readable \subseteq 1 .. Len(file.packets) /\ Len(file.packets) \in Nat
  BY <1>1, Packets
<1>3. CASE r \in Wild
  BY <1>3, OfWild DEF Shown, Fits
<1>4. CASE r \notin Wild
  <2>1. current # None /\ r \in Printed(current)
    BY <1>4
  <2>2. /\ current \in Readable /\ current <= pos
        /\ \A k \in Readable : k > current => k > pos
    BY <1>1, <2>1 DEF Points
  <2>3. current < i
    BY SMT, <1>1, <1>2, <2>2
  <2>4. current \in Before(i)
    BY <2>2, <2>3 DEF Before
  <2> QED BY <2>1, <2>2, <2>4, OfIs DEF Shown, Fits, Readable
<1> QED BY <1>3, <1>4

(* An iteration without a packet keeps the invariant.                      *)
LEMMA FailKeeps == ASSUME IInv, ReadFails PROVE IInv'
<1>1. /\ status = "running" /\ file' = file /\ status' \in {"running", "aborted"}
      /\ NextRefused \/ NextFails
  BY DEF ReadFails, NextError
<1>2. PICK r \in Wild \cup (IF current = None THEN {} ELSE Printed(current)) :
         reports' = Append(reports, r)
  BY DEF ReadFails
<1>3. /\ file \in Captures /\ pos \in 0 .. Len(file.packets) /\ Progress
      /\ reports \in Seq(Shown)
  BY <1>1 DEF IInv
<1>4. /\ Len(file.packets) \in Nat /\ Len(reports) \in Nat
      /\ Readable \subseteq 1 .. Len(file.packets) /\ file.ends \in Endings
  BY <1>3, Packets, LenProperties
<1>5. CASE NextRefused
  <2>1. /\ pos < Len(file.packets) /\ pos' = pos + 1 /\ current' = current
        /\ ends' = ends /\ pos + 1 \notin Readable
    BY <1>5 DEF NextRefused, Readable
  <2>2. /\ pos + 1 \in 0 .. Len(file.packets) /\ Len(reports) = pos
        /\ Len(reports') = Len(reports) + 1 => Progress'
    BY <1>1, <2>1, ReadsOn
  <2>3. /\ pos + 1 \in Nat /\ pos + 1 > pos
        /\ \A k \in Readable : k > pos => k >= pos + 1
    BY SMT, <1>3, <1>4
  <2>4. r \in Shown /\ Fits(r, Len(reports) + 1)
    BY <2>1, <2>2, <2>3, StaleFits
  <2>5. reports' \in Seq(Shown') /\ Len(reports') = Len(reports) + 1 /\ ReportsFollowFile'
    BY <1>1, <1>2, <2>4, OneMoreFits
  <2>6. Points'
    BY <1>1, <2>1, PointsOn
  <2> QED BY <1>1, <1>3, <2>1, <2>2, <2>5, <2>6 DEF IInv
<1>6. CASE NextFails
  <2>1. /\ pos = Len(file.packets) /\ pos' = pos /\ current' = current
        /\ ends # "end" /\ ends' = IF ends = "cut" THEN "end" ELSE ends
    BY <1>6 DEF NextFails
  <2>2. /\ Len(reports) >= Len(file.packets)
        /\ \/ Len(reports) = Len(file.packets) /\ ends = file.ends
           \/ ends = "fails" /\ file.ends = "fails"
    <3>1. ~ (pos < Len(file.packets)) /\ Len(file.packets) >= Len(file.packets)
      BY SMT, <1>3, <1>4, <2>1
    <3> QED BY <1>3, <2>1, <3>1 DEF Progress
  <2>3. /\ Len(reports) + 1 \in Nat /\ Len(reports) + 1 > pos
        /\ Len(reports) + 1 \notin 1 .. Len(file.packets)
        /\ \A k \in 1 .. Len(file.packets) : ~ (k > pos)
    BY SMT, <1>3, <1>4, <2>1, <2>2
  <2>4. r \in Shown /\ Fits(r, Len(reports) + 1)
    BY <1>4, <2>3, StaleFits
  <2>5. reports' \in Seq(Shown') /\ Len(reports') = Len(reports) + 1 /\ ReportsFollowFile'
    BY <1>1, <1>2, <2>4, OneMoreFits
  <2>6. Points'
    BY <1>1, <2>1, PointsOn
  <2>7. Progress'
    <3>1. Len(reports) + 1 >= Len(file.packets)
      BY SMT, <1>4, <2>2
    <3>2. CASE ends = "cut"
      BY <1>1, <2>1, <2>2, <2>5, <3>2 DEF Progress
    <3>3. CASE ends = "fails"
      <4>1. file.ends = "fails" /\ ends' = "fails"
        BY <2>1, <2>2, <3>3
      <4> QED BY <1>1, <2>1, <2>5, <3>1, <4>1 DEF Progress
    <3> QED BY <1>4, <2>1, <2>2, <3>2, <3>3 DEF Endings
  <2> QED BY <1>1, <1>3, <2>1, <2>5, <2>6, <2>7 DEF IInv
<1> QED BY <1>1, <1>5, <1>6

(* Main exits: nothing more is printed.                                    *)
LEMMA ExitKeeps == ASSUME IInv, OutOfMemory PROVE IInv'
<1>1. /\ status = "running" /\ file' = file /\ reports' = reports /\ status' = "exited"
  BY DEF OutOfMemory
<1>2. /\ file \in Captures /\ pos \in 0 .. Len(file.packets)
      /\ reports \in Seq(Shown) /\ ReportsFollowFile
  BY DEF IInv
<1>3. /\ Shown' = Shown /\ Readable' = Readable /\ \A i : Before(i)' = Before(i)
  BY <1>1 DEF Shown, Wild, Printed, Readable, Before
<1>4. ReportsFollowFile'
  BY <1>1, <1>2, <1>3 DEF ReportsFollowFile
<1>5. CASE NextPacket
  <2>1. pos < Len(file.packets) /\ pos' = pos + 1 /\ current' = pos + 1 /\ pos + 1 \notin file.bad
    BY <1>5 DEF NextPacket
  <2>2. pos + 1 \in 1 .. Len(file.packets) /\ pos + 1 \in 0 .. Len(file.packets)
    BY <1>1, <2>1, ReadsOn
  <2>3. pos + 1 \in Readable /\ Readable \subseteq 1 .. Len(file.packets)
    BY <1>2, <2>1, <2>2, Packets DEF Readable
  <2>4. pos + 1 <= pos + 1
    BY SMT, <1>2
  <2>5. Points'
    BY <1>3, <2>1, <2>3, <2>4 DEF Points
  <2> QED BY <1>1, <1>2, <1>3, <1>4, <2>1, <2>2, <2>5 DEF IInv
<1>6. CASE NextRefused
  <2>1. /\ pos < Len(file.packets) /\ pos' = pos + 1 /\ current' = current
        /\ pos + 1 \notin Readable
    BY <1>6 DEF NextRefused, Readable
  <2>2. pos + 1 \in 0 .. Len(file.packets)
    BY <1>1, <2>1, ReadsOn
  <2>3. Points'
    BY <1>1, <2>1, PointsOn
  <2> QED BY <1>1, <1>2, <1>3, <1>4, <2>1, <2>2, <2>3 DEF IInv
<1>7. CASE NextFails
  <2>1. pos' = pos /\ current' = current
    BY <1>7 DEF NextFails
  <2>2. Points'
    BY <1>1, <2>1, PointsOn
  <2> QED BY <1>1, <1>2, <1>3, <1>4, <2>1, <2>2 DEF IInv
<1> QED BY <1>5, <1>6, <1>7 DEF OutOfMemory, NextError

(* The loop ends: as many reports as records, and one for a record that is  *)
(* cut off.                                                                *)
LEMMA EndKeeps == ASSUME IInv, End PROVE IInv'
<1>1. /\ status = "running" /\ pos = Len(file.packets) /\ ends = "end"
      /\ status' = "ended" /\ file' = file /\ pos' = pos /\ current' = current
      /\ reports' = reports
  BY DEF End
<1>2. /\ file \in Captures /\ pos \in 0 .. Len(file.packets) /\ Progress
      /\ reports \in Seq(Shown) /\ ReportsFollowFile
  BY <1>1 DEF IInv
<1>3. /\ Shown' = Shown /\ Readable' = Readable /\ \A i : Before(i)' = Before(i)
  BY <1>1 DEF Shown, Wild, Printed, Readable, Before
<1>4. Len(file.packets) \in Nat
  BY <1>2, Packets
<1>5. ~ (pos < Len(file.packets)) /\ Len(file.packets) + 0 = Len(file.packets)
  BY SMT, <1>1, <1>4
<1>6. Len(reports) = Len(file.packets) + (IF file.ends = "cut" THEN 1 ELSE 0)
  <2>1. \/ Len(reports) = Len(file.packets) /\ ends = file.ends
        \/ Len(reports) = Len(file.packets) + 1 /\ file.ends = "cut"
    BY <1>1, <1>2, <1>5 DEF Progress
  <2> QED BY <1>1, <1>5, <2>1
<1>7. ReportsFollowFile'
  BY <1>1, <1>2, <1>3, <1>6 DEF ReportsFollowFile
<1>8. Points'
  BY <1>1, PointsOn
<1> QED BY <1>1, <1>2, <1>3, <1>7, <1>8 DEF IInv

(* Every step of the loop keeps it.                                        *)
LEMMA Keeps == IInv /\ [Next]_vars => IInv'
<1> SUFFICES ASSUME IInv, [Next]_vars PROVE IInv'
  OBVIOUS
<1>1. CASE UNCHANGED vars
  <2>1. /\ file' = file /\ pos' = pos /\ ends' = ends /\ current' = current
        /\ reports' = reports /\ status' = status
    BY <1>1 DEF vars
  <2>2. /\ Shown' = Shown /\ (Progress' <=> Progress) /\ Readable' = Readable
        /\ \A i : Before(i)' = Before(i)
    BY <2>1 DEF Shown, Wild, Printed, Progress, Readable, Before
  <2>3. ReportsFollowFile' /\ Points'
    BY <2>1, <2>2 DEF IInv, ReportsFollowFile, Points
  <2> QED BY <2>1, <2>2, <2>3 DEF IInv
<1> QED BY <1>1, PacketKeeps, FailKeeps, ExitKeeps, EndKeeps DEF Next

(* What is printed of a capture is always what could be printed of the      *)
(* packets read so far (main.c:35-80).                                      *)
THEOREM Invariance == Spec => []IInv
<1>1. Init => IInv
  BY Begins
<1>2. IInv /\ [Next]_vars => IInv'
  BY Keeps
<1> QED BY <1>1, <1>2, PTL DEF Spec

(* The packets are printed in the order of the file, each of them once, and *)
(* a record that could not be read is counted and printed as if it were     *)
(* one: as the packet read last before it, or as what is in memory          *)
(* (main.c:35).                                                            *)
THEOREM Follows == Spec => []ReportsFollowFile
<1>1. IInv => ReportsFollowFile
  BY DEF IInv
<1> QED BY Invariance, <1>1, PTL

-----------------------------------------------------------------------------
(* What the checksums cover.                                               *)

(* A byte is a number.                                                     *)
LEMMA Bytes == \A v : v \in Byte <=> v \in Nat /\ v <= 255
  BY SMT DEF Byte

(* The fields of a header are numbers of their width.                      *)
LEMMA Numbers ==
    ASSUME NEW x \in Seq(Byte), Len(x) >= 20
    PROVE  /\ HeaderLength(x) \in Nat
           /\ Word16(x, 2) = 256 * x[3] + x[4]
           /\ Word16(x, 2) \in Nat /\ Word16(x, 2) <= MaxLength
           /\ SegLen(x) \in Nat
           /\ x[10] \in Byte
<1>1. Len(x) \in Nat /\ \A i \in 1 .. Len(x) : x[i] \in Byte
  BY LenProperties, ElementOfSeq
<1>2. 1 \in 1 .. Len(x) /\ 3 \in 1 .. Len(x) /\ 4 \in 1 .. Len(x) /\ 10 \in 1 .. Len(x)
  BY SMT, <1>1
<1>3. PICK a, b, c : a = x[1] /\ b = x[3] /\ c = x[4]
  OBVIOUS
<1>4. a \in Byte /\ b \in Byte /\ c \in Byte /\ x[10] \in Byte
  BY <1>1, <1>2, <1>3
<1>5. a \in Nat /\ b \in Nat /\ c \in Nat /\ a <= 255 /\ b <= 255 /\ c <= 255
  BY <1>4, Bytes
<1>6. PICK h, w : h = 4 * (a % 16) /\ w = 256 * b + c
  OBVIOUS
<1>7. h \in Nat /\ w \in Nat /\ w <= MaxLength
  BY SMT, <1>5, <1>6 DEF MaxLength
<1>8. HeaderLength(x) = h
  BY <1>3, <1>6 DEF HeaderLength
<1>9. 2 + 1 = 3 /\ 2 + 2 = 4
  BY SMT
<1>10. Word16(x, 2) = w
  BY <1>3, <1>6, <1>9 DEF Word16
<1>11. SegLen(x) \in Nat
  BY SMT, <1>7, <1>8, <1>10 DEF SegLen
<1> QED BY <1>3, <1>4, <1>6, <1>7, <1>8, <1>10, <1>11

(* A part of the captured bytes.                                           *)
LEMMA Part ==
    ASSUME NEW x \in Seq(Byte), NEW m \in Nat, NEW n \in Nat,
           1 <= m, m <= n + 1, n <= Len(x)
    PROVE  /\ SubSeq(x, m, n) \in Seq(Byte)
           /\ Len(SubSeq(x, m, n)) = n - m + 1
           /\ \A j \in 1 .. n - m + 1 : SubSeq(x, m, n)[j] = x[m + j - 1]
<1>1. Len(x) \in Nat /\ \A i \in 1 .. Len(x) : x[i] \in Byte
  BY LenProperties, ElementOfSeq
<1>2. m \in Int /\ n \in Int /\ \A i \in m .. n : i \in 1 .. Len(x)
  BY SMT, <1>1
<1>3. \A i \in m .. n : x[i] \in Byte
  BY <1>1, <1>2
<1>4. /\ SubSeq(x, m, n) \in Seq(Byte)
      /\ Len(SubSeq(x, m, n)) = IF m <= n THEN n - m + 1 ELSE 0
      /\ \A j \in 1 .. n - m + 1 : SubSeq(x, m, n)[j] = x[m + j - 1]
  BY <1>2, <1>3, SubSeqProperties
<1>5. (IF m <= n THEN n - m + 1 ELSE 0) = n - m + 1
  BY SMT
<1> QED BY <1>4, <1>5

(* Two parts that agree byte by byte are the same.                         *)
LEMMA SamePart ==
    ASSUME NEW x \in Seq(Byte), NEW y \in Seq(Byte), NEW m \in Nat, NEW n \in Nat,
           1 <= m, m <= n + 1, n <= Len(x), n <= Len(y),
           \A i \in m .. n : x[i] = y[i]
    PROVE  SubSeq(x, m, n) = SubSeq(y, m, n)
<1>1. /\ SubSeq(x, m, n) \in Seq(Byte)
      /\ Len(SubSeq(x, m, n)) = n - m + 1
      /\ \A j \in 1 .. n - m + 1 : SubSeq(x, m, n)[j] = x[m + j - 1]
  BY Part
<1>2. /\ SubSeq(y, m, n) \in Seq(Byte)
      /\ Len(SubSeq(y, m, n)) = n - m + 1
      /\ \A j \in 1 .. n - m + 1 : SubSeq(y, m, n)[j] = y[m + j - 1]
  BY Part
<1>3. \A j \in 1 .. n - m + 1 : m + j - 1 \in m .. n
  BY SMT
<1> QED BY <1>1, <1>2, <1>3, SeqEqual

(* f is a bytes of u, and b bytes of v behind them.                        *)
AreJoined(f, u, v, a, b) ==
    /\ f \in Seq(Byte)
    /\ Len(f) = a + b
    /\ \A i \in 1 .. a : f[i] = u[i]
    /\ \A i \in 1 .. b : f[a + i] = v[i]

LEMMA Joined ==
    ASSUME NEW u \in Seq(Byte), NEW v \in Seq(Byte),
           NEW a \in Nat, NEW b \in Nat, Len(u) = a, Len(v) = b
    PROVE  AreJoined(u \o v, u, v, a, b)
<1>1. /\ u \o v \in Seq(Byte) /\ Len(u \o v) = Len(u) + Len(v)
      /\ \A i \in 1 .. Len(u) + Len(v) :
            (u \o v)[i] = IF i <= Len(u) THEN u[i] ELSE v[i - Len(u)]
  BY ConcatProperties
<1>2. PICK f : f = u \o v
  OBVIOUS
<1>3. \A i \in 1 .. a + b : f[i] = IF i <= a THEN u[i] ELSE v[i - a]
  BY <1>1, <1>2
<1>4. /\ \A i \in 1 .. a : i \in 1 .. a + b /\ i <= a
      /\ \A i \in 1 .. b : a + i \in 1 .. a + b /\ ~ (a + i <= a) /\ (a + i) - a = i
  BY SMT
<1>5. \A i \in 1 .. a : f[i] = u[i]
  BY <1>3, <1>4
<1>6. \A i \in 1 .. b : f[a + i] = v[i]
  BY <1>3, <1>4
<1> QED BY <1>1, <1>2, <1>5, <1>6 DEF AreJoined

(* The pseudo header is 12 bytes: the addresses, 0, the protocol, the       *)
(* length of the segment.                                                  *)
IsPseudo(f, x, length) ==
    /\ f \in Seq(Byte)
    /\ Len(f) = 12
    /\ \A j \in 1 .. 8 : f[j] = x[j + 12]
    /\ f[9] = 0
    /\ f[10] = x[10]
    /\ f[11] = length \div 256
    /\ f[12] = length % 256

(* Two pairs, one behind the other.                                        *)
LEMMA Pairs ==
    ASSUME NEW a, NEW b, NEW c, NEW d
    PROVE  /\ Len(<<a, b, c, d>>) = 4
           /\ <<a, b, c, d>>[1] = a /\ <<a, b, c, d>>[2] = b
           /\ <<a, b, c, d>>[3] = c /\ <<a, b, c, d>>[4] = d
  BY SMT

LEMMA PairsOf ==
    ASSUME NEW S, NEW a \in S, NEW b \in S, NEW c \in S, NEW d \in S
    PROVE  <<a, b, c, d>> \in Seq(S) /\ <<a, b>> \in Seq(S) /\ <<c, d>> \in Seq(S)
  BY SMT

InParts(x, length) ==
    Pseudo(x, length) = (SubSeq(x, 13, 20) \o <<0, x[10]>>)
                           \o <<length \div 256, length % 256>>

(* sudoheader writes it (trace.c:222-236), in parts.                       *)
LEMMA Pseudos ==
    ASSUME NEW x \in Seq(Byte), Len(x) >= 20, NEW length \in Nat, length <= MaxLength
    PROVE  IsPseudo(Pseudo(x, length), x, length) /\ InParts(x, length)
<1>1. PICK addresses, rest, first, last :
         /\ addresses = SubSeq(x, 13, 20)
         /\ rest = <<0, x[10], length \div 256, length % 256>>
         /\ first = <<0, x[10]>>
         /\ last = <<length \div 256, length % 256>>
  OBVIOUS
<1>2. x[10] \in Byte /\ 0 \in Byte /\ length \div 256 \in Byte /\ length % 256 \in Byte
  <2>1. /\ 0 \in Nat /\ 0 <= 255
        /\ length \div 256 \in Nat /\ length \div 256 <= 255
        /\ length % 256 \in Nat /\ length % 256 <= 255
    BY SMT DEF MaxLength
  <2> QED BY <2>1, Bytes, Numbers
<1>3. rest \in Seq(Byte) /\ first \in Seq(Byte) /\ last \in Seq(Byte)
  BY ONLY <1>1, <1>2, PairsOf
<1>4. Len(rest) = 4
  BY ONLY <1>1, Pairs
<1>5. /\ rest[1] = 0 /\ rest[2] = x[10]
      /\ rest[3] = length \div 256 /\ rest[4] = length % 256
  BY ONLY <1>1, Pairs
<1>6. rest = first \o last
  <2>1. PICK a, b, c, d :
           a = 0 /\ b = x[10] /\ c = length \div 256 /\ d = length % 256
    OBVIOUS
  <2>2. <<a, b, c, d>> = <<a, b>> \o <<c, d>>
    BY ONLY SMT
  <2> QED BY ONLY <1>1, <2>1, <2>2
<1>7. /\ addresses \in Seq(Byte) /\ Len(addresses) = 8
      /\ \A j \in 1 .. 8 : addresses[j] = x[j + 12]
  <2>1. 13 \in Nat /\ 20 \in Nat /\ 1 <= 13 /\ 13 <= 20 + 1 /\ 20 - 13 + 1 = 8
    BY SMT
  <2>2. Len(x) \in Nat
    BY LenProperties
  <2>3. 20 <= Len(x)
    BY SMT, <2>2
  <2>4. /\ addresses \in Seq(Byte)
        /\ Len(addresses) = 20 - 13 + 1
        /\ \A j \in 1 .. 20 - 13 + 1 : addresses[j] = x[13 + j - 1]
    BY <1>1, <2>1, <2>3, Part
  <2>5. 20 - 13 + 1 = 8
    BY SMT
  <2>6. addresses \in Seq(Byte) /\ Len(addresses) = 8
    BY <2>4, <2>5
  <2>7. ASSUME NEW j \in 1 .. 8 PROVE addresses[j] = x[j + 12]
    <3>1. addresses[j] = x[13 + j - 1]
      BY <2>4, <2>5
    <3>2. 13 + j - 1 = j + 12
      BY SMT
    <3> QED BY <3>1, <3>2
  <2> QED BY <2>6, <2>7
<1>8. PICK f : f = addresses \o rest
  OBVIOUS
<1>9. addresses \in Seq(Byte) /\ rest \in Seq(Byte)
  BY <1>3, <1>7
<1>10. /\ f \in Seq(Byte) /\ Len(f) = 8 + 4
       /\ \A i \in 1 .. 8 : f[i] = addresses[i]
       /\ \A i \in 1 .. 4 : f[8 + i] = rest[i]
       /\ 8 + 4 = 12
  <2>1. 8 \in Nat /\ 4 \in Nat /\ 8 + 4 = 12
    BY SMT
  <2>2. Len(addresses) = 8 /\ Len(rest) = 4
    BY <1>4, <1>7
  <2>3. AreJoined(f, addresses, rest, 8, 4)
    BY ONLY <1>8, <1>9, <2>1, <2>2, Joined
  <2> QED BY ONLY <2>1, <2>3 DEF AreJoined
<1>12. f[9] = rest[1] /\ f[10] = rest[2] /\ f[11] = rest[3] /\ f[12] = rest[4]
  <2>1. \A i \in 1 .. 4 : f[8 + i] = rest[i]
    BY <1>10
  <2>2. f[8 + 1] = rest[1] /\ f[8 + 2] = rest[2] /\ f[8 + 3] = rest[3] /\ f[8 + 4] = rest[4]
    <3>1. 1 \in 1 .. 4 /\ 2 \in 1 .. 4 /\ 3 \in 1 .. 4 /\ 4 \in 1 .. 4
      BY SMT
    <3> QED BY <2>1, <3>1
  <2>3. 8 + 1 = 9 /\ 8 + 2 = 10 /\ 8 + 3 = 11 /\ 8 + 4 = 12
    BY SMT
  <2> QED BY <2>2, <2>3
<1>13. ASSUME NEW j \in 1 .. 8 PROVE f[j] = x[j + 12]
  <2>1. f[j] = addresses[j]
    BY <1>10
  <2>2. addresses[j] = x[j + 12]
    BY <1>7
  <2> QED BY <2>1, <2>2
<1>14. f \in Seq(Byte) /\ Len(f) = 12
  BY <1>10
<1>15. IsPseudo(f, x, length)
  BY <1>5, <1>12, <1>13, <1>14 DEF IsPseudo
<1>16. f = (addresses \o first) \o last
  <2>1. first \in Seq(Byte) /\ last \in Seq(Byte)
    BY <1>3
  <2>2. (addresses \o first) \o last = addresses \o (first \o last)
    BY ONLY <1>9, <2>1, ConcatAssociative
  <2> QED BY <1>6, <1>8, <2>2
<1>17. Pseudo(x, length) = f
  BY <1>1, <1>8 DEF Pseudo
<1>18. InParts(x, length)
  BY <1>1, <1>16, <1>17 DEF InParts
<1> QED BY <1>15, <1>17, <1>18

(* What the checksum of a TCP segment covers, for a datagram of n bytes     *)
(* with a header of h.                                                     *)
Covered(x, h, n) == Pseudo(x, n - h) \o SubSeq(x, h + 1, n)

(* It is the pseudo header, and from byte 13 on the segment.               *)
IsCovered(f, x, h, n) ==
    /\ f \in Seq(Byte)
    /\ Len(f) = 12 + (n - h)
    /\ \A j \in 1 .. 8 : f[j] = x[j + 12]
    /\ f[9] = 0
    /\ f[10] = x[10]
    /\ f[11] = (n - h) \div 256
    /\ f[12] = (n - h) % 256
    /\ \A j \in 1 .. n - h : f[12 + j] = x[h + j]

LEMMA CoveredIs ==
    ASSUME NEW x \in Seq(Byte), NEW h \in Nat, NEW n \in Nat,
           20 <= h, h <= n, n <= Len(x), n <= MaxLength
    PROVE  IsCovered(Covered(x, h, n), x, h, n)
<1>1. PICK head, tail, f, m : /\ head = Pseudo(x, n - h) /\ tail = SubSeq(x, h + 1, n)
                              /\ f = head \o tail /\ m = n - h
  OBVIOUS
<1>2. Len(x) \in Nat
  BY LenProperties
<1>3. m \in Nat /\ m <= MaxLength /\ Len(x) >= 20
  BY SMT, <1>1, <1>2 DEF MaxLength
<1>4. IsPseudo(head, x, m)
  BY <1>1, <1>3, Pseudos
<1>5. h + 1 \in Nat /\ 1 <= h + 1 /\ h + 1 <= n + 1 /\ n - (h + 1) + 1 = m
  BY SMT, <1>1
<1>6. /\ tail \in Seq(Byte) /\ Len(tail) = m
      /\ \A j \in 1 .. m : tail[j] = x[h + j]
  <2>1. /\ tail \in Seq(Byte)
        /\ Len(tail) = n - (h + 1) + 1
        /\ \A j \in 1 .. n - (h + 1) + 1 : tail[j] = x[(h + 1) + j - 1]
    BY <1>1, <1>5, Part
  <2>2. \A j \in 1 .. m : (h + 1) + j - 1 = h + j
    BY SMT, <1>3
  <2> QED BY <1>5, <2>1, <2>2
<1>7. head \in Seq(Byte) /\ Len(head) = 12 /\ 12 \in Nat
  BY <1>4 DEF IsPseudo
<1>8. tail \in Seq(Byte) /\ Len(tail) = m
  BY <1>6
<1>9. /\ f \in Seq(Byte) /\ Len(f) = 12 + m
      /\ \A i \in 1 .. 12 : f[i] = head[i]
      /\ \A i \in 1 .. m : f[12 + i] = tail[i]
  <2>1. head \in Seq(Byte) /\ tail \in Seq(Byte)
    BY <1>7, <1>8
  <2>2. Len(head) = 12 /\ Len(tail) = m /\ 12 \in Nat /\ m \in Nat
    BY <1>3, <1>7, <1>8
  <2>3. f = head \o tail
    BY <1>1
  <2>4. AreJoined(f, head, tail, 12, m)
    BY ONLY <2>1, <2>2, <2>3, Joined
  <2> QED BY ONLY <2>4 DEF AreJoined
<1>10. ASSUME NEW j \in 1 .. m PROVE f[12 + j] = x[h + j]
  <2>1. f[12 + j] = tail[j]
    BY <1>9
  <2>2. tail[j] = x[h + j]
    BY <1>6
  <2> QED BY <2>1, <2>2
<1>11. ASSUME NEW j \in 1 .. 8 PROVE f[j] = x[j + 12]
  <2>1. j \in 1 .. 12
    BY SMT
  <2>2. f[j] = head[j]
    BY <1>9, <2>1
  <2>3. head[j] = x[j + 12]
    BY <1>4 DEF IsPseudo
  <2> QED BY <2>2, <2>3
<1>12. f[9] = head[9] /\ f[10] = head[10] /\ f[11] = head[11] /\ f[12] = head[12]
  <2>1. 9 \in 1 .. 12 /\ 10 \in 1 .. 12 /\ 11 \in 1 .. 12 /\ 12 \in 1 .. 12
    BY SMT
  <2>2. \A i \in 1 .. 12 : f[i] = head[i]
    BY <1>9
  <2> QED BY <2>1, <2>2
<1>13. f[9] = 0 /\ f[10] = x[10] /\ f[11] = m \div 256 /\ f[12] = m % 256
  <2>1. head[9] = 0 /\ head[10] = x[10] /\ head[11] = m \div 256 /\ head[12] = m % 256
    BY <1>4 DEF IsPseudo
  <2> QED BY <1>12, <2>1
<1>14. f \in Seq(Byte) /\ Len(f) = 12 + m
  BY <1>9
<1>15. IsCovered(f, x, h, n)
  BY <1>1, <1>10, <1>11, <1>13, <1>14 DEF IsCovered
<1> QED BY <1>1, <1>15 DEF Covered

(* The lengths found in b are those of s, and so is what is covered.       *)
AreFound(s, b, h) ==
    /\ h \in Nat /\ Len(s) \in Nat /\ Len(s) <= MaxLength /\ Len(b) \in Nat
    /\ HeaderLength(b) = h
    /\ IP_layer(b) = {in_cksum(SubSeq(b, 1, h)) = 0}
    /\ b[3] = s[3] /\ b[4] = s[4] =>
          TCP_layer(b) = {in_cksum(Covered(b, h, Len(s))) = 0}

(* The program finds the lengths, and covers what the sender covered, as    *)
(* long as the bytes that hold the lengths are what was sent (trace.c:90-   *)
(* 110, 222-250).                                                          *)
LEMMA Layers ==
    ASSUME NEW s \in Seq(Byte), NEW b \in Seq(Byte), NEW h, h = HeaderLength(s),
           Len(s) >= 20, Len(b) >= Len(s), 20 <= h, h <= Len(s),
           Len(s) = Word16(s, 2), b[1] = s[1]
    PROVE  AreFound(s, b, h)
<1>1. Len(s) \in Nat /\ Len(b) \in Nat
  <2>1. Len(s) \in Nat
    BY LenProperties
  <2>2. Len(b) \in Nat
    BY LenProperties
  <2> QED BY <2>1, <2>2
<1>2. Len(b) >= 20 /\ h <= Len(b) /\ Len(s) <= Len(b)
  <2>1. h \in Nat
    BY SMT, Numbers
  <2> QED BY SMT, <1>1, <2>1
<1>3. h \in Nat /\ Word16(s, 2) = 256 * s[3] + s[4] /\ Len(s) <= MaxLength
  BY Numbers
<1>4. Word16(b, 2) = 256 * b[3] + b[4] /\ SegLen(b) \in Nat
  BY <1>2, Numbers
<1>5. HeaderLength(b) = h
  BY DEF HeaderLength
<1>6. IP_layer(b) = {in_cksum(SubSeq(b, 1, h)) = 0}
  <2>1. Len(b) \in Nat /\ SubSeq(b, 1, h) \in Seq(Byte)
    <3>1. h \in Nat /\ 1 \in Nat /\ 1 <= 1 /\ 1 <= h + 1
      BY SMT, <1>3
    <3> QED BY <1>1, <1>2, <3>1, Part
  <2>2. <<>> \o SubSeq(b, 1, h) = SubSeq(b, 1, h)
    BY <2>1, ConcatEmptySeq
  <2> QED BY <1>2, <1>5, <2>2 DEF IP_layer, Verdicts
<1>7. ASSUME b[3] = s[3], b[4] = s[4]
      PROVE  TCP_layer(b) = {in_cksum(Covered(b, h, Len(s))) = 0}
  <2>1. Word16(b, 2) = Len(s)
    BY <1>3, <1>4, <1>7
  <2>2. SegLen(b) = (Len(s) - h) % 65536
    BY SMT, <1>5, <2>1 DEF SegLen
  <2>3. /\ SegLen(b) = Len(s) - h /\ h + (Len(s) - h) = Len(s)
        /\ Len(s) - h \in Nat /\ Len(s) - h <= MaxLength
    <3>1. PICK l, found : l = Len(s) /\ found = SegLen(b)
      OBVIOUS
    <3>2. l \in Nat /\ h \in Nat /\ h <= l /\ l <= MaxLength /\ found = (l - h) % 65536
      BY <1>1, <1>3, <2>2, <3>1
    <3>3. found = l - h /\ h + (l - h) = l /\ l - h \in Nat /\ l - h <= MaxLength
      BY ONLY <3>2, SMT DEF MaxLength
    <3> QED BY ONLY <3>1, <3>3
  <2>4. /\ SegLen(b) = Len(s) - h /\ h + SegLen(b) = Len(s)
        /\ Len(s) - h \in Nat /\ Len(s) - h <= MaxLength
    BY <2>3
  <2>5. sudoheader(b) = Pseudo(b, Len(s) - h)
    <3>1. PICK m : m = Len(s) - h
      OBVIOUS
    <3>2. b \in Seq(Byte) /\ Len(b) >= 20 /\ m \in Nat /\ m <= MaxLength
      BY <1>2, <2>4, <3>1
    <3>3. InParts(b, m)
      BY ONLY <3>2, Pseudos
    <3>4. SegLen(b) = m
      BY <2>4, <3>1
    <3> QED BY <3>1, <3>3, <3>4 DEF sudoheader, InParts
  <2> QED BY <1>2, <1>5, <2>4, <2>5 DEF TCP_layer, Verdicts, Covered
<1> QED BY <1>1, <1>3, <1>5, <1>6, <1>7 DEF AreFound

(* What each layer of a datagram gives to print.                           *)
LEMMA IPReport ==
    ASSUME NEW n, NEW r \in Printed(n), NEW b, b = file.packets[n].bytes,
           file.packets[n].type = <<8, 0>>
    PROVE  /\ r.layer = LayerName[Protocol(b)] /\ r.fields = Fields(b)
           /\ r.ip \in IP_layer(b)
           /\ Protocol(b) = TCP_TYPE => r.tcp \in TCP_layer(b)
           /\ Protocol(b) # TCP_TYPE => r.tcp = TRUE
<1>1. ethernet_layer(file.packets[n].type) = 1
  BY SMT DEF ethernet_layer
<1> DEFINE p == file.packets[n]
           All == {Report(n, LayerName[Protocol(p.bytes)], Fields(p.bytes), found[1], found[2]) :
                      found \in IP_layer(p.bytes) \X
                          (IF Protocol(p.bytes) = TCP_TYPE THEN TCP_layer(p.bytes) ELSE {TRUE})}
<1>2. PICK found \in IP_layer(b) \X (IF Protocol(b) = TCP_TYPE THEN TCP_layer(b) ELSE {TRUE}) :
         r = Report(n, LayerName[Protocol(b)], Fields(b), found[1], found[2])
  <2>1. 1 # 2
    BY SMT
  <2>2. Printed(n) = All
    BY ONLY <1>1, <2>1, Zenon DEF Printed
  <2>3. r \in All
    BY <2>2
  <2> QED BY <2>3
<1>3. /\ found[1] \in IP_layer(b)
      /\ found[2] \in IF Protocol(b) = TCP_TYPE THEN TCP_layer(b) ELSE {TRUE}
  BY <1>2
<1>4. /\ r.layer = LayerName[Protocol(b)] /\ r.fields = Fields(b)
      /\ r.ip = found[1] /\ r.tcp = found[2]
  BY <1>2 DEF Report
<1> QED BY <1>3, <1>4

(* What is printed of a packet of another Ethernet type.                   *)
LEMMA OtherReport ==
    ASSUME NEW n, NEW r \in Printed(n), file.packets[n].type # <<8, 0>>
    PROVE  /\ r.ip = TRUE /\ r.tcp = TRUE
           /\ file.packets[n].type = <<8, 6>> =>
                 r.layer = "ARP" /\ r.fields = APR_protocol(file.packets[n].bytes)
           /\ file.packets[n].type # <<8, 6>> => r.layer = "?" /\ r.fields = Short
<1> DEFINE p == file.packets[n]
<1>1. CASE p.type = <<8, 6>>
  <2>1. ethernet_layer(p.type) = 2
    BY SMT, <1>1 DEF ethernet_layer
  <2>2. r \in {Report(n, "ARP", APR_protocol(p.bytes), TRUE, TRUE)}
    BY SMT, <2>1 DEF Printed
  <2> QED BY <1>1, <2>2 DEF Report
<1>2. CASE p.type # <<8, 6>>
  <2>1. ethernet_layer(p.type) = 0
    BY <1>2 DEF ethernet_layer
  <2>2. r \in {Report(n, "?", Short, TRUE, TRUE)}
    BY SMT, <2>1 DEF Printed
  <2> QED BY <1>2, <2>2 DEF Report
<1> QED BY <1>1, <1>2

(* What a layer is called.                                                 *)
LEMMA Called ==
    ASSUME NEW b
    PROVE  /\ b[10] = 6  => Protocol(b) = TCP_TYPE /\ LayerName[Protocol(b)] = "TCP"
           /\ b[10] = 17 => Protocol(b) = UDP_TYPE /\ LayerName[Protocol(b)] = "UDP"
           /\ b[10] = 1  => Protocol(b) = ICMP_TYPE /\ LayerName[Protocol(b)] = "ICMP"
           /\ b[10] # 6 /\ b[10] # 17 /\ b[10] # 1 =>
                 Protocol(b) = 4 /\ LayerName[Protocol(b)] = "?"
           /\ Protocol(b) = TCP_TYPE => b[10] = 6
           /\ LayerName[Protocol(b)] = "TCP" => b[10] = 6
<1>1. LayerName[1] = "ICMP" /\ LayerName[2] = "UDP" /\ LayerName[3] = "TCP" /\ LayerName[4] = "?"
  BY SMT DEF LayerName
<1>2. TCP_TYPE = 3 /\ UDP_TYPE = 2 /\ ICMP_TYPE = 1
  BY DEF TCP_TYPE, UDP_TYPE, ICMP_TYPE
<1>3. /\ b[10] = 6 => Protocol(b) = TCP_TYPE
      /\ b[10] = 17 => Protocol(b) = UDP_TYPE
      /\ b[10] = 1 => Protocol(b) = ICMP_TYPE
      /\ b[10] # 6 /\ b[10] # 17 /\ b[10] # 1 => Protocol(b) = 4
  BY SMT DEF Protocol
<1>4. 3 # 4 /\ 3 # 2 /\ 3 # 1
  BY SMT
<1>5. "TCP" # "UDP" /\ "TCP" # "ICMP" /\ "TCP" # "?"
  OBVIOUS
<1> QED BY <1>1, <1>2, <1>3, <1>4, <1>5

(* A datagram that arrived as it was sent.                                 *)
LEMMA WholeDatagram ==
    ASSUME file \in Captures, NEW n \in DOMAIN file.packets, NEW r \in Printed(n),
           file.packets[n].type = <<8, 0>>, IsWhole(file.packets[n])
    PROVE  /\ r.ip = TRUE /\ r.tcp = TRUE
           /\ r.layer = file.packets[n].kind /\ r.fields = file.packets[n].says
<1> DEFINE p == file.packets[n]
<1>1. PICK s, b, h : s = p.sent /\ b = p.bytes /\ h = HeaderLength(s)
  OBVIOUS
<1>2. s \in Seq(Byte) /\ b \in Seq(Byte)
  <2>1. p \in Packet
    BY Packets
  <2> QED BY <1>1, <2>1 DEF Packet
<1>3. Len(s) >= 20 /\ IsDatagram(p)
  BY <1>1, SendersAssumption
<1>4. /\ 20 <= h /\ h <= Len(s) /\ Len(s) = Word16(s, 2)
      /\ IsGood(SubSeq(s, 1, h))
  BY <1>1, <1>3 DEF IsDatagram
<1>5. Len(s) \in Nat
  BY <1>2, LenProperties
<1>6. /\ Len(b) >= Len(s) /\ \A i \in 1 .. Len(s) : b[i] = s[i]
  <2>1. Len(b) >= Len(s) /\ SubSeq(b, 1, Len(s)) = s
    BY <1>1 DEF IsWhole
  <2>2. Len(b) \in Nat
    BY <1>2, LenProperties
  <2>3. 1 \in Nat /\ 1 <= 1 /\ 1 <= Len(s) + 1 /\ Len(s) <= Len(b) /\ Len(s) - 1 + 1 = Len(s)
    BY SMT, <1>5, <2>1, <2>2
  <2>4. \A j \in 1 .. Len(s) - 1 + 1 : SubSeq(b, 1, Len(s))[j] = b[1 + j - 1]
    BY <1>2, <1>5, <2>3, Part
  <2>5. \A j \in 1 .. Len(s) : 1 + j - 1 = j
    BY SMT
  <2> QED BY <2>1, <2>3, <2>4, <2>5
<1>7. 1 \in 1 .. Len(s) /\ 3 \in 1 .. Len(s) /\ 4 \in 1 .. Len(s) /\ 10 \in 1 .. Len(s)
  BY SMT, <1>3, <1>5
<1>8. b[1] = s[1] /\ b[3] = s[3] /\ b[4] = s[4] /\ b[10] = s[10]
  BY <1>6, <1>7
<1>9. /\ h \in Nat /\ Len(s) <= MaxLength /\ Len(b) \in Nat
      /\ HeaderLength(b) = h
      /\ IP_layer(b) = {in_cksum(SubSeq(b, 1, h)) = 0}
      /\ TCP_layer(b) = {in_cksum(Covered(b, h, Len(s))) = 0}
  <2>1. h = HeaderLength(s) /\ Len(s) >= 20 /\ Len(b) >= Len(s) /\ b[1] = s[1]
    BY <1>1, <1>3, <1>6, <1>8
  <2>2. 20 <= h /\ h <= Len(s) /\ Len(s) = Word16(s, 2)
    BY <1>4
  <2>3. AreFound(s, b, h)
    BY ONLY <1>2, <2>1, <2>2, Layers
  <2>4. b[3] = s[3] /\ b[4] = s[4]
    BY <1>8
  <2> QED BY ONLY <2>3, <2>4 DEF AreFound
<1>10. Len(s) <= Len(b) /\ h <= Len(b)
  BY SMT, <1>4, <1>5, <1>6, <1>9
<1>11. /\ r.layer = LayerName[Protocol(b)] /\ r.fields = Fields(b)
       /\ r.ip \in IP_layer(b)
       /\ Protocol(b) = TCP_TYPE => r.tcp \in TCP_layer(b)
       /\ Protocol(b) # TCP_TYPE => r.tcp = TRUE
  BY <1>1, IPReport
<1>12. r.ip = TRUE
  <2>1. 1 \in Nat /\ 1 <= 1 /\ 1 <= h + 1 /\ h - 1 + 1 = h /\ h <= MaxLength
    BY SMT, <1>4, <1>5, <1>9 DEF MaxLength
  <2>2. \A i \in 1 .. h : i \in 1 .. Len(s)
    BY SMT, <1>4, <1>5, <1>9
  <2>3. \A i \in 1 .. h : b[i] = s[i]
    BY <1>6, <2>2
  <2>4. SubSeq(b, 1, h) = SubSeq(s, 1, h)
    BY <1>2, <1>4, <1>9, <1>10, <2>1, <2>3, SamePart
  <2>5. SubSeq(s, 1, h) \in Seq(Byte) /\ Len(SubSeq(s, 1, h)) <= MaxLength
    BY <1>2, <1>4, <1>9, <2>1, Part
  <2>6. in_cksum(SubSeq(b, 1, h)) = 0
    BY <1>4, <2>4, <2>5, AnswerIsRule
  <2> QED BY <1>9, <1>11, <2>6
<1>13. s[10] = 6 => IsGood(Covered(s, h, Len(s)))
  BY <1>1, <1>3 DEF IsDatagram, Covered, Segment
<1>14. r.tcp = TRUE
  <2>1. CASE Protocol(b) = TCP_TYPE
    <3>1. s[10] = 6
      BY <1>8, <2>1, Called
    <3>2. h + 1 \in Nat /\ 1 <= h + 1 /\ h + 1 <= Len(s) + 1
      BY SMT, <1>4, <1>5, <1>9
    <3>3. /\ 12 + (Len(s) - h) <= MaxLength
          /\ Len(s) <= Len(s)
          /\ \A i \in h + 1 .. Len(s) : i \in 1 .. Len(s)
      BY SMT, <1>4, <1>5, <1>9 DEF MaxLength
    <3>4. SubSeq(b, h + 1, Len(s)) = SubSeq(s, h + 1, Len(s))
      <4>1. \A i \in h + 1 .. Len(s) : b[i] = s[i]
        BY <1>6, <3>3
      <4> QED BY <1>2, <1>5, <1>10, <3>2, <3>3, <4>1, SamePart
    <3>5. SubSeq(b, 13, 20) = SubSeq(s, 13, 20)
      <4>1. /\ 13 \in Nat /\ 20 \in Nat /\ 1 <= 13 /\ 13 <= 20 + 1
            /\ 20 <= Len(s) /\ 20 <= Len(b)
            /\ \A i \in 13 .. 20 : i \in 1 .. Len(s)
        BY SMT, <1>3, <1>5, <1>9, <1>10
      <4>2. \A i \in 13 .. 20 : b[i] = s[i]
        BY <1>6, <4>1
      <4> QED BY <1>2, <4>1, <4>2, SamePart
    <3>6. Covered(b, h, Len(s)) = Covered(s, h, Len(s))
      BY <1>8, <3>4, <3>5 DEF Covered, Pseudo
    <3>7. Covered(s, h, Len(s)) \in Seq(Byte) /\ Len(Covered(s, h, Len(s))) <= MaxLength
      <4>1. PICK m : m = Len(s)
        OBVIOUS
      <4>2. h \in Nat /\ m \in Nat /\ 20 <= h /\ h <= m /\ m <= Len(s) /\ m <= MaxLength
        BY <1>4, <1>5, <1>9, <3>3, <4>1
      <4>3. IsCovered(Covered(s, h, m), s, h, m)
        BY ONLY <1>2, <4>2, CoveredIs
      <4>4. Covered(s, h, m) \in Seq(Byte) /\ Len(Covered(s, h, m)) = 12 + (m - h)
        BY ONLY <4>3 DEF IsCovered
      <4> QED BY <3>3, <4>1, <4>4
    <3>8. in_cksum(Covered(b, h, Len(s))) = 0
      BY <1>13, <3>1, <3>6, <3>7, AnswerIsRule
    <3> QED BY <1>9, <1>11, <2>1, <3>8
  <2>2. CASE Protocol(b) # TCP_TYPE
    BY <1>11, <2>2
  <2> QED BY <2>1, <2>2
<1> DEFINE segment == Segment(b)
<1>15. /\ Len(segment) = Len(b) - h
       /\ \A j \in 1 .. Len(b) - h : segment[j] = b[h + j]
  <2>1. /\ h + 1 \in Nat /\ 1 <= h + 1 /\ h + 1 <= Len(b) + 1 /\ Len(b) <= Len(b)
        /\ Len(b) - (h + 1) + 1 = Len(b) - h
    BY SMT, <1>9, <1>10
  <2>2. \A j \in 1 .. Len(b) - h : (h + 1) + j - 1 = h + j
    BY SMT, <1>9
  <2>3. PICK first, m : first = h + 1 /\ m = Len(b)
    OBVIOUS
  <2>4. b \in Seq(Byte) /\ first \in Nat /\ m \in Nat /\ 1 <= first /\ first <= m + 1 /\ m <= Len(b)
    BY <1>2, <1>9, <2>1, <2>3
  <2>5. /\ Len(SubSeq(b, first, m)) = m - first + 1
        /\ \A j \in 1 .. m - first + 1 : SubSeq(b, first, m)[j] = b[first + j - 1]
    BY ONLY <2>4, Part
  <2>6. segment = SubSeq(b, first, m)
    BY <1>9, <2>3 DEF Segment
  <2>7. m - first + 1 = Len(b) - h
    BY <2>1, <2>3
  <2>8. /\ Len(segment) = Len(b) - h
        /\ \A j \in 1 .. Len(b) - h : segment[j] = b[first + j - 1]
    BY ONLY <2>5, <2>6, <2>7
  <2> QED BY ONLY <2>2, <2>3, <2>8
<1>16. ASSUME NEW k \in Nat, h + k <= Len(s)
       PROVE  Len(segment) >= k /\ \A j \in 1 .. k : segment[j] = s[h + j]
  <2>1. Len(b) - h >= k
    BY SMT, <1>5, <1>9, <1>10, <1>16
  <2>2. \A j \in 1 .. k : j \in 1 .. Len(b) - h /\ h + j \in 1 .. Len(s)
    BY SMT, <1>5, <1>9, <1>10, <1>16
  <2> QED BY <1>6, <1>15, <2>1, <2>2
<1>17. Means(p, LayerName[Protocol(b)], Fields(b))
  <2>1. ASSUME h + 4 <= Len(s)
        PROVE  <<Word16(segment, 0), Word16(segment, 2)>> = <<Word16(s, h), Word16(s, h + 2)>>
    <3>1. /\ 4 \in Nat /\ 1 \in 1 .. 4 /\ 2 \in 1 .. 4 /\ 3 \in 1 .. 4 /\ 4 \in 1 .. 4
          /\ 0 + 1 = 1 /\ 0 + 2 = 2 /\ 2 + 1 = 3 /\ 2 + 2 = 4
          /\ (h + 2) + 1 = h + 3 /\ (h + 2) + 2 = h + 4
      BY SMT, <1>9
    <3>2. \A j \in 1 .. 4 : segment[j] = s[h + j]
      BY <1>16, <2>1, <3>1
    <3>3. segment[1] = s[h + 1] /\ segment[2] = s[h + 2]
          /\ segment[3] = s[h + 3] /\ segment[4] = s[h + 4]
      BY <3>1, <3>2
    <3> HIDE DEF segment
    <3>4. Word16(segment, 0) = Word16(s, h) /\ Word16(segment, 2) = Word16(s, h + 2)
      BY <3>1, <3>3 DEF Word16
    <3> QED BY <3>4
  <2>2. CASE s[10] = 6
    <3>1. h + 20 <= Len(s) /\ Means(p, "TCP", <<Word16(s, h), Word16(s, h + 2)>>)
      BY <1>1, <1>3, <2>2 DEF IsDatagram
    <3>2. h + 4 <= Len(s) /\ 4 \in Nat
      BY SMT, <1>5, <1>9, <3>1
    <3>3. Len(segment) >= 4
      BY <1>16, <3>2
    <3>4. Protocol(b) = TCP_TYPE /\ LayerName[Protocol(b)] = "TCP"
      BY <1>8, <2>2, Called
    <3>5. Fields(b) = <<Word16(segment, 0), Word16(segment, 2)>>
      BY SMT, <3>3, <3>4 DEF Fields, TCP_ports, TCP_TYPE, UDP_TYPE, ICMP_TYPE
    <3> QED BY <2>1, <3>1, <3>2, <3>4, <3>5
  <2>3. CASE s[10] = 17
    <3>1. h + 8 <= Len(s) /\ Means(p, "UDP", <<Word16(s, h), Word16(s, h + 2)>>)
      BY <1>1, <1>3, <2>3 DEF IsDatagram
    <3>2. h + 4 <= Len(s) /\ 4 \in Nat
      BY SMT, <1>5, <1>9, <3>1
    <3>3. Len(segment) >= 4
      BY <1>16, <3>2
    <3>4. Protocol(b) = UDP_TYPE /\ LayerName[Protocol(b)] = "UDP"
      BY <1>8, <2>3, Called
    <3>5. Fields(b) = <<Word16(segment, 0), Word16(segment, 2)>>
      BY SMT, <3>3, <3>4 DEF Fields, UDP_protocol, TCP_TYPE, UDP_TYPE, ICMP_TYPE
    <3> QED BY <2>1, <3>1, <3>2, <3>4, <3>5
  <2>4. CASE s[10] = 1
    <3>1. h < Len(s) /\ Means(p, "ICMP", <<s[h + 1]>>)
      BY <1>1, <1>3, <2>4 DEF IsDatagram
    <3>2. h + 1 <= Len(s) /\ 1 \in Nat /\ 1 \in 1 .. 1
      BY SMT, <1>5, <1>9, <3>1
    <3>3. Len(segment) >= 1 /\ segment[1] = s[h + 1]
      BY <1>16, <3>2
    <3>4. Protocol(b) = ICMP_TYPE /\ LayerName[Protocol(b)] = "ICMP"
      BY <1>8, <2>4, Called
    <3>5. Fields(b) = <<segment[1]>>
      <4>1. Protocol(b) = ICMP_TYPE /\ Len(segment) >= 1
        BY ONLY <3>3, <3>4
      <4>2. UDP_TYPE # ICMP_TYPE /\ TCP_TYPE # ICMP_TYPE
        BY SMT DEF UDP_TYPE, ICMP_TYPE, TCP_TYPE
      <4> QED BY ONLY <4>1, <4>2, Zenon DEF Fields, ICMP_protocol, segment
    <3> QED BY <3>1, <3>3, <3>4, <3>5
  <2>5. CASE s[10] # 6 /\ s[10] # 17 /\ s[10] # 1
    <3>1. Means(p, "?", <<>>)
      BY <1>1, <1>3, <2>5 DEF IsDatagram
    <3>2. Protocol(b) = 4 /\ LayerName[Protocol(b)] = "?"
      BY <1>8, <2>5, Called
    <3>3. Fields(b) = Short
      BY SMT, <3>2 DEF Fields, TCP_TYPE, UDP_TYPE, ICMP_TYPE
    <3> QED BY <3>1, <3>2, <3>3 DEF Short
  <2> QED BY <2>2, <2>3, <2>4, <2>5
<1> QED BY <1>11, <1>12, <1>14, <1>17 DEF Means

(* A datagram with one damaged byte.                                       *)
LEMMA DamagedDatagram ==
    ASSUME file \in Captures, NEW n \in DOMAIN file.packets, NEW r \in Printed(n),
           r.layer \in {"ICMP", "UDP", "TCP"},
           NEW i \in DOMAIN file.packets[n].sent \ {1}, DamagedAt(file.packets[n], i)
    PROVE  LET header == HeaderLength(file.packets[n].sent)
           IN  /\ i <= header => ~ r.ip
               /\ r.layer = "TCP" /\ (i \in 13 .. 20 \/ i > header) => ~ r.tcp
<1> DEFINE p == file.packets[n]
<1>1. PICK s, b, h : s = p.sent /\ b = p.bytes /\ h = HeaderLength(s)
  OBVIOUS
<1>2. s \in Seq(Byte) /\ b \in Seq(Byte)
  <2>1. p \in Packet
    BY Packets
  <2> QED BY <1>1, <2>1 DEF Packet
<1>3. p.type = <<8, 0>>
  <2> SUFFICES ASSUME p.type # <<8, 0>> PROVE FALSE
    OBVIOUS
  <2>1. r.layer \in {"ARP", "?"}
    BY OtherReport
  <2> QED BY <2>1
<1>4. Len(s) >= 20 /\ IsDatagram(p)
  BY <1>1, <1>3, SendersAssumption
<1>5. /\ 20 <= h /\ h <= Len(s) /\ Len(s) = Word16(s, 2)
      /\ IsGood(SubSeq(s, 1, h))
      /\ s[10] = 6 => IsGood(Covered(s, h, Len(s)))
  BY <1>1, <1>4 DEF IsDatagram, Covered, Segment
<1>6. Len(s) \in Nat /\ DOMAIN s = 1 .. Len(s)
  BY <1>2, LenProperties
<1>7. /\ Len(b) >= Len(s) /\ b[i] # s[i] /\ i \in 1 .. Len(s) /\ i # 1
      /\ \A j \in 1 .. Len(s) : j # i => b[j] = s[j]
  BY <1>1, <1>6 DEF DamagedAt
<1>8. 1 \in 1 .. Len(s) /\ 3 \in 1 .. Len(s) /\ 4 \in 1 .. Len(s) /\ 10 \in 1 .. Len(s)
  BY SMT, <1>4, <1>6
<1>9. b[1] = s[1]
  BY <1>7, <1>8
<1>10. /\ h \in Nat /\ Len(s) <= MaxLength /\ Len(b) \in Nat
       /\ HeaderLength(b) = h
       /\ IP_layer(b) = {in_cksum(SubSeq(b, 1, h)) = 0}
       /\ b[3] = s[3] /\ b[4] = s[4] =>
             TCP_layer(b) = {in_cksum(Covered(b, h, Len(s))) = 0}
  <2>1. h = HeaderLength(s) /\ Len(s) >= 20 /\ Len(b) >= Len(s) /\ b[1] = s[1]
    BY <1>1, <1>4, <1>7, <1>9
  <2>2. 20 <= h /\ h <= Len(s) /\ Len(s) = Word16(s, 2)
    BY <1>5
  <2>3. AreFound(s, b, h)
    BY ONLY <1>2, <2>1, <2>2, Layers
  <2> QED BY ONLY <2>3 DEF AreFound
<1>11. Len(s) <= Len(b) /\ h <= Len(b) /\ Len(s) <= Len(s) /\ h <= MaxLength
  BY SMT, <1>5, <1>6, <1>7, <1>10 DEF MaxLength
<1>12. /\ r.layer = LayerName[Protocol(b)]
       /\ r.ip \in IP_layer(b)
       /\ Protocol(b) = TCP_TYPE => r.tcp \in TCP_layer(b)
  BY <1>1, <1>3, IPReport
<1>13. ASSUME i <= h PROVE ~ r.ip
  <2>1. 1 \in Nat /\ 1 <= 1 /\ 1 <= h + 1 /\ h - 1 + 1 = h /\ i \in 1 .. h
        /\ \A j \in 1 .. h : j \in 1 .. Len(s) /\ 1 + j - 1 = j
    BY SMT, <1>5, <1>6, <1>7, <1>10, <1>13
  <2>2. PICK u, v : u = SubSeq(s, 1, h) /\ v = SubSeq(b, 1, h)
    OBVIOUS
  <2>3. u \in Seq(Byte) /\ Len(u) = h /\ \A j \in 1 .. h : u[j] = s[j]
    <3>1. /\ SubSeq(s, 1, h) \in Seq(Byte) /\ Len(SubSeq(s, 1, h)) = h - 1 + 1
          /\ \A j \in 1 .. h - 1 + 1 : SubSeq(s, 1, h)[j] = s[1 + j - 1]
      BY <1>2, <1>5, <1>10, <2>1, Part
    <3> QED BY <2>1, <2>2, <3>1
  <2>4. v \in Seq(Byte) /\ Len(v) = h /\ \A j \in 1 .. h : v[j] = b[j]
    <3>1. /\ SubSeq(b, 1, h) \in Seq(Byte) /\ Len(SubSeq(b, 1, h)) = h - 1 + 1
          /\ \A j \in 1 .. h - 1 + 1 : SubSeq(b, 1, h)[j] = b[1 + j - 1]
      BY <1>2, <1>10, <1>11, <2>1, Part
    <3> QED BY <2>1, <2>2, <3>1
  <2>5. in_cksum(u) = 0
    BY <1>5, <1>11, <2>2, <2>3, AnswerIsRule
  <2>6. v[i] # u[i] /\ \A j \in 1 .. h : j # i => v[j] = u[j]
    BY <1>7, <2>1, <2>3, <2>4
  <2>7. in_cksum(v) # 0
    <3>1. /\ u \in Seq(Byte) /\ v \in Seq(Byte) /\ Len(u) = h /\ Len(v) = h
          /\ h <= MaxLength /\ in_cksum(u) = 0
      BY <1>11, <2>3, <2>4, <2>5
    <3> QED BY ONLY <2>1, <2>6, <3>1, OneByteIsNoticed
  <2> QED BY <1>10, <1>12, <2>2, <2>7
<1>14. ASSUME r.layer = "TCP", i \in 13 .. 20 \/ i > h PROVE ~ r.tcp
  <2>1. b[10] = 6 /\ Protocol(b) = TCP_TYPE
    BY <1>12, <1>14, Called
  <2>2. i # 3 /\ i # 4 /\ i # 10 /\ Len(s) \in Nat /\ h \in Nat /\ i \in Nat
    BY SMT, <1>5, <1>7, <1>10, <1>14
  <2>3. b[3] = s[3] /\ b[4] = s[4] /\ b[10] = s[10]
    BY <1>7, <1>8, <2>2
  <2>4. TCP_layer(b) = {in_cksum(Covered(b, h, Len(s))) = 0}
    BY <1>10, <2>3
  <2>5. PICK u, v, m : /\ u = Covered(s, h, Len(s)) /\ v = Covered(b, h, Len(s))
                       /\ m = Len(s) - h
    OBVIOUS
  <2>6. IsCovered(u, s, h, Len(s)) /\ IsCovered(v, b, h, Len(s))
    <3>1. PICK total : total = Len(s)
      OBVIOUS
    <3>2. h \in Nat /\ total \in Nat /\ 20 <= h /\ h <= total /\ total <= MaxLength
      BY <1>5, <1>6, <1>10, <3>1
    <3>3. total <= Len(s) /\ total <= Len(b)
      BY <1>11, <3>1
    <3>4. IsCovered(Covered(s, h, total), s, h, total)
      BY ONLY <1>2, <3>2, <3>3, CoveredIs
    <3>5. IsCovered(Covered(b, h, total), b, h, total)
      BY ONLY <1>2, <3>2, <3>3, CoveredIs
    <3> QED BY ONLY <2>5, <3>1, <3>4, <3>5
  <2>7. u \in Seq(Byte) /\ v \in Seq(Byte) /\ Len(u) = 12 + m /\ Len(v) = 12 + m
    BY ONLY <2>5, <2>6 DEF IsCovered
  <2>8. \A j \in 1 .. 8 : u[j] = s[j + 12] /\ v[j] = b[j + 12]
    BY ONLY <2>6 DEF IsCovered
  <2>9. \A e \in 1 .. m : u[12 + e] = s[h + e] /\ v[12 + e] = b[h + e]
    BY ONLY <2>5, <2>6 DEF IsCovered
  <2>10. v[9] = u[9] /\ v[10] = u[10] /\ v[11] = u[11] /\ v[12] = u[12]
    BY ONLY <2>3, <2>6 DEF IsCovered
  <2>11. m \in Nat /\ 12 + m \in Nat /\ 12 + m <= MaxLength
    BY SMT, <1>5, <1>10, <2>2, <2>5 DEF MaxLength
  <2>12. in_cksum(u) = 0
    <3>1. IsGood(u) /\ Len(u) <= MaxLength /\ u \in Seq(Byte)
      BY <1>5, <2>1, <2>3, <2>5, <2>7, <2>11
    <3> QED BY ONLY <3>1, AnswerIsRule
  <2>13. ASSUME NEW k \in 1 .. 12 + m, v[k] # u[k],
                \A j \in 1 .. 12 + m : j # k => v[j] = u[j]
         PROVE  ~ r.tcp
    <3>1. PICK size : size = 12 + m
      OBVIOUS
    <3>2. /\ u \in Seq(Byte) /\ v \in Seq(Byte) /\ Len(u) = size /\ Len(v) = size
          /\ size <= MaxLength /\ in_cksum(u) = 0
      BY <2>7, <2>11, <2>12, <3>1
    <3>3. /\ k \in 1 .. size /\ v[k] # u[k]
          /\ \A j \in 1 .. size : j # k => v[j] = u[j]
      BY <2>13, <3>1
    <3>4. in_cksum(v) # 0
      BY ONLY <3>2, <3>3, OneByteIsNoticed
    <3> QED BY <1>12, <2>1, <2>4, <2>5, <3>4
  (* A byte covered is in an address, in the rest of the pseudo header, or *)
  (* in the segment.                                                       *)
  <2>14. ASSUME NEW j \in 1 .. 12 + m
         PROVE  \/ j \in 1 .. 8 \/ j \in {9, 10, 11, 12}
                \/ \E e \in 1 .. m : j = 12 + e
    <3>1. CASE j <= 12
      BY SMT, <2>11, <3>1
    <3>2. CASE ~ (j <= 12)
      <4>1. j - 12 \in 1 .. m /\ j = 12 + (j - 12)
        BY SMT, <2>11, <3>2
      <4> QED BY <4>1
    <3> QED BY <3>1, <3>2
  <2>15. /\ \A j \in 1 .. 8 : j + 12 \in 1 .. Len(s)
         /\ \A e \in 1 .. m : h + e \in 1 .. Len(s)
    BY SMT, <1>5, <2>2, <2>5
  <2>16. ASSUME NEW j \in 1 .. 12 + m, v[j] # u[j]
         PROVE  \/ j \in 1 .. 8 /\ j + 12 = i
                \/ \E e \in 1 .. m : j = 12 + e /\ h + e = i
    <3>1. CASE j \in 1 .. 8
      <4>1. b[j + 12] # s[j + 12] /\ j + 12 \in 1 .. Len(s)
        BY ONLY <2>8, <2>15, <2>16, <3>1
      <4> QED BY <1>7, <3>1, <4>1
    <3>2. CASE j \in {9, 10, 11, 12}
      BY ONLY <2>10, <2>16, <3>2
    <3>3. ASSUME NEW e \in 1 .. m, j = 12 + e
          PROVE  h + e = i
      <4>1. b[h + e] # s[h + e] /\ h + e \in 1 .. Len(s)
        BY <2>9, <2>15, <2>16, <3>3
      <4> QED BY <1>7, <4>1
    <3> QED BY <2>14, <3>1, <3>2, <3>3
  <2>17. CASE i \in 13 .. 20
    <3>1. PICK k \in 1 .. 8 : k + 12 = i
      <4>1. i - 12 \in 1 .. 8 /\ (i - 12) + 12 = i
        BY SMT, <2>17
      <4> QED BY <4>1
    <3>2. k \in 1 .. 12 + m
      BY SMT, <2>11
    <3>3. v[k] # u[k]
      BY ONLY <1>7, <2>8, <3>1
    <3>4. ASSUME NEW j \in 1 .. 12 + m, j # k PROVE v[j] = u[j]
      <4>1. j \in 1 .. 8 => j + 12 # i
        BY SMT, <3>1, <3>4
      <4>2. \A e \in 1 .. m : h + e # i
        BY SMT, <1>5, <1>10, <2>17
      <4> QED BY <2>16, <4>1, <4>2
    <3> QED BY <2>13, <3>2, <3>3, <3>4
  <2>18. CASE i > h
    <3>1. PICK e \in 1 .. m : h + e = i
      <4>1. i - h \in 1 .. m /\ h + (i - h) = i
        BY SMT, <1>7, <2>2, <2>5, <2>18
      <4> QED BY <4>1
    <3>2. PICK k : k = 12 + e
      OBVIOUS
    <3>3. k \in 1 .. 12 + m
      BY SMT, <2>11, <3>2
    <3>4. v[k] # u[k]
      <4>1. v[k] = b[i] /\ u[k] = s[i]
        BY ONLY <2>9, <3>1, <3>2
      <4> QED BY <1>7, <4>1
    <3>5. ASSUME NEW j \in 1 .. 12 + m, j # k PROVE v[j] = u[j]
      <4>1. j \in 1 .. 8 => j + 12 # i
        BY SMT, <1>5, <1>10, <2>2, <2>18
      <4>2. ASSUME NEW d \in 1 .. m, j = 12 + d PROVE h + d # i
        BY SMT, <1>10, <3>1, <3>2, <3>5, <4>2
      <4> QED BY <2>16, <4>1, <4>2
    <3> QED BY <2>13, <3>3, <3>4, <3>5
  <2> QED BY <1>14, <2>17, <2>18
<1> QED BY <1>1, <1>13, <1>14

(* A report that carries a number is of that packet.                       *)
LEMMA ReportsArePrinted ==
    ASSUME IInv, NEW k \in DOMAIN reports, reports[k].of # None
    PROVE  /\ file \in Captures /\ reports[k].of \in DOMAIN file.packets
           /\ reports[k] \in Printed(reports[k].of)
<1>1. file \in Captures /\ reports \in Seq(Shown)
  BY DEF IInv
<1>2. k \in 1 .. Len(reports)
  BY <1>1, LenProperties
<1>3. reports[k] \in Shown
  BY <1>1, <1>2, ElementOfSeq
<1>4. PICK n \in DOMAIN file.packets : reports[k] \in Printed(n)
  BY <1>3, OfWild DEF Shown
<1> QED BY <1>1, <1>4, OfIs

(* A datagram that arrived as it was sent is reported as what it is, its    *)
(* fields read where the sender put them, and found correct in both layers: *)
(* for every capture of packets as other hosts send them, with options, an  *)
(* odd length and padding (main.c:42-80, trace.c:97-107, 222-236).          *)
THEOREM Good == Spec => []GoodIsCorrect
<1>1. IInv => GoodIsCorrect
  <2> SUFFICES ASSUME IInv, NEW k \in DOMAIN reports, reports[k].of # None,
                      IsWhole(Reported(reports[k]))
               PROVE  /\ reports[k].ip /\ reports[k].tcp
                      /\ reports[k].layer = Reported(reports[k]).kind
                      /\ reports[k].fields = Reported(reports[k]).says
    BY DEF GoodIsCorrect
  <2>1. PICK r, n : r = reports[k] /\ n = reports[k].of
    OBVIOUS
  <2>2. file \in Captures /\ n \in DOMAIN file.packets /\ r \in Printed(n)
    BY <2>1, ReportsArePrinted
  <2>3. Reported(reports[k]) = file.packets[n]
    BY <2>1 DEF Reported
  <2>4. IsWhole(file.packets[n])
    BY <2>3
  <2>5. CASE file.packets[n].type = <<8, 0>>
    <3>1. /\ r.ip = TRUE /\ r.tcp = TRUE
          /\ r.layer = file.packets[n].kind /\ r.fields = file.packets[n].says
      BY <2>2, <2>4, <2>5, WholeDatagram
    <3> QED BY <2>1, <2>3, <3>1
  <2>6. CASE file.packets[n].type = <<8, 6>>
    <3>1. file.packets[n].type # <<8, 0>>
      BY SMT, <2>6
    <3>2. /\ r.ip = TRUE /\ r.tcp = TRUE
          /\ r.layer = "ARP" /\ r.fields = APR_protocol(file.packets[n].bytes)
      BY <2>2, <2>6, <3>1, OtherReport
    <3>3. PICK s, b : s = file.packets[n].sent /\ b = file.packets[n].bytes
      OBVIOUS
    <3>4. /\ Len(s) >= 8 /\ Means(file.packets[n], "ARP", <<s[8]>>)
      BY <2>2, <2>6, <3>1, <3>3, SendersAssumption
    <3>5. s \in Seq(Byte) /\ b \in Seq(Byte)
      <4>1. file.packets[n] \in Packet
        BY <2>2, Packets
      <4> QED BY <3>3, <4>1 DEF Packet
    <3>6. b[8] = s[8]
      <4>1. Len(b) >= Len(s) /\ SubSeq(b, 1, Len(s)) = s
        BY <2>4, <3>3 DEF IsWhole
      <4>2. Len(s) \in Nat /\ Len(b) \in Nat
        <5>1. Len(s) \in Nat
          BY <3>5, LenProperties
        <5>2. Len(b) \in Nat
          BY <3>5, LenProperties
        <5> QED BY <5>1, <5>2
      <4>3. /\ 1 \in Nat /\ 1 <= 1 /\ 1 <= Len(s) + 1 /\ Len(s) <= Len(b)
            /\ 8 \in 1 .. Len(s) - 1 + 1 /\ 1 + 8 - 1 = 8
        BY SMT, <3>4, <4>1, <4>2
      <4>4. \A j \in 1 .. Len(s) - 1 + 1 : SubSeq(b, 1, Len(s))[j] = b[1 + j - 1]
        BY <3>5, <4>2, <4>3, Part
      <4> QED BY <4>1, <4>3, <4>4
    <3>7. r.fields = <<s[8]>>
      BY <3>2, <3>3, <3>6 DEF APR_protocol
    <3> QED BY <2>1, <2>3, <3>2, <3>4, <3>7 DEF Means
  <2>7. CASE file.packets[n].type # <<8, 0>> /\ file.packets[n].type # <<8, 6>>
    <3>1. r.ip = TRUE /\ r.tcp = TRUE /\ r.layer = "?" /\ r.fields = Short
      BY <2>2, <2>7, OtherReport
    <3>2. Means(file.packets[n], "?", <<>>)
      BY <2>2, <2>7, SendersAssumption
    <3> QED BY <2>1, <2>3, <3>1, <3>2 DEF Means, Short
  <2> QED BY <2>5, <2>6, <2>7
<1> QED BY Invariance, <1>1, PTL

(* One damaged byte, whatever it has become, is noticed by the layer whose  *)
(* checksum covers it, an address by both; but not in the length of the IP  *)
(* header, which says what is covered (checksum.c:46-74).                   *)
THEOREM Damage == Spec => []DamageIsNoticed
<1>1. IInv => DamageIsNoticed
  <2> SUFFICES ASSUME IInv, NEW k \in DOMAIN reports, reports[k].of # None,
                      reports[k].layer \in {"ICMP", "UDP", "TCP"},
                      NEW i \in DOMAIN Reported(reports[k]).sent \ {1},
                      DamagedAt(Reported(reports[k]), i)
               PROVE  LET header == HeaderLength(Reported(reports[k]).sent)
                      IN  /\ i <= header => ~ reports[k].ip
                          /\ reports[k].layer = "TCP" /\ (i \in 13 .. 20 \/ i > header) =>
                                ~ reports[k].tcp
    BY DEF DamageIsNoticed
  <2>1. PICK r, n : r = reports[k] /\ n = reports[k].of
    OBVIOUS
  <2>2. file \in Captures /\ n \in DOMAIN file.packets /\ r \in Printed(n)
    BY <2>1, ReportsArePrinted
  <2>3. Reported(reports[k]) = file.packets[n]
    BY <2>1 DEF Reported
  <2>4. LET header == HeaderLength(file.packets[n].sent)
        IN  /\ i <= header => ~ r.ip
            /\ r.layer = "TCP" /\ (i \in 13 .. 20 \/ i > header) => ~ r.tcp
    BY <2>1, <2>2, <2>3, DamagedDatagram
  <2> QED BY <2>1, <2>3, <2>4
<1> QED BY Invariance, <1>1, PTL
=============================================================================
