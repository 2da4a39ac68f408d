------------------------------ MODULE Checksum ------------------------------
(***************************************************************************)
(* The Internet checksum as checksum.c computes it, on a machine that keeps *)
(* the low byte of a word first.  A sum of 16-bit words is folded twice and *)
(* complemented; one's complement arithmetic is arithmetic modulo 65535     *)
(* with two zeros, and only one of them is answered for a good packet.      *)
(***************************************************************************)
EXTENDS Integers, Sequences

Byte == 0 .. 255

WORD == 65536

(* Bytes are read in pairs; an odd one at the end is a low byte.  They are *)
(* added up from the first on.                                             *)
Weight(i) == IF i % 2 = 1 THEN 1 ELSE 256

Sum16(bytes) ==
    LET sum[i \in 0 .. Len(bytes)] ==
            IF i = 0 THEN 0 ELSE sum[i - 1] + Weight(i) * bytes[i]
    IN  sum[Len(bytes)]

(* sum >> 16 and sum & 0xffff, for a sum that is not negative.             *)
Fold(sum) == (sum \div WORD) + (sum % WORD)

(* Mutant: the answer is an unsigned char.                                 *)
ComplementByte(sum) == 255 - (sum % 256)

(* ~sum, truncated to 16 bits.                                             *)
Complement(sum) == WORD - 1 - (sum % WORD)

Answer(sum) == Complement(Fold(sum) + (Fold(sum) \div WORD))

in_cksum(bytes) == Answer(Sum16(bytes))

(* A word of a packet in network order.                                    *)
Word16(bytes, at) == 256 * bytes[at + 1] + bytes[at + 2]

(* The rule of the protocols, in network order: the words add up to a      *)
(* multiple of 65535, and not all of them are 0.                           *)
NetSum(bytes) ==
    LET sum[i \in 0 .. Len(bytes)] ==
            IF i = 0 THEN 0 ELSE sum[i - 1] + Weight(i + 1) * bytes[i]
    IN  sum[Len(bytes)]

IsGood(bytes) == NetSum(bytes) > 0 /\ NetSum(bytes) % 65535 = 0
=============================================================================
