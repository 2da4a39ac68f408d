------------------------------ MODULE TraceMC ------------------------------
(* Captures for Trace: packets as other hosts send them, damaged and cut.  *)
EXTENDS Trace, TLC

CONSTANT none

Replace(s, at, new) ==
    [i \in DOMAIN s |-> IF i \in at + 1 .. at + Len(new) THEN new[i - at] ELSE s[i]]

(* The checksum, stored at offset `at` of s, covers s.                     *)
Summed(s, at) ==
    LET answer == 65535 - (NetSum(s) % 65535)
    IN  Replace(s, at, <<answer \div 256, answer % 256>>)

Header(options, length, protocol) ==
    Summed(<<69 + Len(options) \div 4, 0, 0, length, 0, 0, 0, 0, 64, protocol, 0, 0>>
             \o <<10, 0, 0, 1>> \o <<10, 0, 255, 2>> \o options, 10)

Datagram(options, protocol, segment) ==
    Header(options, 20 + Len(options) + Len(segment), protocol) \o segment

(* A TCP segment from port 80 to 1025; its checksum is at offset 16.       *)
TCP(options, text) ==
    LET bare   == <<0, 80, 4, 1, 0, 0, 0, 7, 0, 0, 0, 9, 80, 16, 1, 0, 0, 0, 0, 0>> \o text
        pseudo == Pseudo(Datagram(options, 6, bare), Len(bare))
        summed == Summed(pseudo \o bare, 28)
    IN  Datagram(options, 6, SubSeq(summed, 13, Len(summed)))

Sent(kind, says, bytes) ==
    [type |-> <<8, 0>>, kind |-> kind, says |-> says, bytes |-> bytes, sent |-> bytes]

Odd     == Sent("TCP", <<80, 1025>>, TCP(<<>>, <<255, 3, 200>>))
Options == Sent("TCP", <<80, 1025>>, TCP(<<1, 1, 1, 0>>, <<>>))
Udp     == Sent("UDP", <<53, 4000>>, Datagram(<<1, 1, 1, 0>>, 17, <<0, 53, 15, 160, 0, 8, 0, 0>>))
Icmp    == Sent("ICMP", <<8>>, Datagram(<<>>, 1, <<8, 0, 247, 255>>))
Other   == Sent("?", <<>>, Datagram(<<>>, 2, <<>>))
Arp     == [Sent("ARP", <<1>>, [i \in 1 .. 28 |-> IF i = 8 THEN 1 ELSE 0])
              EXCEPT !.type = <<8, 6>>]
Unknown == [Other EXCEPT !.type = <<134, 221>>]

Damaged(p, i) == [p EXCEPT !.bytes[i] = 255 - @]
Padded(p)     == [p EXCEPT !.bytes = @ \o <<9, 9, 9>>]
Captured(p, n) == [p EXCEPT !.bytes = SubSeq(@, 1, n)]

(* A length smaller than the header's.                                     *)
Tiny == [Odd EXCEPT !.bytes[4] = 10]

Packets ==
    {Odd, Options, Udp, Icmp, Other, Arp, Unknown, Padded(Odd), Padded(Udp), Tiny,
     Captured(Odd, 41), Captured(Options, 24)}
    \cup {Damaged(Odd, i) : i \in {1, 4, 9, 17, 30, 43}}
    \cup {Damaged(Udp, 22), Damaged(Options, 23)}

(* Any two packets in a file that is whole up to its end; and a few whose   *)
(* records may be bad, in the middle too.                                   *)
Few == {<<Odd, Udp, Arp>>, <<Other, Icmp>>, <<Odd>>}

MCCaptures ==
    [packets : UNION {[1 .. n -> Packets] : n \in 0 .. 2}, bad : {{}}, ends : Endings]
    \cup UNION {[packets : {few}, bad : SUBSET DOMAIN few, ends : Endings] : few \in Few}
=============================================================================
