------------------------------- MODULE Trace -------------------------------
(***************************************************************************)
(* Program1_Trace: main reads the packets of a capture one by one and       *)
(* prints what it finds in each layer.  One iteration of its loop is one    *)
(* step: nothing else runs.  The bytes of a packet are those behind the     *)
(* Ethernet header; offsets count from 0, as in trace.h.                    *)
(***************************************************************************)
EXTENDS Checksum

CONSTANTS
    Captures,   \* files: the packets, which records are bad, how the file ends
    MaxErrors,  \* bound: packets printed that could not be read
    None

Endings == {"end", "cut", "fails"}
Layer   == {"ICMP", "UDP", "TCP", "ARP", "?"}

(* A packet has an Ethernet type and the bytes captured of what follows,    *)
(* at least the fixed part of the first header.  kind, sent and says are    *)
(* what its sender meant: the layer, the datagram before any damage, and    *)
(* the fields that are printed.                                            *)

Packet ==
    [type : {<<a, b>> : a \in Byte, b \in Byte}, bytes : Seq(Byte),
     sent : Seq(Byte), kind : Layer, says : Seq(Nat)]

ASSUME CapturesAssumption ==
    \A file \in Captures :
        /\ file.ends \in Endings
        /\ file.packets \in Seq(Packet)
        /\ file.bad \subseteq DOMAIN file.packets
        /\ \A i \in DOMAIN file.packets :
              LET p == file.packets[i]
              IN  Len(p.bytes) >= IF p.type = <<8, 6>> THEN 28 ELSE 20

ASSUME NoneAssumption == \A file \in Captures : None \notin DOMAIN file.packets

VARIABLES
    file,       \* the capture
    pos,        \* packets read
    ends,       \* what pcap_next_ex finds after them
    current,    \* number of the packet that pkt_data points to, or None
    reports,    \* what has been printed
    status      \* "running", "ended", "exited" or "aborted"

vars == <<file, pos, ends, current, reports, status>>

-----------------------------------------------------------------------------
(* The layers.                                                             *)

ethernet_layer(type) ==
    CASE type = <<8, 0>> -> 1
      [] type = <<8, 6>> -> 2
      [] OTHER           -> 0

HeaderLength(bytes) == 4 * (bytes[1] % 16)

ICMP_TYPE == 1
UDP_TYPE  == 2
TCP_TYPE  == 3

Protocol(bytes) ==
    CASE bytes[10] = 1  -> ICMP_TYPE
      [] bytes[10] = 17 -> UDP_TYPE
      [] bytes[10] = 6  -> TCP_TYPE
      [] OTHER          -> 4

(* Mutant: the length of the segment is what has been captured.            *)
SegLenCaptured(bytes) == Len(bytes) - HeaderLength(bytes)

(* A uint16_t: it wraps when the header is longer than the whole.          *)
SegLen(bytes) == (Word16(bytes, 2) - HeaderLength(bytes)) % 65536

(* The pseudo header: both addresses, a zero, the protocol, the length of  *)
(* the segment in network order.                                           *)
sudoheader(bytes) ==
    SubSeq(bytes, 13, 20) \o <<0, bytes[10]>>
        \o <<SegLen(bytes) \div 256, SegLen(bytes) % 256>>

(* What lies behind the captured bytes is anything.                        *)
Verdicts(bytes, from, to, before) ==
    IF to <= Len(bytes)
    THEN {in_cksum(before \o SubSeq(bytes, from, to)) = 0}
    ELSE BOOLEAN

IP_layer(bytes) == Verdicts(bytes, 1, HeaderLength(bytes), <<>>)

TCP_layer(bytes) ==
    Verdicts(bytes, HeaderLength(bytes) + 1,
             HeaderLength(bytes) + SegLen(bytes), sudoheader(bytes))

Segment(bytes) == SubSeq(bytes, HeaderLength(bytes) + 1, Len(bytes))

(* What is printed of each: the ports, the type, the low byte of the code. *)
UDP_protocol(segment)  == <<Word16(segment, 0), Word16(segment, 2)>>
TCP_ports(segment)     == <<Word16(segment, 0), Word16(segment, 2)>>
ICMP_protocol(segment) == <<segment[1]>>
APR_protocol(bytes)    == <<bytes[8]>>

(* Reading a field behind the captured bytes gives anything; Short stands  *)
(* for whatever it is.                                                     *)
Short == <<>>

Fields(bytes) ==
    LET segment == Segment(bytes)
    IN  CASE Protocol(bytes) = ICMP_TYPE /\ Len(segment) >= 1 -> ICMP_protocol(segment)
          [] Protocol(bytes) = UDP_TYPE  /\ Len(segment) >= 4 -> UDP_protocol(segment)
          [] Protocol(bytes) = TCP_TYPE  /\ Len(segment) >= 4 -> TCP_ports(segment)
          [] OTHER -> Short

-----------------------------------------------------------------------------
(* What other hosts send: the lengths of the header and of the whole are   *)
(* right, both checksums cover what they should, and the fields are where  *)
(* the protocols have them.                                                *)

Means(p, kind, says) == p.kind = kind /\ p.says = says

(* Both addresses, a zero, the protocol and the length of the segment.      *)
Pseudo(s, length) ==
    SubSeq(s, 13, 20) \o <<0, s[10], length \div 256, length % 256>>

IsDatagram(p) ==
    LET s == p.sent
        h == HeaderLength(s)
    IN  /\ 20 <= h /\ h <= Len(s) /\ Len(s) = Word16(s, 2)
        /\ IsGood(SubSeq(s, 1, h))
        /\ s[10] = 6 =>
              /\ h + 20 <= Len(s)
              /\ IsGood(Pseudo(s, Len(s) - h) \o Segment(s))
              /\ Means(p, "TCP", <<Word16(s, h), Word16(s, h + 2)>>)
        /\ s[10] = 17 =>
              /\ h + 8 <= Len(s)
              /\ Means(p, "UDP", <<Word16(s, h), Word16(s, h + 2)>>)
        /\ s[10] = 1 => h < Len(s) /\ Means(p, "ICMP", <<s[h + 1]>>)
        /\ s[10] \notin {6, 17, 1} => Means(p, "?", <<>>)

ASSUME SendersAssumption ==
    \A capture \in Captures : \A i \in DOMAIN capture.packets :
        LET p == capture.packets[i]
        IN  /\ p.type = <<8, 0>> => Len(p.sent) >= 20 /\ IsDatagram(p)
            /\ p.type = <<8, 6>> =>
                  Len(p.sent) >= 8 /\ Means(p, "ARP", <<p.sent[8]>>)
            /\ p.type \notin {<<8, 0>>, <<8, 6>>} => Means(p, "?", <<>>)

-----------------------------------------------------------------------------
(* What is printed.                                                        *)

Report(n, layer, fields, ip, tcp) ==
    [of |-> n, layer |-> layer, fields |-> fields, ip |-> ip, tcp |-> tcp]

LayerName == <<"ICMP", "UDP", "TCP", "?">>

(* What the body of the loop may print for packet n.                       *)
Printed(n) ==
    LET p == file.packets[n]
        b == p.bytes
    IN  CASE ethernet_layer(p.type) = 1 ->
               {Report(n, LayerName[Protocol(b)], Fields(b), found[1], found[2]) :
                   found \in IP_layer(b) \X
                       (IF Protocol(b) = TCP_TYPE THEN TCP_layer(b) ELSE {TRUE})}
          [] ethernet_layer(p.type) = 2 ->
               {Report(n, "ARP", APR_protocol(b), TRUE, TRUE)}
          [] OTHER -> {Report(n, "?", Short, TRUE, TRUE)}

-----------------------------------------------------------------------------
Init ==
    /\ file \in Captures
    /\ pos = 0
    /\ ends = file.ends
    /\ current = None
    /\ reports = <<>>
    /\ status = "running"

(* pcap_next_ex sets pkt_data when it answers a packet, and leaves it       *)
(* alone when it cannot read one.                                          *)
NextPacket ==
    /\ pos < Len(file.packets)
    /\ pos + 1 \notin file.bad
    /\ pos' = pos + 1
    /\ current' = pos + 1
    /\ UNCHANGED ends

(* A record that libpcap refuses is an error, and the next call goes on    *)
(* behind it.                                                              *)
NextRefused ==
    /\ pos < Len(file.packets)
    /\ pos + 1 \in file.bad
    /\ pos' = pos + 1
    /\ UNCHANGED <<ends, current>>

(* Mutant: the packet cut off is found again.                              *)
NextFailsAgain ==
    /\ pos = Len(file.packets)
    /\ ends # "end"
    /\ UNCHANGED <<ends, pos, current>>

(* A packet cut off at the end of the file is an error once, a file that    *)
(* cannot be read is one for ever.                                         *)
NextFails ==
    /\ pos = Len(file.packets)
    /\ ends # "end"
    /\ ends' = IF ends = "cut" THEN "end" ELSE ends
    /\ UNCHANGED <<pos, current>>

(* pcap_next_ex answers -1.                                                *)
NextError ==
    /\ Len(reports) < Len(file.packets) + MaxErrors
    /\ NextRefused \/ NextFails

(* TCP_layer makes the block of the pseudo header longer and keeps its new *)
(* address to itself; main frees the old one.  When realloc has moved the  *)
(* block that is a second free, and the C library ends the process.        *)
MayMove(n) ==
    LET p == file.packets[n]
    IN  /\ ethernet_layer(p.type) = 1
        /\ Protocol(p.bytes) = TCP_TYPE
        /\ SegLen(p.bytes) > 0

(* What may be printed when pkt_data points to bytes of no packet, or of    *)
(* one that was not wholly read: any layer, with any verdict that is        *)
(* printed for it.                                                         *)
Wild ==
    {Report(None, layer, Short, ip, TRUE) : layer \in Layer \ {"ARP"}, ip \in BOOLEAN}
    \cup {Report(None, "TCP", Short, ip, FALSE) : ip \in BOOLEAN}
    \cup {Report(None, "ARP", Short, TRUE, TRUE)}

(* Mutant: the number of the packet before is kept.                        *)
ReadPacketLate ==
    /\ status = "running"
    /\ NextPacket
    /\ \E r \in Printed(IF pos = 0 THEN 1 ELSE pos) : reports' = Append(reports, r)
    /\ status' \in {"running"} \cup (IF MayMove(current') THEN {"aborted"} ELSE {})
    /\ UNCHANGED file

(* An iteration for a packet: it is printed, and the block freed.          *)
ReadPacket ==
    /\ status = "running"
    /\ NextPacket
    /\ \E r \in Printed(current') : reports' = Append(reports, r)
    /\ status' \in {"running"} \cup (IF MayMove(current') THEN {"aborted"} ELSE {})
    /\ UNCHANGED file

(* An iteration without one, since the loop tests for -2 only: what         *)
(* pkt_data points to is printed.  That is the packet before, as far as the *)
(* record has not overwritten it, or nothing that can be read.              *)
ReadFails ==
    /\ status = "running"
    /\ NextError
    /\ \E r \in Wild \cup (IF current = None THEN {} ELSE Printed(current)) :
          reports' = Append(reports, r)
    /\ status' \in {"running", "aborted"}
    /\ UNCHANGED file

(* malloc or realloc find no memory, for a packet or for what is printed    *)
(* without one: main exits; what it has printed of the packet so far counts *)
(* for nothing.                                                            *)
OutOfMemory ==
    /\ status = "running"
    /\ \/ NextPacket /\ ethernet_layer(file.packets[current'].type) = 1
       \/ NextError
    /\ status' = "exited"
    /\ UNCHANGED <<file, reports>>

End ==
    /\ status = "running"
    /\ pos = Len(file.packets)
    /\ ends = "end"
    /\ status' = "ended"
    /\ UNCHANGED <<file, pos, ends, current, reports>>

Next == ReadPacket \/ ReadFails \/ OutOfMemory \/ End

(* The program is scheduled.                                               *)
Spec == Init /\ [][Next]_vars /\ WF_vars(Next)
-----------------------------------------------------------------------------
(* The datagram was captured whole, and as it was sent, whatever padding    *)
(* follows it.                                                             *)
IsWhole(p) ==
    /\ Len(p.bytes) >= Len(p.sent)
    /\ SubSeq(p.bytes, 1, Len(p.sent)) = p.sent

DamagedAt(p, i) ==
    /\ Len(p.bytes) >= Len(p.sent)
    /\ p.bytes[i] # p.sent[i]
    /\ \A j \in DOMAIN p.sent \ {i} : p.bytes[j] = p.sent[j]

Reported(r) == file.packets[r.of]

(* A datagram that arrived as it was sent is reported as what it is, its    *)
(* fields read where the sender put them, and found correct in both layers: *)
(* with options, an odd length and padding (main.c:42-80, trace.c:97-107,   *)
(* 222-236).                                                               *)
GoodIsCorrect ==
    \A i \in DOMAIN reports :
        LET r == reports[i]
        IN  r.of # None /\ IsWhole(Reported(r)) =>
              /\ r.ip /\ r.tcp
              /\ r.layer = Reported(r).kind
              /\ r.fields = Reported(r).says

(* One damaged byte is noticed by the layer whose checksum covers it, an    *)
(* address by both; but not in the length of the IP header, which says what *)
(* is covered (checksum.c:59-73).                                          *)
DamageIsNoticed ==
    \A k \in DOMAIN reports :
        LET r == reports[k]
        IN  r.of # None /\ r.layer \in {"ICMP", "UDP", "TCP"} =>
              \A i \in DOMAIN Reported(r).sent \ {1} :
                  LET header == HeaderLength(Reported(r).sent)
                  IN  DamagedAt(Reported(r), i) =>
                        /\ i <= header => ~ r.ip
                        /\ r.layer = "TCP" /\ (i \in 13 .. 20 \/ i > header) => ~ r.tcp

Readable == DOMAIN file.packets \ file.bad

(* The packet read last before iteration i.                                *)
Before(i) ==
    {j \in Readable : j < i /\ \A k \in Readable : k > j => k >= i}

(* The packets are printed in the order of the file, each of them once, and *)
(* a record that could not be read is counted and printed as if it were     *)
(* one: as the packet read last before it, or as what is in memory          *)
(* (main.c:35).                                                            *)
ReportsFollowFile ==
    /\ \A i \in DOMAIN reports :
          IF i \in Readable THEN reports[i].of = i
                            ELSE reports[i].of \in {None} \cup Before(i)
    /\ status = "ended" =>
          Len(reports) = Len(file.packets) + (IF file.ends = "cut" THEN 1 ELSE 0)

(* The program ends, unless the file cannot be read: then it goes on for    *)
(* ever (main.c:35), whatever main.c:33 says of the end.                   *)
EndsWithFile == <>(status # "running" \/ file.ends = "fails")
=============================================================================
