------------------------- MODULE SelectRejectProofs -------------------------
(***************************************************************************)
(* Proofs about SelectReject: the inductive invariant IInv and what        *)
(* follows from it, for any number of clients, files of any length and any *)
(* behaviour of the network.                                               *)
(***************************************************************************)
EXTENDS SelectReject, SequenceTheorems, TLAPS

-----------------------------------------------------------------------------
(* Sequences.                                                              *)

(* A sequence without its k-th element.                                    *)
LEMMA RemoveAtType ==
    ASSUME NEW S, NEW s \in Seq(S), NEW k \in 1 .. Len(s)
    PROVE  RemoveAt(s, k) \in Seq(S)
<1>1. /\ Len(s) \in Nat
      /\ \A j \in 1 .. Len(s) : s[j] \in S
  BY LenProperties, ElementOfSeq
<1>2. SubSeq(s, 1, k - 1) \in Seq(S)
  BY <1>1, SubSeqProperties
<1>3. SubSeq(s, k + 1, Len(s)) \in Seq(S)
  BY <1>1, SubSeqProperties
<1> QED
  BY <1>2, <1>3, ConcatProperties DEF RemoveAt

(* A prefix grows by the next element.                                     *)
LEMMA AppendToPrefix ==
    ASSUME NEW S, NEW s \in Seq(S), NEW t \in Seq(S),
           IsPrefix(s, t), Len(s) + 1 \in DOMAIN t
    PROVE  IsPrefix(Append(s, t[Len(s) + 1]), t)
<1> DEFINE n == Len(s) + 1
           u == Append(s, t[n])
<1>1. /\ Len(s) \in Nat
      /\ Len(t) \in Nat
      /\ n \in 1 .. Len(t)
      /\ t[n] \in S
  BY LenProperties, ElementOfSeq
<1>2. /\ u \in Seq(S)
      /\ Len(u) = n
      /\ \A j \in 1 .. Len(s) : u[j] = s[j]
      /\ u[n] = t[n]
  BY <1>1, AppendProperties
<1>3. ASSUME NEW j \in 1 .. Len(s) PROVE s[j] = t[j]
  <2>1. SubSeq(s, 1, Len(s)) = SubSeq(t, 1, Len(s))
    BY DEF IsPrefix
  <2>2. SubSeq(s, 1, Len(s))[j] = s[j]
    BY <1>1, SubSeqProperties, ElementOfSeq
  <2>3. SubSeq(t, 1, Len(s))[j] = t[j]
    BY <1>1, SubSeqProperties, ElementOfSeq
  <2> QED
    BY <2>1, <2>2, <2>3
<1>4. ASSUME NEW j \in 1 .. n PROVE u[j] = t[j]
  BY <1>1, <1>2, <1>3
<1>5. SubSeq(u, 1, n) = u
  BY <1>2, SubSeqFull
<1>6. /\ SubSeq(t, 1, n) \in Seq(S)
      /\ Len(SubSeq(t, 1, n)) = n
      /\ \A j \in 1 .. n : SubSeq(t, 1, n)[j] = t[j]
  BY <1>1, SubSeqProperties, ElementOfSeq
<1>7. SubSeq(t, 1, n) = u
  BY <1>2, <1>4, <1>6, SeqEqual
<1> QED
  BY <1>1, <1>2, <1>5, <1>7 DEF IsPrefix

(* The empty prefix.                                                       *)
LEMMA EmptyIsPrefix ==
    ASSUME NEW S, NEW t \in Seq(S)
    PROVE  IsPrefix(<<>>, t)
<1>1. Len(<<>>) = 0 /\ Len(t) \in Nat
  BY EmptySeq, LenProperties
<1>2. SubSeq(<<>>, 1, 0) = <<>>
  BY SubSeqEmpty
<1>3. SubSeq(t, 1, 0) = <<>>
  BY SubSeqEmpty
<1> QED
  BY <1>1, <1>2, <1>3 DEF IsPrefix

-----------------------------------------------------------------------------
(* What the calls of the network code do to a network of good packets.     *)

(* A corrupted good packet is good.                                        *)
LEMMA CorruptedGood ==
    ASSUME NEW a \in Address, NEW out, NEW p \in Good(a, out)
    PROVE  Corrupted(p) \in Good(a, out)
BY ServerAssumption DEF Good, Packet, Load, FLAG, Address, Main, Corrupted, createHeader

(* Sending a good packet, whatever becomes of it.                          *)
LEMMA SendKeepsGood ==
    ASSUME NEW q, NEW out, NEW a \in Address, NEW o \in Outcome,
           NEW p \in Good(a, out), QueueOK(q, out)
    PROVE  /\ QueueOK(safeSendto(q, a, p, o), out)
           /\ DOMAIN safeSendto(q, a, p, o) = DOMAIN q
<1> DEFINE r == safeSendto(q, a, p, o)
<1>1. Copies(p, o) \in Seq(Good(a, out))
  <2>1. Corrupted(p) \in Good(a, out)
    BY CorruptedGood
  <2> QED
    BY <2>1, FaultsAssumption DEF Copies, Outcome
<1>2. CASE r = q
  BY <1>2
<1>3. CASE a \in DOMAIN q /\ r = [q EXCEPT ![a] = @ \o Copies(p, o)]
  <2>1. q[a] \o Copies(p, o) \in Seq(Good(a, out))
    BY <1>1, <1>3, ConcatProperties DEF QueueOK
  <2> QED
    BY <1>3, <2>1 DEF QueueOK
<1> QED
  BY <1>2, <1>3 DEF safeSendto

(* Receiving a packet.                                                     *)
LEMMA ReceiveKeepsGood ==
    ASSUME NEW q, NEW out, NEW a \in DOMAIN q, NEW k \in 1 .. Len(q[a]),
           QueueOK(q, out)
    PROVE  /\ QueueOK(safeRecvfrom(q, a, k), out)
           /\ DOMAIN safeRecvfrom(q, a, k) = DOMAIN q
           /\ q[a][k] \in Good(a, out)
<1>1. q[a] \in Seq(Good(a, out))
  BY DEF QueueOK
<1>2. /\ RemoveAt(q[a], k) \in Seq(Good(a, out))
      /\ q[a][k] \in Good(a, out)
  BY <1>1, RemoveAtType, ElementOfSeq
<1> QED
  BY <1>2 DEF QueueOK, safeRecvfrom

(* Opening and closing sockets.                                            *)
LEMMA OpenKeepsGood ==
    ASSUME NEW q, NEW out, NEW a \in Address, QueueOK(q, out)
    PROVE  /\ QueueOK(OpenSocket(q, a), out)
           /\ DOMAIN OpenSocket(q, a) = DOMAIN q \cup {a}
BY EmptySeq DEF QueueOK, OpenSocket

(* Closing a socket loses packets and makes none.                          *)
LEMMA CloseKeepsGood ==
    ASSUME NEW q, NEW out, NEW a, QueueOK(q, out)
    PROVE  /\ QueueOK(CloseSocket(q, a), out)
           /\ DOMAIN CloseSocket(q, a) = DOMAIN q \ {a}
BY DEF QueueOK, CloseSocket

(* Packets stay good while the clients get more blocks.                    *)
LEMMA GrowthKeepsGood ==
    ASSUME NEW q, NEW out, NEW new, QueueOK(q, out),
           \A c \in Clients : /\ Len(out[c]) \in Nat
                              /\ Len(new[c]) \in Nat
                              /\ Len(out[c]) <= Len(new[c])
    PROVE  /\ QueueOK(q, new)
           /\ \A a : Good(a, out) \subseteq Good(a, new)
<1>1. \A a : Good(a, out) \subseteq Good(a, new)
  BY DEF Good
<1> QED
  BY <1>1, SeqMonotonic DEF QueueOK

-----------------------------------------------------------------------------
(* The initial states.                                                     *)

(* The initial states satisfy the inductive invariant.                     *)
LEMMA InitIInv == Init => IInv
<1> SUFFICES ASSUME Init PROVE IInv
  OBVIOUS
<1>1. Unborn \in ChildRecord
  BY DEF Unborn, ChildRecord, ChildState, ChildMessage, Address, Main, Load,
         Packet, FLAG, createHeader, START_SEQ_NUM
<1>2. \A S : <<>> \in Seq(S) /\ Len(<<>>) = 0
  BY EmptySeq
<1>3. /\ DOMAIN queue = {Main}
      /\ queue[Main] = <<>>
      /\ Main \in Address
  BY DEF Init, Main, Address
<1>4. QueueOK(queue, Has)
  BY <1>2, <1>3 DEF QueueOK
<1>5. TypeOK
  <2>1. \A a \in DOMAIN queue : queue[a] \in Seq(Packet)
    BY <1>2, <1>3
  <2>2. output \in [Clients -> Seq(Block)]
    BY <1>2 DEF Init, RcopyInit
  <2>3. /\ cstate \in [Clients -> ClientState]
        /\ said \in [Clients -> ClientMessage]
    BY DEF Init, RcopyInit, ClientState, ClientMessage
  <2>4. /\ expected \in [Clients -> Nat]
        /\ data_buf \in [Clients -> Load]
    BY DEF Init, RcopyInit, START_SEQ_NUM, Load
  <2> QED
    BY <1>1, <1>3, <2>1, <2>2, <2>3, <2>4 DEF TypeOK, Init, RcopyInit, ServerInit
<1>6. ASSUME NEW c \in Clients PROVE ClientOK(c)
  <2>1. output[c] = <<>> /\ expected[c] = 1 /\ cstate[c] = "START_STATE"
    BY DEF Init, RcopyInit, START_SEQ_NUM
  <2>2. IsPrefix(<<>>, File[c])
    BY FileAssumption, EmptyIsPrefix
  <2>3. Len(<<>>) = 0
    BY EmptySeq
  <2> QED
    BY <2>1, <2>2, <2>3 DEF ClientOK
<1>7. ASSUME NEW i \in ChildId PROVE ChildOK(i)
  <2>1. child[i] = Unborn
    BY DEF Init, ServerInit
  <2>2. Unborn.state = "UNBORN" /\ Unborn.seq = 1
    BY DEF Unborn, START_SEQ_NUM
  <2> QED
    BY <2>1, <2>2 DEF ChildOK
<1>8. SocketsOK
  BY <1>3 DEF SocketsOK, Unborn, Init, RcopyInit, ServerInit
<1> QED
  BY <1>4, <1>5, <1>6, <1>7, <1>8 DEF IInv

-----------------------------------------------------------------------------
(* Steps of a client.  All but two leave alone what the client has and the *)
(* number it expects: for those it is enough to look at the network and at *)
(* the client's own state.                                                 *)

(* What the clients have is in the output file, except around RR_SENT.     *)
LEMMA HasFrame ==
    ASSUME UNCHANGED <<output, data_buf>>,
           \A d \in Clients : cstate'[d] = "RR_SENT" <=> cstate[d] = "RR_SENT"
    PROVE  Has' = Has
BY DEF Has

(* What a client has is at least what is in its output file.               *)
LEMMA HasType ==
    ASSUME IInv, NEW c \in Clients
    PROVE  /\ Len(output[c]) \in Nat
           /\ cstate[c] # "RR_SENT" => Has[c] = output[c]
           /\ cstate[c] = "RR_SENT" =>
                 /\ Has[c] = Append(output[c], File[c][expected[c]])
                 /\ Has[c] \in Seq(Block)
                 /\ Len(Has[c]) = Len(output[c]) + 1
           /\ Len(Has[c]) \in Nat
<1>1. /\ output[c] \in Seq(Block)
      /\ Len(output[c]) \in Nat
      /\ ClientOK(c)
  BY LenProperties DEF IInv, TypeOK
<1>2. CASE cstate[c] # "RR_SENT"
  BY <1>1, <1>2 DEF Has
<1>3. CASE cstate[c] = "RR_SENT"
  <2>1. /\ data_buf[c] = File[c][expected[c]]
        /\ Has[c] = Append(output[c], data_buf[c])
        /\ expected[c] \in DOMAIN File[c]
    BY <1>1, <1>3 DEF Has, ClientOK
  <2>2. File[c][expected[c]] \in Block
    BY <2>1, FileAssumption, ElementOfSeq, LenProperties
  <2> QED
    BY <1>1, <1>3, <2>1, <2>2, AppendProperties
<1> QED
  BY <1>2, <1>3

LEMMA ClientFrame ==
    ASSUME IInv, NEW c \in Clients, UNCHANGED serverVars,
           UNCHANGED <<output, data_buf, expected>>,
           cstate[c] # "RR_SENT", cstate'[c] # "RR_SENT",
           QueueOK(queue', Has),
           DOMAIN queue \ {Me(c)} \subseteq DOMAIN queue',
           cstate' \in [Clients -> ClientState],
           sock' \in [Clients -> Nat],
           \A d \in Clients \ {c} : cstate'[d] = cstate[d] /\ sock'[d] = sock[d],
           cstate'[c] \in {"START_STATE", "FILENAME", "FILE_OK"} =>
               cstate[c] \in {"START_STATE", "FILENAME", "FILE_OK"},
           cstate'[c] \in {"FILENAME", "FILE_OK", "RECV_DATA",
                          "EOF_ACK_SENT"} =>
               Me(c)' \in DOMAIN queue',
           cretry' \in [Clients -> Nat],
           PDUs' \in [Clients -> [Slot -> Nat]],
           said' \in [Clients -> ClientMessage]
    PROVE  IInv'
<1> USE DEF serverVars
<1>0. Has' = Has
  BY HasFrame
<1>1. TypeOK'
  <2>1. \A a \in DOMAIN queue' : queue'[a] \in Seq(Packet)
    <3>1. \A a : Good(a, Has) \subseteq Packet
      BY DEF Good
    <3> QED
      BY <3>1, SeqMonotonic DEF QueueOK
  <2> QED
    BY <2>1 DEF IInv, TypeOK, QueueOK
<1>2. QueueOK(queue', Has')
  BY <1>0
<1>3. ASSUME NEW d \in Clients PROVE ClientOK(d)'
  BY DEF IInv, TypeOK, ClientOK
<1>4. ASSUME NEW i \in ChildId PROVE ChildOK(i)'
  BY <1>0 DEF IInv, ChildOK
<1>5. SocketsOK'
  <2>1. listening' => Main \in DOMAIN queue'
    BY ServerAssumption DEF IInv, SocketsOK, Main, Me
  <2>2. ASSUME NEW d \in Clients,
               cstate'[d] \in {"FILENAME", "FILE_OK", "RECV_DATA", "RR_SENT",
                              "EOF_ACK_SENT"}
        PROVE  Me(d)' \in DOMAIN queue'
    <3>1. CASE d = c
      BY <2>2, <3>1 DEF IInv, TypeOK
    <3>2. CASE d # c
      BY <2>2, <3>2 DEF IInv, TypeOK, SocketsOK, Me
    <3> QED
      BY <3>1, <3>2
  <2>3. ASSUME NEW i \in ChildId,
               child'[i].state \notin {"UNBORN", "FILENAME", "DONE"}
        PROVE  Child(i) \in DOMAIN queue'
    BY <2>3, ServerAssumption DEF IInv, SocketsOK, Child, Me
  <2> QED
    BY <2>1, <2>2, <2>3 DEF SocketsOK, Child, Main
<1> QED
  BY <1>1, <1>2, <1>3, <1>4, <1>5 DEF IInv

(* What a client that may receive finds in its socket.                     *)
LEMMA ClientSocket ==
    ASSUME IInv, NEW c \in Clients,
           cstate[c] \in {"FILENAME", "FILE_OK", "RECV_DATA", "RR_SENT",
                         "EOF_ACK_SENT"}
    PROVE  /\ Me(c) \in Address
           /\ Me(c) \in DOMAIN queue
           /\ \A k \in Arrivals(Me(c)) :
                 /\ k \in 1 .. Len(queue[Me(c)])
                 /\ queue[Me(c)][k] \in Good(Me(c), Has)
                 /\ QueueOK(safeRecvfrom(queue, Me(c), k), Has)
                 /\ DOMAIN safeRecvfrom(queue, Me(c), k) = DOMAIN queue
<1>1. Me(c) \in DOMAIN queue
  BY DEF IInv, SocketsOK
<1>2. QueueOK(queue, Has)
  BY DEF IInv
<1>3. \A k \in Arrivals(Me(c)) : k \in 1 .. Len(queue[Me(c)])
  BY DEF Arrivals
<1>4. \A k \in 1 .. Len(queue[Me(c)]) :
         /\ queue[Me(c)][k] \in Good(Me(c), Has)
         /\ QueueOK(safeRecvfrom(queue, Me(c), k), Has)
         /\ DOMAIN safeRecvfrom(queue, Me(c), k) = DOMAIN queue
  BY <1>1, <1>2, ReceiveKeepsGood
<1> QED
  BY <1>1, <1>2, <1>3, <1>4 DEF QueueOK

(* The answer of a client is a good packet for whoever sent the packet it  *)
(* answers, if it acknowledges nothing but what the client has.            *)
LEMMA AnswerKeepsGood ==
    ASSUME NEW out, QueueOK(queue, out),
           NEW c \in Clients, sock[c] \in Nat, Me(c) \in DOMAIN queue,
           NEW k \in 1 .. Len(queue[Me(c)]), NEW o \in Outcome,
           NEW flag \in {"RR", "SREJ", "EOF_ACK"}, NEW load \in Nat,
           flag = "RR" => load \in 0 .. Len(out[c])
    PROVE  /\ QueueOK(Answer(c, k, flag, load, o), out)
           /\ DOMAIN Answer(c, k, flag, load, o) = DOMAIN queue
<1> DEFINE p == queue[Me(c)][k]
           q == safeRecvfrom(queue, Me(c), k)
           r == createHeader(flag, 0, load, Me(c))
<1>1. /\ p \in Good(Me(c), out)
      /\ QueueOK(q, out)
      /\ DOMAIN q = DOMAIN queue
  BY ReceiveKeepsGood
<1>2. p.from \in Address /\ p.from[1] = Server /\ p.from # Main
  BY <1>1 DEF Good, Packet, Me, Main
<1>3. r \in Packet
  BY DEF createHeader, Packet, FLAG, Load, Address, Me
<1>4. r \in Good(p.from, out)
  BY <1>2, <1>3, ServerAssumption DEF Good, createHeader, Me
<1>5. /\ QueueOK(safeSendto(q, p.from, r, o), out)
      /\ DOMAIN safeSendto(q, p.from, r, o) = DOMAIN q
  BY <1>1, <1>2, <1>4, SendKeepsGood
<1> QED
  BY <1>1, <1>5 DEF Answer

(* The end of a client with the network in state q.                        *)
LEMMA ExitIInv ==
    ASSUME IInv, NEW c \in Clients, UNCHANGED serverVars,
           UNCHANGED <<sock, expected, output, data_buf, PDUs>>,
           cstate[c] # "RR_SENT",
           cretry' \in [Clients -> Nat],
           NEW q, QueueOK(q, Has), DOMAIN q = DOMAIN queue,
           NEW message \in ClientMessage, Exit(c, message, q)
    PROVE  IInv'
<1>1. /\ QueueOK(CloseSocket(q, Me(c)), Has)
      /\ DOMAIN CloseSocket(q, Me(c)) = DOMAIN q \ {Me(c)}
  BY CloseKeepsGood
<1> QED
  BY <1>1, ClientFrame DEF Exit, Goto, IInv, TypeOK, ClientState

(* The actions of start_state, filename and file_ok that receive nothing.  *)
LEMMA ClientOpens ==
    ASSUME IInv, NEW c \in Clients, UNCHANGED serverVars,
           \/ \E o \in Outcome : StartState(c, o)
           \/ StartStateSendFails(c)
           \/ StartStateNoHost(c)
           \/ FilenameGiveUp(c)
           \/ FilenameTimeout(c)
           \/ FileOk(c)
           \/ FileOkFails(c)
    PROVE  IInv'
<1>0. /\ cstate \in [Clients -> ClientState]
      /\ sock \in [Clients -> Nat]
      /\ cretry \in [Clients -> Nat]
      /\ output \in [Clients -> Seq(Block)]
      /\ PDUs \in [Clients -> [Slot -> Nat]]
      /\ said \in [Clients -> ClientMessage]
  BY DEF IInv, TypeOK
<1>1. QueueOK(queue, Has) /\ Me(c) \in Address
  BY <1>0 DEF IInv, Me, Address
<1>2. /\ QueueOK(CloseSocket(queue, Me(c)), Has)
      /\ DOMAIN CloseSocket(queue, Me(c)) = DOMAIN queue \ {Me(c)}
  BY <1>1, CloseKeepsGood
<1>3. ASSUME NEW o \in Outcome, StartState(c, o) PROVE IInv'
  <2> DEFINE new == <<c, sock[c] + 1>>
             q == OpenSocket(CloseSocket(queue, Me(c)), new)
             p == createHeader("FNAME", 0, c, new)
  <2>1. new \in Address /\ Main \in Address
    BY <1>0 DEF Address, Main
  <2>2. /\ QueueOK(q, Has)
        /\ DOMAIN q = (DOMAIN queue \ {Me(c)}) \cup {new}
    BY <1>2, <2>1, OpenKeepsGood
  <2>3. p \in Good(Main, Has)
    BY <2>1, ServerAssumption
       DEF Good, createHeader, Packet, FLAG, Load, Main
  <2>4. /\ QueueOK(safeSendto(q, Main, p, o), Has)
        /\ DOMAIN safeSendto(q, Main, p, o) = DOMAIN q
    BY <2>1, <2>2, <2>3, SendKeepsGood
  <2>5. queue' = safeSendto(q, Main, p, o)
    BY <1>3 DEF StartState
  <2>6. Me(c)' = new
    BY <1>0, <1>3 DEF StartState, Me
  <2>7. /\ UNCHANGED <<cretry, expected, output, data_buf, PDUs, said>>
        /\ cstate' = [cstate EXCEPT ![c] = "FILENAME"]
        /\ sock' = [sock EXCEPT ![c] = @ + 1]
        /\ cstate[c] = "START_STATE"
    BY <1>3 DEF StartState, Goto
  <2>8. /\ cstate' \in [Clients -> ClientState]
        /\ cstate'[c] = "FILENAME"
        /\ sock' \in [Clients -> Nat]
    BY <1>0, <2>7 DEF ClientState
  <2>9. /\ QueueOK(queue', Has)
        /\ DOMAIN queue \ {Me(c)} \subseteq DOMAIN queue'
        /\ Me(c)' \in DOMAIN queue'
    BY <2>2, <2>4, <2>5, <2>6
  <2> QED
    BY <1>0, <2>7, <2>8, <2>9, ClientFrame
<1>4. CASE StartStateNoHost(c)
  BY <1>0, <1>1, <1>4, ExitIInv DEF StartStateNoHost, ClientMessage
<1>9. CASE StartStateSendFails(c)
  BY <1>0, <1>1, <1>9, ExitIInv DEF StartStateSendFails, ClientMessage
<1>5. CASE FilenameGiveUp(c)
  <2>1. cretry' = [cretry EXCEPT ![c] = @ + 1]
    BY <1>5 DEF FilenameGiveUp
  <2>2. cretry' \in [Clients -> Nat]
    BY <1>0, <2>1
  <2> QED
    BY <1>0, <1>1, <1>5, <2>2, ExitIInv DEF FilenameGiveUp, ClientMessage
<1>6. CASE FilenameTimeout(c)
  <2>1. /\ cretry' = [cretry EXCEPT ![c] = @ + 1]
        /\ cstate' = [cstate EXCEPT ![c] = "START_STATE"]
        /\ cstate[c] = "FILENAME"
        /\ UNCHANGED <<queue, sock, expected, output, data_buf, PDUs, said>>
    BY <1>6 DEF FilenameTimeout, Goto
  <2>2. /\ cretry' \in [Clients -> Nat]
        /\ cstate' \in [Clients -> ClientState]
        /\ cstate'[c] = "START_STATE"
    BY <1>0, <2>1 DEF ClientState
  <2> QED
    BY <1>0, <1>1, <2>1, <2>2, ClientFrame
<1>7. CASE FileOk(c)
  <2>1. output' = output
    BY <1>0, <1>7 DEF FileOk, IInv, ClientOK
  <2>2. Me(c) \in DOMAIN queue /\ Me(c)' = Me(c)
    BY <1>7, ClientSocket DEF FileOk, Me
  <2> QED
    BY ZenonT(30), <1>0, <1>1, <1>7, <2>1, <2>2, ClientFrame
       DEF FileOk, Goto, ClientState
<1>8. CASE FileOkFails(c)
  BY <1>0, <1>1, <1>8, ExitIInv DEF FileOkFails, ClientMessage
<1> QED
  BY <1>3, <1>4, <1>5, <1>6, <1>7, <1>8, <1>9

(* The receipt of a packet in filename and of a corrupted one in recv_data *)
LEMMA ClientHears ==
    ASSUME IInv, NEW c \in Clients, UNCHANGED serverVars,
           cstate[c] \in {"FILENAME", "RECV_DATA"},
           NEW k \in Arrivals(Me(c)),
           \/ FilenameCorrupt(c, k)
           \/ FilenameBad(c, k)
           \/ FilenameOk(c, k)
           \/ RecvDataCorrupt(c, k)
    PROVE  IInv'
<1> DEFINE q == safeRecvfrom(queue, Me(c), k)
<1>1. /\ QueueOK(q, Has)
      /\ DOMAIN q = DOMAIN queue
      /\ Me(c) \in DOMAIN queue
  BY ClientSocket
<1> HIDE DEF q
<1>2. sock' = sock => Me(c)' = Me(c)
  BY DEF Me
<1>5. CASE FilenameOk(c, k)
  <2>1. /\ queue' = q
        /\ cstate[c] = "FILENAME"
        /\ cstate' = [cstate EXCEPT ![c] = "FILE_OK"]
        /\ cretry' = [cretry EXCEPT ![c] = 0]
        /\ UNCHANGED <<sock, expected, output, data_buf, PDUs, said>>
    BY <1>5 DEF FilenameOk, FilenameReady, Goto, q
  <2>2. /\ cstate' \in [Clients -> ClientState]
        /\ cstate'[c] = "FILE_OK"
        /\ cretry' \in [Clients -> Nat]
        /\ PDUs \in [Clients -> [Slot -> Nat]]
        /\ sock \in [Clients -> Nat]
        /\ said \in [Clients -> ClientMessage]
    BY <2>1 DEF IInv, TypeOK, ClientState
  <2> QED
    BY <1>1, <1>2, <2>1, <2>2, ClientFrame
<1> USE DEF IInv, TypeOK, ClientState, ClientMessage, Goto, FilenameReady
<1>3. CASE FilenameCorrupt(c, k)
  BY <1>1, <1>2, <1>3, ClientFrame DEF FilenameCorrupt, q
<1>4. CASE FilenameBad(c, k)
  BY <1>1, <1>4, ExitIInv DEF FilenameBad, q
<1>6. CASE RecvDataCorrupt(c, k)
  BY ZenonT(30), <1>1, <1>2, <1>6, ClientFrame DEF RecvDataCorrupt, rcopyVars, q
<1> QED
  BY <1>3, <1>4, <1>5, <1>6

(* The actions of recv_data that answer.  A block that is acknowledged for *)
(* the first time is, by its number and because the packet is good, the    *)
(* next one of the file.                                                   *)
LEMMA ClientReceivesData ==
    ASSUME IInv, NEW c \in Clients, UNCHANGED serverVars,
           NEW k \in Arrivals(Me(c)), NEW o \in Outcome, RecvData(c, k, o)
    PROVE  IInv'
<1> DEFINE p == queue[Me(c)][k]
<1>0. /\ cstate \in [Clients -> ClientState]
      /\ sock \in [Clients -> Nat]
      /\ cretry \in [Clients -> Nat]
      /\ expected \in [Clients -> Nat]
      /\ output \in [Clients -> Seq(Block)]
      /\ data_buf \in [Clients -> Load]
      /\ PDUs \in [Clients -> [Slot -> Nat]]
      /\ said \in [Clients -> ClientMessage]
      /\ QueueOK(queue, Has)
      /\ expected[c] = Len(output[c]) + 1
      /\ IsPrefix(output[c], File[c])
  BY DEF IInv, TypeOK, ClientOK
<1>1. cstate[c] = "RECV_DATA"
  BY DEF RecvData, RecvEndOfFile, RecvOld, RecvExpected, RecvAhead, NotEndOfFile
<1>2. /\ Me(c) \in DOMAIN queue
      /\ k \in 1 .. Len(queue[Me(c)])
      /\ p \in Good(Me(c), Has)
  BY <1>1, ClientSocket
<1>3. p.seq \in Nat
  BY <1>2 DEF Good, Packet
<1>4. Len(output[c]) \in Nat /\ Has[c] = output[c]
  BY <1>1, HasType
<1>5. \A flag \in {"RR", "SREJ", "EOF_ACK"}, load \in Nat :
        (flag = "RR" => load <= Len(output[c])) =>
           /\ QueueOK(Answer(c, k, flag, load, o), Has)
           /\ DOMAIN Answer(c, k, flag, load, o) = DOMAIN queue
  BY <1>0, <1>2, <1>4, AnswerKeepsGood
<1>6. CASE RecvEndOfFile(c, k, o)
  <2>1. /\ QueueOK(Answer(c, k, "EOF_ACK", 0, o), Has)
        /\ DOMAIN Answer(c, k, "EOF_ACK", 0, o) = DOMAIN queue
    BY <1>5
  <2>2. /\ queue' = Answer(c, k, "EOF_ACK", 0, o)
        /\ cstate' = [cstate EXCEPT ![c] = "EOF_ACK_SENT"]
        /\ UNCHANGED <<sock, cretry, expected, output, data_buf, PDUs, said>>
    BY <1>6 DEF RecvEndOfFile, Goto
  <2>3. cstate' \in [Clients -> ClientState] /\ cstate'[c] = "EOF_ACK_SENT"
    BY <1>0, <2>2 DEF ClientState
  <2> QED
    BY <1>0, <1>1, <1>2, <2>1, <2>2, <2>3, ClientFrame DEF Me
<1>7. CASE RecvOld(c, k, o)
  <2>1. p.seq <= Len(output[c])
    BY <1>0, <1>3, <1>4, <1>7 DEF RecvOld
  <2>2. /\ QueueOK(queue', Has)
        /\ DOMAIN queue' = DOMAIN queue
    BY <1>3, <1>5, <1>7, <2>1 DEF RecvOld
  <2>3. UNCHANGED rcopyVars
    BY <1>7 DEF RecvOld, NotEndOfFile, rcopyVars
  <2> QED
    BY <1>0, <1>1, <1>2, <2>2, <2>3, ClientFrame DEF rcopyVars, Me
<1>8. CASE RecvAhead(c, k, o)
  <2> DEFINE answer == Answer(c, k, "SREJ", SrejByte(p.seq), o)
  <2>1. SrejByte(p.seq) \in Nat
    BY <1>3 DEF SrejByte
  <2>2. QueueOK(answer, Has) /\ DOMAIN answer = DOMAIN queue
    BY <1>5, <2>1
  <2>3. UNCHANGED <<sock, cretry, expected, output, data_buf, said>>
    BY <1>8 DEF RecvAhead, NotEndOfFile
  <2>4. CASE WindowSize = 0
    <3>1. /\ QueueOK(CloseSocket(answer, Me(c)), Has)
          /\ DOMAIN CloseSocket(answer, Me(c)) = DOMAIN answer \ {Me(c)}
      BY <2>2, CloseKeepsGood
    <3>2. /\ queue' = CloseSocket(answer, Me(c))
          /\ cstate' = [cstate EXCEPT ![c] = "CRASHED"]
          /\ PDUs' = PDUs
      BY <1>8, <2>4 DEF RecvAhead, Goto
    <3> QED
      BY <1>0, <1>1, <2>2, <2>3, <3>1, <3>2, ClientFrame DEF ClientState
  <2>5. CASE WindowSize # 0
    <3>1. /\ queue' = answer
          /\ cstate' = cstate
          /\ PDUs' = [PDUs EXCEPT ![c][p.seq % WindowSize] = p.seq]
      BY <1>8, <2>5 DEF RecvAhead
    <3>2. PDUs' \in [Clients -> [Slot -> Nat]]
      BY <1>0, <1>3, <3>1
    <3> QED
      BY <1>0, <1>1, <1>2, <2>2, <2>3, <3>1, <3>2, ClientFrame DEF Me
  <2> QED
    BY <2>4, <2>5
<1>9. CASE RecvExpected(c, k, o)
  <2>1. /\ data_buf' = [data_buf EXCEPT ![c] = p.load]
        /\ cstate' = [cstate EXCEPT ![c] = "RR_SENT"]
        /\ queue' = Answer(c, k, "RR", p.seq, o)
        /\ p.seq = expected[c]
        /\ p.flag \notin {"CRC_ERROR", "END_OF_FILE"}
        /\ UNCHANGED <<sock, cretry, expected, output, PDUs, said>>
    BY <1>9 DEF RecvExpected, NotEndOfFile, Goto
  <2>2. p.seq = Len(output[c]) + 1
    BY <1>0, <2>1
  <2>3. p.seq \in DOMAIN File[c] /\ p.load = File[c][p.seq]
    BY <1>2, <1>4, <2>1, <2>2 DEF Good, Me
  <2>4. File[c][p.seq] \in Block
    BY <2>3, FileAssumption, ElementOfSeq, LenProperties
  <2>5. /\ data_buf' \in [Clients -> Load]
        /\ cstate' \in [Clients -> ClientState]
        /\ cstate'[c] = "RR_SENT"
        /\ data_buf'[c] = File[c][expected[c]]
    BY <1>0, <2>1, <2>3, <2>4 DEF Load, ClientState
  <2>6. \A d \in Clients : /\ Len(Has[d]) \in Nat
                           /\ Len(Has'[d]) \in Nat
                           /\ Len(Has[d]) <= Len(Has'[d])
    <3>1. ASSUME NEW d \in Clients, d # c PROVE Has'[d] = Has[d]
      BY <1>0, <2>1, <3>1 DEF Has
    <3>2. Has'[c] = Append(output[c], File[c][p.seq])
      BY <2>1, <2>5 DEF Has
    <3>3. output[c] \in Seq(Block)
      BY <1>0
    <3>4. Len(Has'[c]) = Len(output[c]) + 1
      BY <2>4, <3>2, <3>3, AppendProperties
    <3> QED
      BY <1>4, <3>1, <3>4, HasType
  <2>7. /\ QueueOK(queue, Has')
        /\ \A a : Good(a, Has) \subseteq Good(a, Has')
    BY <1>0, <2>6, GrowthKeepsGood
  <2>8. /\ QueueOK(queue', Has')
        /\ DOMAIN queue' = DOMAIN queue
    <3>1. p.seq \in 0 .. Len(Has'[c])
      <4>1. Has'[c] = Append(output[c], File[c][p.seq])
        BY <2>1, <2>5 DEF Has
      <4>2. output[c] \in Seq(Block)
        BY <1>0
      <4>3. Len(Has'[c]) = Len(output[c]) + 1
        BY <2>4, <4>1, <4>2, AppendProperties
      <4> QED
        BY <1>3, <1>4, <2>2, <4>3
    <3>2. sock[c] \in Nat
      BY <1>0
    <3>3. \A flag \in {"RR", "SREJ", "EOF_ACK"} :
            /\ QueueOK(Answer(c, k, flag, p.seq, o), Has')
            /\ DOMAIN Answer(c, k, flag, p.seq, o) = DOMAIN queue
      BY <1>2, <1>3, <2>7, <3>1, <3>2, AnswerKeepsGood
    <3> QED
      BY <2>1, <3>3
  <2>9. TypeOK'
    <3>1. \A a \in DOMAIN queue' : queue'[a] \in Seq(Packet)
      <4>1. \A a : Good(a, Has') \subseteq Packet
        BY DEF Good
      <4> QED
        BY <4>1, <2>8, SeqMonotonic DEF QueueOK
    <3> QED
      BY <1>0, <2>1, <2>5, <2>8, <3>1 DEF QueueOK, TypeOK, IInv, serverVars
  <2>10. ASSUME NEW d \in Clients PROVE ClientOK(d)'
    <3>1. CASE d = c
      BY <1>0, <2>1, <2>3, <2>5, <3>1 DEF ClientOK
    <3>2. CASE d # c
      BY <1>0, <2>1, <3>2 DEF IInv, ClientOK
    <3> QED
      BY <3>1, <3>2
  <2>11. ASSUME NEW i \in ChildId PROVE ChildOK(i)'
    BY <2>7 DEF IInv, ChildOK, serverVars
  <2>12. SocketsOK'
    BY <1>0, <1>2, <2>1, <2>8 DEF IInv, SocketsOK, serverVars, Me
  <2> QED
    BY <2>8, <2>9, <2>10, <2>11, <2>12 DEF IInv
<1> QED
  BY <1>6, <1>7, <1>8, <1>9 DEF RecvData

(* The block that was acknowledged is written: the client has what it had. *)
LEMMA ClientWrites ==
    ASSUME IInv, NEW c \in Clients, UNCHANGED serverVars, WriteBlock(c)
    PROVE  IInv'
<1> DEFINE n == expected[c]
<1>1. /\ cstate[c] = "RR_SENT"
      /\ expected' = [expected EXCEPT ![c] = @ + 1]
      /\ output' = [output EXCEPT ![c] = Append(@, data_buf[c])]
      /\ cstate' = [cstate EXCEPT ![c] = "RECV_DATA"]
      /\ UNCHANGED <<queue, sock, cretry, data_buf, PDUs, said>>
  BY DEF WriteBlock, Goto
<1>2. /\ cstate \in [Clients -> ClientState]
      /\ expected \in [Clients -> Nat]
      /\ output \in [Clients -> Seq(Block)]
      /\ output[c] \in Seq(Block)
      /\ QueueOK(queue, Has)
      /\ n = Len(output[c]) + 1
      /\ IsPrefix(output[c], File[c])
      /\ n \in DOMAIN File[c]
      /\ data_buf[c] = File[c][n]
  BY <1>1 DEF IInv, TypeOK, ClientOK
<1>3. File[c] \in Seq(Block) /\ File[c][n] \in Block
  BY <1>2, FileAssumption, ElementOfSeq, LenProperties
<1>4. /\ cstate' \in [Clients -> ClientState]
      /\ cstate'[c] = "RECV_DATA"
      /\ output'[c] = Append(output[c], File[c][n])
      /\ expected'[c] = n + 1
      /\ expected' \in [Clients -> Nat]
  BY <1>1, <1>2 DEF ClientState
<1>5. /\ output'[c] \in Seq(Block)
      /\ Len(output'[c]) = Len(output[c]) + 1
  BY <1>2, <1>3, <1>4, AppendProperties
<1>6. IsPrefix(output'[c], File[c])
  BY <1>2, <1>3, <1>4, AppendToPrefix
<1>7. output' \in [Clients -> Seq(Block)]
  BY <1>1, <1>2, <1>3, <1>5
<1>8. Has' = Has
  BY <1>1, <1>2 DEF Has
<1>9. TypeOK'
  BY <1>1, <1>4, <1>7 DEF IInv, TypeOK, serverVars
<1>10. ASSUME NEW d \in Clients PROVE ClientOK(d)'
  <2>1. CASE d = c
    BY <1>2, <1>4, <1>5, <1>6, <2>1 DEF ClientOK
  <2>2. CASE d # c
    BY <1>1, <1>2, <2>2 DEF IInv, ClientOK
  <2> QED
    BY <2>1, <2>2
<1>11. ASSUME NEW i \in ChildId PROVE ChildOK(i)'
  BY <1>8 DEF IInv, ChildOK, serverVars
<1>12. SocketsOK'
  BY <1>1, <1>2 DEF IInv, SocketsOK, serverVars, Me
<1>13. QueueOK(queue, Has)'
  BY <1>1, <1>2, <1>8
<1> QED
  BY <1>9, <1>10, <1>11, <1>12, <1>13 DEF IInv

(* Every step of a client.                                                 *)
LEMMA ClientStepIInv ==
    ASSUME IInv, NEW c \in Clients, ClientStep(c), UNCHANGED serverVars
    PROVE  IInv'
<1>1. ASSUME RecvDataTimeout(c) \/ FileDone(c) PROVE IInv'
  BY <1>1, ExitIInv
     DEF RecvDataTimeout, FileDone, ClientMessage, IInv, TypeOK
<1>2. ASSUME NEW k \in Arrivals(Me(c)), RecvDataSendFails(c, k) PROVE IInv'
  BY <1>2, ExitIInv DEF RecvDataSendFails, ClientMessage, IInv, TypeOK
<1>3. ASSUME cstate[c] \in {"FILENAME", "RECV_DATA"},
             NEW k \in Arrivals(Me(c)), ClientReceives(c, k)
      PROVE  IInv'
  BY <1>2, <1>3, ClientHears, ClientReceivesData DEF ClientReceives
<1> QED
  BY <1>1, <1>3, ClientOpens, ClientWrites DEF ClientStep

-----------------------------------------------------------------------------
(* Steps of the server.  They leave the clients alone: it is enough to     *)
(* look at the network, at the main process and at the child that moves.   *)

LEMMA ServerFrame ==
    ASSUME IInv, UNCHANGED rcopyVars, QueueOK(queue', Has),
           listening' \in BOOLEAN,
           listening' => Main \in DOMAIN queue',
           \A c \in Clients : Me(c) \in DOMAIN queue => Me(c) \in DOMAIN queue',
           child' \in [ChildId -> ChildRecord],
           \A i \in ChildId :
              \/ child'[i] = child[i]
              \/ ChildOK(i)',
           \A i \in ChildId :
              child'[i].state \notin {"UNBORN", "FILENAME", "DONE"} =>
                  Child(i) \in DOMAIN queue'
    PROVE  IInv'
<1> USE DEF rcopyVars
<1>0. Has' = Has
  BY DEF Has
<1>1. TypeOK'
  <2>1. \A a \in DOMAIN queue' : queue'[a] \in Seq(Packet)
    <3>1. \A a : Good(a, Has) \subseteq Packet
      BY DEF Good
    <3> QED
      BY <3>1, SeqMonotonic DEF QueueOK
  <2> QED
    BY <2>1 DEF IInv, TypeOK, QueueOK
<1>2. ASSUME NEW c \in Clients PROVE ClientOK(c)'
  BY DEF IInv, ClientOK
<1>3. ASSUME NEW i \in ChildId PROVE ChildOK(i)'
  BY <1>0 DEF IInv, ChildOK
<1>4. SocketsOK'
  BY DEF IInv, SocketsOK, Me, Child, Main
<1> QED
  BY <1>0, <1>1, <1>2, <1>3, <1>4 DEF IInv

(* A step of a child need only be looked at for that child.                *)
LEMMA ChildFrame ==
    ASSUME IInv, NEW i \in ChildId, UNCHANGED <<rcopyVars, listening>>,
           QueueOK(queue', Has),
           DOMAIN queue \ {Child(i)} \subseteq DOMAIN queue',
           child' \in [ChildId -> ChildRecord],
           \A j \in ChildId \ {i} : child'[j] = child[j],
           ChildOK(i)',
           child'[i].state \notin {"UNBORN", "FILENAME", "DONE"} =>
               Child(i) \in DOMAIN queue'
    PROVE  IInv'
<1>1. i # 0
  BY MaxChildAssumption DEF ChildId
<1>2. listening' => Main \in DOMAIN queue'
  BY <1>1 DEF IInv, SocketsOK, Child, Main
<1>3. \A c \in Clients : Me(c) \in DOMAIN queue => Me(c) \in DOMAIN queue'
  BY ServerAssumption DEF Me, Child
<1>4. ASSUME NEW j \in ChildId,
             child'[j].state \notin {"UNBORN", "FILENAME", "DONE"}
      PROVE  Child(j) \in DOMAIN queue'
  BY <1>4 DEF IInv, SocketsOK, Child
<1> QED
  BY <1>2, <1>3, <1>4, ServerFrame DEF IInv, TypeOK

(* A packet on the main port, and the process forked for it.               *)
LEMMA MainStepIInv ==
    ASSUME IInv, MainStep, UNCHANGED rcopyVars
    PROVE  IInv'
<1>0. /\ listening
      /\ Main \in DOMAIN queue
      /\ QueueOK(queue, Has)
      /\ child \in [ChildId -> ChildRecord]
      /\ Main \in Address
  BY DEF MainStep, IInv, SocketsOK, TypeOK, Main, Address
<1>1. PICK k \in Arrivals(Main) :
           \/ \E i \in ChildId : Fork(i, k)
           \/ ForkFails(k)
           \/ MainCorrupt(k)
  BY DEF MainStep
<1>2. k \in 1 .. Len(queue[Main])
  BY DEF Arrivals
<1> DEFINE p == queue[Main][k]
           q == safeRecvfrom(queue, Main, k)
<1>3. /\ QueueOK(q, Has)
      /\ DOMAIN q = DOMAIN queue
      /\ p \in Good(Main, Has)
  BY <1>0, <1>2, ReceiveKeepsGood
<1>4. ASSUME NEW i \in ChildId, Fork(i, k) PROVE IInv'
  <2>1. /\ p.flag # "CRC_ERROR"
        /\ queue' = q
        /\ listening' = listening
        /\ child[i].state = "UNBORN"
        /\ child' = [child EXCEPT ![i] =
               [@ EXCEPT !.state = "FILENAME",
                         !.remote = p.from, !.fname = p.load]]
    BY <1>4 DEF Fork, NextChild
  <2>2. /\ p.from \in Address
        /\ p.load \in Load
        /\ p.from[1] \in Clients
        /\ p.load = p.from[1]
    BY <1>3, <2>1 DEF Good, Packet, Main
  <2>3. child' \in [ChildId -> ChildRecord]
    BY ZenonT(30), <1>0, <2>1, <2>2 DEF ChildRecord, ChildState
  <2>4. /\ child'[i].state = "FILENAME"
        /\ child'[i].remote = p.from
        /\ child'[i].fname = p.load
        /\ child'[i].seq = child[i].seq
    BY <1>0, <2>1 DEF ChildRecord
  <2>5. ChildOK(i)'
    BY <2>2, <2>4 DEF IInv, ChildOK
  <2> QED
    BY <1>3, <2>1, <2>3, <2>4, <2>5, ChildFrame
<1>5. CASE ForkFails(k)
  <2>1. /\ QueueOK(CloseSocket(queue, Main), Has)
        /\ DOMAIN CloseSocket(queue, Main) = DOMAIN queue \ {Main}
    BY <1>0, CloseKeepsGood
  <2>2. /\ queue' = CloseSocket(queue, Main)
        /\ listening' = FALSE
        /\ child' = child
    BY <1>5 DEF ForkFails
  <2>3. \A c \in Clients : Me(c) # Main
    BY ServerAssumption DEF Me, Main
  <2>4. \A i \in ChildId : Child(i) # Main
    BY MaxChildAssumption DEF Child, Main, ChildId
  <2> QED
    BY <1>0, <2>1, <2>2, <2>3, <2>4, ServerFrame DEF IInv, SocketsOK
<1>6. CASE MainCorrupt(k)
  BY <1>0, <1>3, <1>6, ServerFrame DEF MainCorrupt, serverVars, IInv, SocketsOK
<1> QED
  BY <1>1, <1>4, <1>5, <1>6

(* A child goes on, with the network in state queue'.                      *)
LEMMA ChildGotoIInv ==
    ASSUME IInv, NEW i \in ChildId, UNCHANGED rcopyVars,
           child[i].state # "UNBORN",
           NEW s \in ChildState \ {"UNBORN", "FILENAME", "DONE"},
           NEW p \in Packet, NEW n \in Nat \ {0}, NEW r \in Nat,
           s # "SEND_DATA" => p \in Good(child[i].remote, Has),
           ChildGoto(i, s, p, n, r),
           QueueOK(queue', Has),
           DOMAIN queue \ {Child(i)} \subseteq DOMAIN queue',
           Child(i) \in DOMAIN queue'
    PROVE  IInv'
<1>0. child \in [ChildId -> ChildRecord]
  BY DEF IInv, TypeOK
<1>1. /\ listening' = listening
      /\ child' = [child EXCEPT ![i] =
             [@ EXCEPT !.state = s, !.packet = p, !.seq = n, !.retry = r]]
  BY DEF ChildGoto
<1>2. child' \in [ChildId -> ChildRecord]
  BY <1>0, <1>1 DEF ChildRecord
<1>3. /\ child'[i].state = s
      /\ child'[i].packet = p
      /\ child'[i].seq = n
      /\ child'[i].remote = child[i].remote
      /\ child'[i].fname = child[i].fname
  BY <1>0, <1>1 DEF ChildRecord
<1>4. ChildOK(i)'
  <2>1. Has' = Has
    BY DEF Has, rcopyVars
  <2> QED
    BY <1>3, <2>1 DEF IInv, ChildOK
<1>5. \A j \in ChildId \ {i} : child'[j] = child[j]
  BY <1>0, <1>1
<1> QED
  BY <1>1, <1>2, <1>4, <1>5, ChildFrame

(* A child ends with a message, the network being q just before.           *)
LEMMA ChildExitIInv ==
    ASSUME IInv, NEW i \in ChildId, UNCHANGED rcopyVars,
           child[i].state # "UNBORN", NEW message \in ChildMessage,
           NEW q, ChildExit(i, message, q), QueueOK(q, Has),
           DOMAIN queue \ {Child(i)} \subseteq DOMAIN q
    PROVE  IInv'
<1>0. child \in [ChildId -> ChildRecord]
  BY DEF IInv, TypeOK
<1>1. /\ listening' = listening
      /\ queue' = CloseSocket(q, Child(i))
      /\ child' = [child EXCEPT ![i] =
             [@ EXCEPT !.state = "DONE", !.said = message]]
  BY DEF ChildExit
<1>2. /\ QueueOK(queue', Has)
      /\ DOMAIN queue' = DOMAIN q \ {Child(i)}
  BY <1>1, CloseKeepsGood
<1>3. child' \in [ChildId -> ChildRecord]
  BY <1>0, <1>1 DEF ChildRecord, ChildState
<1>4. /\ child'[i].state = "DONE"
      /\ child'[i].seq = child[i].seq
      /\ child'[i].remote = child[i].remote
      /\ child'[i].fname = child[i].fname
  BY <1>0, <1>1 DEF ChildRecord
<1>5. ChildOK(i)'
  BY <1>4 DEF IInv, ChildOK
<1>6. \A j \in ChildId \ {i} : child'[j] = child[j]
  BY <1>0, <1>1
<1> QED
  BY <1>1, <1>2, <1>3, <1>4, <1>5, <1>6, ChildFrame

(* The packets a child makes are good for the client it serves.            *)
LEMMA ChildPacketGood ==
    ASSUME IInv, NEW i \in ChildId, child[i].state # "UNBORN"
    PROVE  LET a == child[i].remote
               n == child[i].seq
           IN  /\ a \in Address
               /\ n \in Nat \ {0}
               /\ \A flag \in {"FNAME_OK", "FNAME_BAD"} :
                     createHeader(flag, 0, 0, Child(i)) \in Good(a, Has)
               /\ createHeader("END_OF_FILE", n, 0, Child(i)) \in Good(a, Has)
               /\ n <= Len(Blocks(i)) =>
                     createHeader("DATA", n, Blocks(i)[n], Child(i))
                         \in Good(a, Has)
<1> DEFINE a == child[i].remote
           n == child[i].seq
<1>1. /\ child[i] \in ChildRecord
      /\ a \in Address
      /\ n \in Nat \ {0}
      /\ a[1] \in Clients
      /\ child[i].fname = a[1]
  BY DEF IInv, TypeOK, ChildOK, ChildRecord
<1>2. /\ Child(i) \in Address
      /\ Child(i)[1] = Server
      /\ Child(i)[2] > 0
  BY MaxChildAssumption DEF Child, Address, ChildId
<1>3. a[1] # Server /\ a # Main
  BY <1>1, ServerAssumption DEF Main
<1>4. ASSUME NEW flag \in {"FNAME_OK", "FNAME_BAD"}
      PROVE  createHeader(flag, 0, 0, Child(i)) \in Good(a, Has)
  BY <1>1, <1>2, <1>3 DEF Good, createHeader, Packet, FLAG, Load
<1>5. createHeader("END_OF_FILE", n, 0, Child(i)) \in Good(a, Has)
  BY <1>1, <1>2, <1>3 DEF Good, createHeader, Packet, FLAG, Load
<1>6. ASSUME n <= Len(Blocks(i))
      PROVE  createHeader("DATA", n, Blocks(i)[n], Child(i)) \in Good(a, Has)
  <2>1. Blocks(i) = File[a[1]] /\ File[a[1]] \in Seq(Block)
    BY <1>1, FileAssumption DEF Blocks
  <2>2. /\ n \in DOMAIN File[a[1]]
        /\ Blocks(i)[n] = File[a[1]][n]
        /\ Blocks(i)[n] \in Block
    BY <1>1, <1>6, <2>1, LenProperties, ElementOfSeq
  <2> QED
    BY <1>1, <1>2, <1>3, <2>2 DEF Good, createHeader, Packet, FLAG, Load
<1> QED
  BY <1>1, <1>4, <1>5, <1>6

(* What every step of a child starts from.                                 *)
LEMMA ChildFacts ==
    ASSUME IInv, NEW i \in ChildId, child[i].state # "UNBORN"
    PROVE  /\ QueueOK(queue, Has)
           /\ child[i].packet \in Packet
           /\ child[i].seq \in Nat \ {0}
           /\ child[i].retry \in Nat
           /\ child[i].remote \in Address
           /\ Child(i) \in Address
           /\ child[i].state \notin {"FILENAME", "DONE"} =>
                 Child(i) \in DOMAIN queue
           /\ child[i].state \in {"WAIT_ON_ACK", "TIMEOUT_ON_ACK",
                                  "WAIT_ON_EOF_ACK", "TIMEOUT_ON_EOF_ACK",
                                  "BLOCKED"} =>
                 child[i].packet \in Good(child[i].remote, Has)
<1>1. child[i] \in ChildRecord /\ ChildOK(i)
  BY DEF IInv, TypeOK
<1> QED
  BY <1>1, MaxChildAssumption
     DEF IInv, SocketsOK, ChildOK, ChildRecord, Child, Address, ChildId

(* A child opens its socket or sends.                                      *)
LEMMA ChildSendsIInv ==
    ASSUME IInv, NEW i \in ChildId, NEW o \in Outcome, ChildSends(i, o),
           UNCHANGED rcopyVars
    PROVE  IInv'
<1> DEFINE a == child[i].remote
           n == child[i].seq
           me == Child(i)
<1>0. child[i].state # "UNBORN"
  BY DEF ChildSends, FilenameOpens, FilenameFails, SendBlock, SendEndOfFile,
         TimeoutOnAck, TimeoutOnEofAck, In
<1>1. /\ QueueOK(queue, Has)
      /\ a \in Address /\ me \in Address
      /\ child[i].packet \in Packet
      /\ n \in Nat \ {0}
      /\ child[i].retry \in Nat
  BY <1>0, ChildFacts
<1>2. /\ QueueOK(OpenSocket(queue, me), Has)
      /\ DOMAIN OpenSocket(queue, me) = DOMAIN queue \cup {me}
  BY <1>1, OpenKeepsGood
<1>3. \A p \in Good(a, Has) :
         /\ p \in Packet
         /\ QueueOK(safeSendto(queue, a, p, o), Has)
         /\ DOMAIN safeSendto(queue, a, p, o) = DOMAIN queue
         /\ QueueOK(safeSendto(OpenSocket(queue, me), a, p, o), Has)
         /\ DOMAIN safeSendto(OpenSocket(queue, me), a, p, o)
                = DOMAIN queue \cup {me}
  BY <1>1, <1>2, SendKeepsGood DEF Good
<1>4. CASE FilenameOpens(i, o)
  <2> DEFINE p == createHeader("FNAME_OK", 0, 0, me)
  <2>1. p \in Good(a, Has)
    BY <1>0, ChildPacketGood
  <2>2. /\ queue' = safeSendto(OpenSocket(queue, me), a, p, o)
        /\ ChildGoto(i, "SEND_DATA", child[i].packet, n, child[i].retry)
    BY <1>4 DEF FilenameOpens, ChildMoves
  <2>3. /\ QueueOK(queue', Has)
        /\ DOMAIN queue' = DOMAIN queue \cup {me}
    BY <1>3, <2>1, <2>2
  <2> QED
    BY <1>0, <1>1, <2>2, <2>3, ChildGotoIInv DEF ChildState
<1>5. CASE FilenameFails(i, o)
  <2> DEFINE p == createHeader("FNAME_BAD", 0, 0, me)
             q == safeSendto(OpenSocket(queue, me), a, p, o)
  <2>1. p \in Good(a, Has)
    BY <1>0, ChildPacketGood
  <2>2. QueueOK(q, Has) /\ DOMAIN q = DOMAIN queue \cup {me}
    BY <1>3, <2>1
  <2>3. ChildExit(i, "FNAME_BAD", q)
    BY <1>5 DEF FilenameFails
  <2> QED
    BY <1>0, <2>2, <2>3, ChildExitIInv DEF ChildMessage
<1>6. CASE SendBlock(i, o)
  <2> DEFINE p == createHeader("DATA", n, Blocks(i)[n], me)
  <2>1. /\ In(i, "SEND_DATA")
        /\ n <= Len(Blocks(i))
        /\ queue' = safeSendto(queue, a, p, o)
        /\ ChildGoto(i, "WAIT_ON_ACK", p, n + 1, child[i].retry)
    BY <1>6 DEF SendBlock, SendPacket
  <2>2. p \in Good(a, Has)
    BY <1>0, <2>1, ChildPacketGood
  <2>3. /\ p \in Packet
        /\ QueueOK(queue', Has)
        /\ DOMAIN queue' = DOMAIN queue
        /\ me \in DOMAIN queue
    BY <1>0, <1>3, <2>1, <2>2, ChildFacts DEF In
  <2>4. n + 1 \in Nat \ {0}
    BY <1>1
  <2> QED
    BY <1>0, <1>1, <2>1, <2>2, <2>3, <2>4, ChildGotoIInv DEF ChildState
<1>7. CASE SendEndOfFile(i, o)
  <2> DEFINE p == createHeader("END_OF_FILE", n, 0, me)
  <2>1. /\ In(i, "SEND_DATA")
        /\ queue' = safeSendto(queue, a, p, o)
        /\ ChildGoto(i, "WAIT_ON_EOF_ACK", p, n, child[i].retry)
    BY <1>7 DEF SendEndOfFile, SendPacket
  <2>2. p \in Good(a, Has)
    BY <1>0, ChildPacketGood
  <2>3. /\ p \in Packet
        /\ QueueOK(queue', Has)
        /\ DOMAIN queue' = DOMAIN queue
        /\ me \in DOMAIN queue
    BY <1>0, <1>3, <2>1, <2>2, ChildFacts DEF In
  <2> QED
    BY <1>0, <1>1, <2>1, <2>2, <2>3, ChildGotoIInv DEF ChildState
<1>8. ASSUME TimeoutOnAck(i, o) \/ TimeoutOnEofAck(i, o) PROVE IInv'
  <2> DEFINE p == child[i].packet
  <2>1. PICK s \in {"WAIT_ON_ACK", "WAIT_ON_EOF_ACK"} :
            ChildGoto(i, s, p, n, child[i].retry)
    BY <1>8 DEF TimeoutOnAck, TimeoutOnEofAck, ChildMoves
  <2>2. /\ child[i].state \in {"TIMEOUT_ON_ACK", "TIMEOUT_ON_EOF_ACK"}
        /\ queue' = safeSendto(queue, a, p, o)
    BY <1>8 DEF TimeoutOnAck, TimeoutOnEofAck, In
  <2>3. p \in Good(a, Has) /\ me \in DOMAIN queue
    BY <1>0, <2>2, ChildFacts
  <2>4. /\ QueueOK(queue', Has)
        /\ DOMAIN queue' = DOMAIN queue
    BY <1>3, <2>2, <2>3
  <2> QED
    BY <1>0, <1>1, <2>1, <2>3, <2>4, ChildGotoIInv DEF ChildState
<1> QED
  BY <1>4, <1>5, <1>6, <1>7, <1>8 DEF ChildSends

(* A child receives.                                                       *)
LEMMA ChildReceivesIInv ==
    ASSUME IInv, NEW i \in ChildId,
           child[i].state \in {"WAIT_ON_ACK", "WAIT_ON_EOF_ACK", "BLOCKED"},
           NEW k \in Arrivals(Child(i)), ChildReceives(i, k),
           UNCHANGED rcopyVars
    PROVE  IInv'
<1> DEFINE p == child[i].packet
           n == child[i].seq
           q == safeRecvfrom(queue, Child(i), k)
<1>0. child[i].state # "UNBORN"
  OBVIOUS
<1>1. /\ QueueOK(queue, Has)
      /\ Child(i) \in DOMAIN queue
      /\ p \in Packet
      /\ p \in Good(child[i].remote, Has)
      /\ n \in Nat \ {0}
      /\ child[i].retry \in Nat
  BY <1>0, ChildFacts
<1>2. k \in 1 .. Len(queue[Child(i)])
  BY DEF Arrivals
<1>3. QueueOK(q, Has) /\ DOMAIN q = DOMAIN queue
  BY <1>1, <1>2, ReceiveKeepsGood
<1>4. ASSUME NEW message \in ChildMessage, ChildExit(i, message, q)
      PROVE  IInv'
  BY <1>0, <1>3, <1>4, ChildExitIInv
<1>5. ASSUME queue' = q, NEW r \in Nat,
             NEW s \in {"WAIT_ON_ACK", "WAIT_ON_EOF_ACK", "SEND_DATA"},
             ChildGoto(i, s, p, n, r)
      PROVE  IInv'
  BY <1>0, <1>1, <1>3, <1>5, ChildGotoIInv DEF ChildState
<1>6. CASE WaitOnAckCorrupt(i, k)
  BY <1>5, <1>6 DEF WaitOnAckCorrupt, ChildMoves
<1>7. CASE WaitOnAckRR(i, k)
  BY <1>5, <1>7 DEF WaitOnAckRR, ChildMoves
<1>8. CASE WaitOnAckOther(i, k)
  BY <1>4, <1>8 DEF WaitOnAckOther, ChildMessage
<1>9. CASE EofAckCorrupt(i, k)
  BY <1>1, <1>5, <1>9 DEF EofAckCorrupt, ChildMoves
<1>10. CASE EofAck(i, k)
  BY <1>4, <1>10 DEF EofAck, ChildMessage
<1>11. CASE EofAckOther(i, k)
  BY <1>4, <1>11 DEF EofAckOther, ChildMessage
<1> QED
  BY <1>6, <1>7, <1>8, <1>9, <1>10, <1>11 DEF ChildReceives

(* Every step of a child.                                                  *)
LEMMA ChildStepIInv ==
    ASSUME IInv, NEW i \in ChildId, ChildStep(i), UNCHANGED rcopyVars
    PROVE  IInv'
<1> DEFINE p == child[i].packet
           n == child[i].seq
<1>1. CASE \E o \in Outcome : ChildSends(i, o)
  BY <1>1, ChildSendsIInv
<1>2. CASE /\ child[i].state \in {"WAIT_ON_ACK", "WAIT_ON_EOF_ACK", "BLOCKED"}
           /\ \E k \in Arrivals(Child(i)) : ChildReceives(i, k)
  BY <1>2, ChildReceivesIInv
<1>3. CASE SendDataReadError(i)
  <2>1. child[i].state # "UNBORN"
    BY <1>3 DEF SendDataReadError, In
  <2> QED
    BY <1>3, <2>1, ChildFacts, ChildExitIInv
       DEF SendDataReadError, ChildMessage
<1>6. CASE ChildSendFails(i)
  <2>1. child[i].state # "UNBORN"
    BY <1>6 DEF ChildSendFails
  <2> QED
    BY <1>6, <2>1, ChildFacts, ChildExitIInv DEF ChildSendFails, ChildMessage
<1>4. CASE WaitOnAckGiveUp(i)
  <2>1. child[i].state # "UNBORN"
    BY <1>4 DEF WaitOnAckGiveUp, In
  <2> QED
    BY <1>4, <2>1, ChildFacts, ChildExitIInv DEF WaitOnAckGiveUp, ChildMessage
<1>5. ASSUME WaitOnAckTimeout(i) \/ WaitOnEofAckTimeout(i)
             \/ WaitOnEofAckGiveUp(i)
      PROVE  IInv'
  <2>1. /\ child[i].state \in {"WAIT_ON_ACK", "WAIT_ON_EOF_ACK"}
        /\ queue' = queue
    BY <1>5 DEF WaitOnAckTimeout, WaitOnEofAckTimeout, WaitOnEofAckGiveUp, In
  <2>2. /\ QueueOK(queue, Has)
        /\ Child(i) \in DOMAIN queue
        /\ p \in Packet
        /\ p \in Good(child[i].remote, Has)
        /\ n \in Nat \ {0}
        /\ child[i].retry \in Nat
    BY <2>1, ChildFacts
  <2>3. PICK s \in {"TIMEOUT_ON_ACK", "TIMEOUT_ON_EOF_ACK", "BLOCKED"},
             r \in Nat : ChildGoto(i, s, p, n, r)
    BY <1>5, <2>2, TriesAssumption
       DEF WaitOnAckTimeout, WaitOnEofAckTimeout, WaitOnEofAckGiveUp,
           ChildMoves, Tries
  <2> QED
    BY <2>1, <2>2, <2>3, ChildGotoIInv DEF ChildState
<1> QED
  BY <1>1, <1>2, <1>3, <1>4, <1>5, <1>6 DEF ChildStep

-----------------------------------------------------------------------------
(* The theorems.                                                           *)

(* The inductive invariant is inductive.                                   *)
LEMMA NextIInv == IInv /\ [Next]_vars => IInv'
<1> SUFFICES ASSUME IInv, [Next]_vars PROVE IInv'
  OBVIOUS
<1>1. CASE Next
  BY <1>1, ClientStepIInv, MainStepIInv, ChildStepIInv DEF Next
<1>2. CASE UNCHANGED vars
  <2>1. /\ QueueOK(queue', Has) /\ queue' = queue
        /\ UNCHANGED rcopyVars
        /\ child' = child /\ listening' = listening
    BY <1>2 DEF vars, serverVars, IInv
  <2> QED
    BY <2>1, ServerFrame DEF IInv, TypeOK, SocketsOK
<1> QED
  BY <1>1, <1>2

(* IInv is an invariant of the system, whatever its constants.             *)
THEOREM Invariance == Spec => []IInv
<1>1. Init => IInv
  BY InitIInv
<1>2. IInv /\ [Next]_vars => IInv'
  BY NextIInv
<1> QED
  BY <1>1, <1>2, PTL DEF Spec

(* The variables of the clients, the server and the network always have    *)
(* the types of srej.h, rcopy.c and server.c.                              *)
THEOREM TypeCorrect == Spec => []TypeOK
<1>1. IInv => TypeOK
  BY DEF IInv
<1> QED
  BY <1>1, Invariance, PTL

(* The output file of rcopy (rcopy.c:217-220) never holds anything but the *)
(* first blocks of the file that was asked for: for any number of clients  *)
(* and retries, any files, and any loss, corruption, repetition,           *)
(* reordering and delay of packets.                                        *)
THEOREM OutputCorrect == Spec => []OutputIsPrefix
<1>1. IInv => OutputIsPrefix
  BY DEF IInv, ClientOK, OutputIsPrefix
<1> QED
  BY <1>1, Invariance, PTL

(* No RR of rcopy names a block beyond those its client has: the ones in   *)
(* the output file and, between rcopy.c:215, which sends the RR, and       *)
(* rcopy.c:220, which writes the block, that block.                        *)
THEOREM AcksCorrect == Spec => []AcksOnlyReceived
<1>1. ASSUME IInv PROVE AcksOnlyReceived
  <2>1. ASSUME NEW a \in DOMAIN queue, NEW k \in 1 .. Len(queue[a])
        PROVE  queue[a][k] \in Good(a, Has)
    BY <1>1, ElementOfSeq DEF IInv, QueueOK
  <2>2. ASSUME NEW c \in Clients PROVE Len(Has[c]) \in Nat
    BY <1>1, HasType
  <2> QED
    BY <2>1, <2>2 DEF AcksOnlyReceived, Good
<1> QED
  BY <1>1, Invariance, PTL

-----------------------------------------------------------------------------
(***************************************************************************)
(* The conversation between a client and the child of the server that      *)
(* serves it.                                                              *)
(*                                                                         *)
(* Two inductive invariants.  SocketInv says who serves which socket.  It  *)
(* holds whatever the timers do, as long as no packet is duplicated.       *)
(* TransferInv says how far the two ends of a transfer can be apart.  It   *)
(* needs what the runs with Prompt = TRUE assume: timers that run out only *)
(* when nothing is on its way, and packets that keep their order.          *)
(***************************************************************************)

(* libcpe464 loses and flips packets; it does not repeat them.             *)
Once == "duplicate" \notin Faults

InTime == Prompt /\ ~ Reorder /\ Once

-----------------------------------------------------------------------------
(* Who serves which socket.                                                *)

Born(i) == child[i].state # "UNBORN"

ClientOf(i) == child[i].remote[1]

Serves(i, a) == Born(i) /\ child[i].remote = a

(* What is on its way to a socket; nothing if it is closed.                *)
TrafficIn(q, a) == IF a \in DOMAIN q THEN q[a] ELSE <<>>

Traffic(a) == TrafficIn(queue, a)

(* No two requests on their way to the main port are from the same socket, *)
(* and none is from a socket that is served already or not yet opened.     *)
AskedOnce ==
    \A k \in 1 .. Len(Traffic(Main)) :
        LET a == Traffic(Main)[k].from
        IN  /\ a[2] <= sock[a[1]]
            /\ \A i \in ChildId : ~ Serves(i, a)
            /\ \A m \in 1 .. Len(Traffic(Main)) :
                   Traffic(Main)[m].from = a => m = k

ServedOnce ==
    \A i \in ChildId : Born(i) =>
        /\ child[i].remote[2] <= sock[ClientOf(i)]
        /\ \A j \in ChildId : Serves(j, child[i].remote) => i = j

(* What a client is sent comes from the child that serves its socket.      *)
FromServing ==
    \A a \in Clients \X Nat : \A k \in 1 .. Len(Traffic(a)) :
        \E i \in ChildId : Serves(i, a) /\ Traffic(a)[k].from = Child(i)

Answered ==
    \A c \in Clients : cstate[c] \in {"FILE_OK", "RECV_DATA", "RR_SENT"} =>
        \E i \in ChildId : Serves(i, Me(c))

(* A child keeps a packet of its own.                                      *)
KeepsOwn ==
    \A i \in ChildId :
        child[i].state \in {"WAIT_ON_ACK", "TIMEOUT_ON_ACK", "WAIT_ON_EOF_ACK",
                           "TIMEOUT_ON_EOF_ACK", "BLOCKED"} =>
            child[i].packet.from = Child(i)

SocketInv == AskedOnce /\ ServedOnce /\ FromServing /\ Answered /\ KeepsOwn

-----------------------------------------------------------------------------
(* How far a transfer has come.                                            *)

(* The client has answered the end of the file.                            *)
Finishing(c) == said[c] = "File done" \/ cstate[c] = "EOF_ACK_SENT"

(* The client as its answers show it: it reads data although a block is    *)
(* still to be written, and it has finished although "File done" is still  *)
(* to be printed.                                                          *)
ClientPhase(c) ==
    IF Finishing(c) THEN "FINISHED"
    ELSE IF cstate[c] = "RR_SENT" THEN "RECV_DATA"
    ELSE cstate[c]

(* The number after the last block the client has acknowledged.            *)
Accepted(c) == IF cstate[c] = "RR_SENT" THEN expected[c] + 1 ELSE expected[c]

(* The phase of the client as child i's transfer goes: it may have left    *)
(* the socket for a new one.                                               *)
Phase(i) ==
    LET c == ClientOf(i)
    IN  IF child[i].remote # Me(c) THEN "LEFT" ELSE ClientPhase(c)

Hears(phase) == phase \in {"FILENAME", "FILE_OK", "RECV_DATA"}

(* The first packet that a client in filename gets is not read as data.    *)
Skip(phase) == IF phase = "FILENAME" THEN 1 ELSE 0

(* A child in state s, with sequence number n, that has last sent p; its   *)
(* client in phase, expecting block exp of len; and what is on its way to  *)
(* and back.  A child sends only when nothing is on its way.  What is on   *)
(* its way to a client that reads data is the packet sent last.  What is   *)
(* on its way back is the answer to it, and the client has gone on.        *)
Conversation(s, n, p, phase, exp, to, back, len) ==
    /\ s = "FILENAME" =>
          /\ n = 1
          /\ Hears(phase) => phase = "FILENAME" /\ Len(to) = 0
    /\ s = "SEND_DATA" =>
          /\ n <= len + 1
          /\ Len(back) = 0
          /\ Hears(phase) => exp = n /\ Len(to) <= Skip(phase)
    /\ s \in {"WAIT_ON_ACK", "TIMEOUT_ON_ACK"} =>
          /\ n <= len + 1
          /\ p.flag = "DATA" /\ p.seq = n - 1
          /\ Hears(phase) => exp \in {n - 1, n}
    /\ s \in {"WAIT_ON_EOF_ACK", "TIMEOUT_ON_EOF_ACK", "BLOCKED"} =>
          /\ n = len + 1
          /\ p.flag = "END_OF_FILE"
          /\ Hears(phase) => exp = n
    /\ s \in {"TIMEOUT_ON_ACK", "TIMEOUT_ON_EOF_ACK"} =>
          /\ Len(back) = 0
          /\ Hears(phase) => Len(to) = 0
    /\ s = "WAIT_ON_ACK" =>
          /\ Len(back) <= 1
          /\ \A k \in 1 .. Len(back) : back[k].flag \in {"RR", "CRC_ERROR"}
          /\ Len(back) > 0 => phase \in {"RECV_DATA", "DONE"} /\ exp = n
          /\ Hears(phase) =>
                /\ Len(to) + Len(back) <= 1 + Skip(phase)
                /\ \A k \in 1 + Skip(phase) .. Len(to) :
                      \/ to[k].flag = "CRC_ERROR"
                      \/ to[k].flag = "DATA" /\ to[k].seq = n - 1
    /\ s \in {"WAIT_ON_EOF_ACK", "BLOCKED"} =>
          /\ Len(back) <= 1
          /\ \A k \in 1 .. Len(back) : back[k].flag \in {"EOF_ACK", "CRC_ERROR"}
          /\ Len(back) > 0 => phase = "FINISHED"
          /\ Hears(phase) =>
                /\ Len(to) <= 1 + Skip(phase)
                /\ \A k \in 1 + Skip(phase) .. Len(to) :
                      to[k].flag \in {"CRC_ERROR", "END_OF_FILE"}

Talk(i) ==
    LET c == ClientOf(i)
    IN  Born(i) =>
          Conversation(child[i].state, child[i].seq, child[i].packet,
                       Phase(i), Accepted(c),
                       Traffic(child[i].remote), Traffic(Child(i)),
                       Len(File[c]))

(* A child never ends with "this should never happen", and it reports a    *)
(* complete transfer only after its client answered the end of the file.   *)
Verdict(i) ==
    /\ child[i].said # "this should never happen"
    /\ child[i].said = "complete successfully" =>
          child[i].state = "DONE" /\ Finishing(ClientOf(i))

Fresh(i) == ~ Born(i) => child[i].seq = START_SEQ_NUM

(* No block is ahead of the one expected, and the end of the file comes    *)
(* after the last block.                                                   *)
Within(phase, exp, to, len) ==
    Hears(phase) =>
        \A k \in 1 + Skip(phase) .. Len(to) :
            IF to[k].flag = "END_OF_FILE" THEN exp = len + 1
                                          ELSE to[k].seq <= exp

NotAhead(c) ==
    Within(ClientPhase(c), Accepted(c), Traffic(Me(c)), Len(File[c]))

Finished(c) ==
    Finishing(c) =>
        /\ cstate[c] \in {"EOF_ACK_SENT", "DONE"}
        /\ expected[c] = Len(File[c]) + 1

TransferInv ==
    /\ \A i \in ChildId : Talk(i) /\ Verdict(i) /\ Fresh(i)
    /\ \A c \in Clients : NotAhead(c) /\ Finished(c) /\ cstate[c] # "CRASHED"

-----------------------------------------------------------------------------
(* What the calls of the network code do to what is on its way.            *)

(* s, or s and a packet p that was sent, perhaps flipped.                  *)
Sent(s, t, p) ==
    \/ t = s
    \/ /\ Len(t) = Len(s) + 1
       /\ \A k \in 1 .. Len(s) : t[k] = s[k]
       /\ t[Len(s) + 1] \in {p, Corrupted(p)}

(* s without its k-th packet.                                              *)
Taken(s, t, k) ==
    /\ Len(t) = Len(s) - 1
    /\ \A m \in 1 .. Len(t) : t[m] = s[IF m < k THEN m ELSE m + 1]

(* A packet sent when nothing was on its way is alone on its way.          *)
LEMMA SentAlone ==
    ASSUME NEW s, NEW t, NEW p, Sent(s, t, p), Len(s) = 0
    PROVE  /\ Len(t) \in {0, 1}
           /\ \A k \in 1 .. Len(t) : t[k] \in {p, Corrupted(p)}
<1>1. CASE t = s
  BY <1>1
<1>2. CASE Len(t) = Len(s) + 1 /\ t[Len(s) + 1] \in {p, Corrupted(p)}
  <2>1. Len(t) = 1 /\ t[1] \in {p, Corrupted(p)}
    <3>1. Len(s) + 1 = 1
      OBVIOUS
    <3> QED
      BY <1>2, <3>1
  <2>2. \A k \in 1 .. 1 : k = 1
    OBVIOUS
  <2> QED
    BY <2>1, <2>2
<1> QED
  BY <1>1, <1>2 DEF Sent

(* What is on its way are packets.                                         *)
LEMMA TrafficType ==
    ASSUME TypeOK, NEW a
    PROVE  Traffic(a) \in Seq(Packet) /\ Len(Traffic(a)) \in Nat
<1>1. Traffic(a) \in Seq(Packet)
  BY EmptySeq DEF TypeOK, Traffic, TrafficIn
<1> QED
  BY <1>1, LenProperties

(* safeSendto puts the packet, whole or flipped, on its way to its         *)
(* address, or does nothing.                                               *)
LEMMA SendTraffic ==
    ASSUME Once, NEW q, NEW a, NEW p \in Packet, NEW o \in Outcome,
           a \in DOMAIN q => q[a] \in Seq(Packet)
    PROVE  /\ Sent(TrafficIn(q, a), TrafficIn(safeSendto(q, a, p, o), a), p)
           /\ \A b : b # a => TrafficIn(safeSendto(q, a, p, o), b) = TrafficIn(q, b)
<1> DEFINE r == safeSendto(q, a, p, o)
<1>1. CASE r = q
  BY <1>1 DEF Sent
<1>2. CASE a \in DOMAIN q /\ r = [q EXCEPT ![a] = @ \o Copies(p, o)]
  <2> DEFINE s == q[a]
             t == r[a]
  <2>1. s \in Seq(Packet) /\ Len(s) \in Nat
    BY <1>2, LenProperties
  <2>2. t = s \o Copies(p, o)
    BY <1>2
  <2>3. Corrupted(p) \in Packet
    BY DEF Corrupted, createHeader, Packet, FLAG, Load
  <2>4. CASE o = "drop"
    <3>1. Copies(p, o) = <<>>
      BY <2>4 DEF Copies
    <3>2. t = s
      BY <2>1, <2>2, <3>1, ConcatEmptySeq
    <3> QED
      BY <1>2, <3>2 DEF Sent, TrafficIn
  <2>5. ASSUME NEW x \in {p, Corrupted(p)}, Copies(p, o) = <<x>>
        PROVE  /\ Len(t) = Len(s) + 1
               /\ \A k \in 1 .. Len(s) : t[k] = s[k]
               /\ t[Len(s) + 1] \in {p, Corrupted(p)}
    <3>1. <<x>> \in Seq(Packet) /\ Len(<<x>>) = 1 /\ <<x>>[1] = x
      BY <2>3, <2>5
    <3> HIDE DEF s, t
    <3>2. /\ Len(t) = Len(s) + 1
          /\ \A k \in 1 .. Len(s) + 1 :
                 t[k] = IF k <= Len(s) THEN s[k] ELSE <<x>>[k - Len(s)]
      BY <2>1, <2>2, <2>5, <3>1, ConcatProperties
    <3>3. t[Len(s) + 1] = x
      <4>1. ~ (Len(s) + 1 <= Len(s)) /\ Len(s) + 1 - Len(s) = 1
            /\ Len(s) + 1 \in 1 .. Len(s) + 1
        BY <2>1
      <4> QED
        BY <3>1, <3>2, <4>1
    <3> QED
      BY <2>1, <3>2, <3>3
  <2>6. CASE o \in {"sent", "flip"}
    <3>1. PICK x \in {p, Corrupted(p)} : Copies(p, o) = <<x>>
      BY <2>6 DEF Copies
    <3> QED
      BY <1>2, <2>5, <3>1 DEF Sent, TrafficIn
  <2>7. \A b : b # a => TrafficIn(r, b) = TrafficIn(q, b)
    BY <1>2 DEF TrafficIn
  <2> QED
    BY <2>4, <2>6, <2>7, FaultsAssumption, <1>2 DEF Outcome, Once, Sent
<1> QED
  BY <1>1, <1>2 DEF safeSendto

(* safeRecvfrom takes the k-th packet.                                     *)
LEMMA ReceiveTraffic ==
    ASSUME NEW q, NEW a \in DOMAIN q, q[a] \in Seq(Packet),
           NEW k \in 1 .. Len(q[a])
    PROVE  /\ Taken(TrafficIn(q, a), TrafficIn(safeRecvfrom(q, a, k), a), k)
           /\ \A b : b # a => TrafficIn(safeRecvfrom(q, a, k), b) = TrafficIn(q, b)
           /\ safeRecvfrom(q, a, k)[a] \in Seq(Packet)
<1> DEFINE s == q[a]
           l == SubSeq(s, 1, k - 1)
           r == SubSeq(s, k + 1, Len(s))
           t == RemoveAt(s, k)
<1>0. /\ s \in Seq(Packet) /\ Len(s) \in Nat /\ k \in Nat /\ k <= Len(s) /\ k > 0
      /\ \A j \in 1 .. Len(s) : s[j] \in Packet
  BY LenProperties, ElementOfSeq
<1> HIDE DEF s
<1>1. /\ l \in Seq(Packet)
      /\ Len(l) = k - 1
      /\ \A j \in 1 .. k - 1 : l[j] = s[j]
  <2>1. \A j \in 1 .. k - 1 : s[j] \in Packet
    BY <1>0
  <2>2. /\ l \in Seq(Packet)
        /\ Len(l) = IF 1 <= k - 1 THEN k - 1 - 1 + 1 ELSE 0
        /\ \A j \in 1 .. k - 1 - 1 + 1 : l[j] = s[1 + j - 1]
    BY <1>0, <2>1, SubSeqProperties
  <2> QED
    BY <1>0, <2>2
<1>2. /\ r \in Seq(Packet)
      /\ Len(r) = Len(s) - k
      /\ \A j \in 1 .. Len(s) - k : r[j] = s[k + j]
  <2>1. \A j \in k + 1 .. Len(s) : s[j] \in Packet
    BY <1>0
  <2>2. /\ r \in Seq(Packet)
        /\ Len(r) = IF k + 1 <= Len(s) THEN Len(s) - (k + 1) + 1 ELSE 0
        /\ \A j \in 1 .. Len(s) - (k + 1) + 1 : r[j] = s[k + 1 + j - 1]
    BY <1>0, <2>1, SubSeqProperties
  <2> QED
    BY <1>0, <2>2
<1> HIDE DEF l, r
<1>3. /\ t \in Seq(Packet)
      /\ Len(t) = Len(s) - 1
      /\ \A m \in 1 .. Len(s) - 1 :
             t[m] = IF m <= k - 1 THEN l[m] ELSE r[m - (k - 1)]
  <2>1. t = l \o r
    BY DEF RemoveAt, l, r
  <2>2. /\ l \o r \in Seq(Packet)
        /\ Len(l \o r) = (k - 1) + (Len(s) - k)
        /\ \A m \in 1 .. (k - 1) + (Len(s) - k) :
               (l \o r)[m] = IF m <= k - 1 THEN l[m] ELSE r[m - (k - 1)]
    <3>1. /\ l \o r \in Seq(Packet)
          /\ Len(l \o r) = Len(l) + Len(r)
          /\ \A m \in 1 .. Len(l) + Len(r) :
                 (l \o r)[m] = IF m <= Len(l) THEN l[m] ELSE r[m - Len(l)]
      BY <1>1, <1>2, ConcatProperties
    <3> QED
      BY <1>1, <1>2, <3>1
  <2>3. (k - 1) + (Len(s) - k) = Len(s) - 1
    BY <1>0
  <2> QED
    BY <2>1, <2>2, <2>3
<1> HIDE DEF t
<1>4. Taken(s, t, k)
  <2> SUFFICES ASSUME NEW m \in 1 .. Len(s) - 1
               PROVE  t[m] = s[IF m < k THEN m ELSE m + 1]
    BY <1>3 DEF Taken
  <2>1. CASE m < k
    <3>1. m <= k - 1 /\ m \in 1 .. k - 1
      BY <1>0, <2>1
    <3> QED
      BY <1>1, <1>3, <2>1, <3>1
  <2>2. CASE ~ (m < k)
    <3>1. /\ ~ (m <= k - 1)
          /\ m - (k - 1) \in 1 .. Len(s) - k
          /\ k + (m - (k - 1)) = m + 1
      BY <1>0, <2>2
    <3> QED
      BY <1>2, <1>3, <2>2, <3>1
  <2> QED
    BY <2>1, <2>2
<1> QED
  BY <1>3, <1>4 DEF safeRecvfrom, TrafficIn, s, t

(* A socket that is opened or closed has nothing on its way to it, and the *)
(* others are left alone.                                                  *)
LEMMA SocketTraffic ==
    ASSUME NEW q, NEW a
    PROVE  /\ \A b : TrafficIn(OpenSocket(q, a), b)
                         = IF b = a THEN <<>> ELSE TrafficIn(q, b)
           /\ \A b : TrafficIn(CloseSocket(q, a), b)
                         = IF b = a THEN <<>> ELSE TrafficIn(q, b)
BY DEF OpenSocket, CloseSocket, TrafficIn

-----------------------------------------------------------------------------
(* The conversation, step by step: what a step of the client does to it.   *)

(* The client stops listening.                                             *)
LEMMA TalkHangsUp ==
    ASSUME NEW s, NEW n, NEW p, NEW phase, NEW exp, NEW to, NEW back, NEW len,
           Conversation(s, n, p, phase, exp, to, back, len),
           Len(back) \in Nat,
           NEW phase2, NEW to2, ~ Hears(phase2),
           \/ phase \in {"START_STATE", "FILENAME", "FILE_OK"}
           \/ phase = "RECV_DATA" /\ phase2 = "DONE"
    PROVE  Conversation(s, n, p, phase2, exp, to2, back, len)
BY DEF Conversation, Hears

(* What is on its way to a client that has finished does not matter.       *)
LEMMA TalkUnheard ==
    ASSUME NEW s, NEW n, NEW p, NEW exp, NEW to, NEW back, NEW len,
           Conversation(s, n, p, "FINISHED", exp, to, back, len), NEW to2
    PROVE  Conversation(s, n, p, "FINISHED", exp, to2, back, len)
BY DEF Conversation, Hears

(* The client takes a packet for the answer to its request.                *)
LEMMA TalkGetsName ==
    ASSUME NEW s, NEW n, NEW p, NEW exp, NEW to, NEW back, NEW len,
           Conversation(s, n, p, "FILENAME", exp, to, back, len),
           Len(back) \in Nat, Len(to) \in Nat, Len(to) > 0,
           NEW to2, Taken(to, to2, 1)
    PROVE  Conversation(s, n, p, "FILE_OK", exp, to2, back, len)
<1>1. /\ Len(to2) = Len(to) - 1
      /\ \A k \in 1 .. Len(to2) : to2[k] = to[k + 1] /\ k + 1 \in 1 + 1 .. Len(to)
  BY DEF Taken
<1>2. Skip("FILENAME") = 1 /\ Skip("FILE_OK") = 0
  BY DEF Skip
<1> QED
  BY <1>1, <1>2 DEF Conversation, Hears

(* The client opens the output file.                                       *)
LEMMA TalkOpens ==
    ASSUME NEW s, NEW n, NEW p, NEW exp, NEW to, NEW back, NEW len,
           Conversation(s, n, p, "FILE_OK", exp, to, back, len)
    PROVE  Conversation(s, n, p, "RECV_DATA", exp, to, back, len)
BY DEF Conversation, Hears, Skip

(* The client drops a corrupted packet.                                    *)
LEMMA TalkDrops ==
    ASSUME NEW s, NEW n, NEW p, NEW exp, NEW to, NEW back, NEW len,
           Conversation(s, n, p, "RECV_DATA", exp, to, back, len),
           Len(back) \in Nat, Len(to) \in Nat, Len(to) > 0,
           NEW to2, Taken(to, to2, 1)
    PROVE  Conversation(s, n, p, "RECV_DATA", exp, to2, back, len)
<1>1. /\ Len(to2) = Len(to) - 1
      /\ \A k \in 1 .. Len(to2) : to2[k] = to[k + 1] /\ k + 1 \in 1 .. Len(to)
  BY DEF Taken
<1> QED
  BY <1>1 DEF Conversation, Hears, Skip

(* The client answers the end of the file, and ends.                       *)
LEMMA TalkEnds ==
    ASSUME NEW s, NEW n, NEW p, NEW exp, NEW to, NEW back, NEW len,
           Conversation(s, n, p, "RECV_DATA", exp, to, back, len),
           s # "FILENAME",
           Len(back) \in Nat, Len(to) \in Nat, Len(to) > 0,
           to[1].flag = "END_OF_FILE",
           NEW r, r.flag = "EOF_ACK", NEW back2, Sent(back, back2, r),
           NEW to2
    PROVE  Conversation(s, n, p, "FINISHED", exp, to2, back2, len)
<1>1. Corrupted(r).flag = "CRC_ERROR"
  BY DEF Corrupted, createHeader
<1>2. s \in {"WAIT_ON_EOF_ACK", "BLOCKED"} \/ s \notin {"SEND_DATA",
         "WAIT_ON_ACK", "TIMEOUT_ON_ACK", "TIMEOUT_ON_EOF_ACK"}
  BY DEF Conversation, Hears, Skip
<1>3. CASE s \in {"WAIT_ON_EOF_ACK", "BLOCKED"}
  <2>1. n = len + 1 /\ p.flag = "END_OF_FILE" /\ Len(back) = 0
    BY <1>3 DEF Conversation
  <2>2. /\ Len(back2) <= 1
        /\ \A k \in 1 .. Len(back2) : back2[k].flag \in {"EOF_ACK", "CRC_ERROR"}
    <3>1. /\ Len(back2) \in {0, 1}
          /\ \A k \in 1 .. Len(back2) : back2[k] \in {r, Corrupted(r)}
      BY <2>1, SentAlone
    <3> QED
      BY <1>1, <3>1
  <2> QED
    BY <1>3, <2>1, <2>2 DEF Conversation, Hears
<1>4. CASE s \notin {"FILENAME", "SEND_DATA", "WAIT_ON_ACK", "TIMEOUT_ON_ACK",
                     "WAIT_ON_EOF_ACK", "TIMEOUT_ON_EOF_ACK", "BLOCKED"}
  BY <1>4 DEF Conversation
<1> QED
  BY <1>2, <1>3, <1>4

(* The client acknowledges a block, the one it expects or the one before.  *)
LEMMA TalkAcknowledges ==
    ASSUME NEW s, NEW n \in Nat, NEW p, NEW exp \in Nat, NEW to, NEW back,
           NEW len,
           Conversation(s, n, p, "RECV_DATA", exp, to, back, len),
           s # "FILENAME",
           Len(back) \in Nat, Len(to) \in Nat, Len(to) > 0,
           to[1].flag \notin {"CRC_ERROR", "END_OF_FILE"},
           NEW r, r.flag = "RR", NEW back2, Sent(back, back2, r),
           NEW to2, Taken(to, to2, 1),
           NEW exp2,
           \/ to[1].seq < exp /\ exp2 = exp
           \/ to[1].seq = exp /\ exp2 = exp + 1
    PROVE  Conversation(s, n, p, "RECV_DATA", exp2, to2, back2, len)
<1>1. Corrupted(r).flag = "CRC_ERROR"
  BY DEF Corrupted, createHeader
<1>2. s = "WAIT_ON_ACK" \/ s \notin {"SEND_DATA", "TIMEOUT_ON_ACK",
         "WAIT_ON_EOF_ACK", "TIMEOUT_ON_EOF_ACK", "BLOCKED"}
  BY DEF Conversation, Hears, Skip
<1>3. CASE s = "WAIT_ON_ACK"
  <2>1. /\ n <= len + 1
        /\ p.flag = "DATA" /\ p.seq = n - 1
        /\ exp \in {n - 1, n}
        /\ Len(to) = 1 /\ Len(back) = 0
        /\ to[1].seq = n - 1
    <3>1. Hears("RECV_DATA") /\ Skip("RECV_DATA") = 0
      BY DEF Hears, Skip
    <3>2. /\ n <= len + 1
          /\ p.flag = "DATA" /\ p.seq = n - 1
          /\ exp \in {n - 1, n}
          /\ Len(to) + Len(back) <= 1 + 0
          /\ \A k \in 1 + 0 .. Len(to) :
                \/ to[k].flag = "CRC_ERROR"
                \/ to[k].flag = "DATA" /\ to[k].seq = n - 1
      BY <1>3, <3>1 DEF Conversation
    <3>3. \A x, y \in Nat : x > 0 /\ x + y <= 1 + 0 =>
              x = 1 /\ y = 0 /\ 1 \in 1 + 0 .. x
      OBVIOUS
    <3>4. Len(to) = 1 /\ Len(back) = 0 /\ 1 \in 1 + 0 .. Len(to)
      BY <3>2, <3>3
    <3> QED
      BY <3>2, <3>4
  <2>2. exp2 = n
    BY <2>1
  <2>3. Len(to2) = 0
    BY <2>1 DEF Taken
  <2>4. /\ Len(back2) <= 1 /\ Len(back2) \in Nat
        /\ \A k \in 1 .. Len(back2) : back2[k].flag \in {"RR", "CRC_ERROR"}
    <3>1. /\ Len(back2) \in {0, 1}
          /\ \A k \in 1 .. Len(back2) : back2[k] \in {r, Corrupted(r)}
      BY <2>1, SentAlone
    <3> QED
      BY <1>1, <3>1
  <2> QED
    BY <1>3, <2>1, <2>2, <2>3, <2>4 DEF Conversation, Hears, Skip
<1>4. CASE s \notin {"FILENAME", "SEND_DATA", "WAIT_ON_ACK", "TIMEOUT_ON_ACK",
                     "WAIT_ON_EOF_ACK", "TIMEOUT_ON_EOF_ACK", "BLOCKED"}
  BY <1>4 DEF Conversation
<1> QED
  BY <1>2, <1>3, <1>4

-----------------------------------------------------------------------------
(* What a step of the child does to the conversation.                      *)

(* The child opens its socket and confirms the name.                       *)
LEMMA TalkConfirms ==
    ASSUME NEW n, NEW p, NEW phase, NEW exp, NEW to, NEW back, NEW len \in Nat,
           Conversation("FILENAME", n, p, phase, exp, to, back, len),
           phase = "FILENAME" => exp = 1,
           NEW r, NEW to2, Sent(to, to2, r), NEW back2, Len(back2) = 0
    PROVE  Conversation("SEND_DATA", n, p, phase, exp, to2, back2, len)
<1>1. n = 1 /\ (Hears(phase) => phase = "FILENAME" /\ Len(to) = 0)
  BY DEF Conversation
<1>2. Hears(phase) => exp = n /\ Len(to2) <= Skip(phase)
  BY <1>1 DEF Sent, Skip
<1> QED
  BY <1>1, <1>2 DEF Conversation

(* The child sends the next block.                                         *)
LEMMA TalkSendsBlock ==
    ASSUME NEW n \in Nat, NEW p, NEW phase, NEW exp, NEW to, NEW back,
           NEW len \in Nat, Len(to) \in Nat,
           Conversation("SEND_DATA", n, p, phase, exp, to, back, len),
           n <= len,
           NEW r, r.flag = "DATA", r.seq = n,
           NEW to2, Sent(to, to2, r)
    PROVE  Conversation("WAIT_ON_ACK", n + 1, r, phase, exp, to2, back, len)
<1>1. Corrupted(r).flag = "CRC_ERROR"
  BY DEF Corrupted, createHeader
<1>2. /\ Len(back) = 0
      /\ Hears(phase) => exp = n /\ Len(to) <= Skip(phase)
  BY DEF Conversation
<1>3. Skip(phase) \in {0, 1}
  BY DEF Skip
<1>4. ASSUME Hears(phase)
      PROVE  /\ Len(to2) + Len(back) <= 1 + Skip(phase)
             /\ \A k \in 1 + Skip(phase) .. Len(to2) :
                   \/ to2[k].flag = "CRC_ERROR"
                   \/ to2[k].flag = "DATA" /\ to2[k].seq = n
  BY <1>1, <1>2, <1>3, <1>4 DEF Sent
<1>5. n + 1 - 1 = n /\ n + 1 <= len + 1
  OBVIOUS
<1> QED
  BY <1>2, <1>4, <1>5 DEF Conversation

(* The child sends the end of the file.                                    *)
LEMMA TalkSendsEnd ==
    ASSUME NEW n \in Nat, NEW p, NEW phase, NEW exp, NEW to, NEW back,
           NEW len \in Nat, Len(to) \in Nat,
           Conversation("SEND_DATA", n, p, phase, exp, to, back, len),
           n > len,
           NEW r, r.flag = "END_OF_FILE",
           NEW to2, Sent(to, to2, r)
    PROVE  Conversation("WAIT_ON_EOF_ACK", n, r, phase, exp, to2, back, len)
<1>1. Corrupted(r).flag = "CRC_ERROR"
  BY DEF Corrupted, createHeader
<1>2. /\ Len(back) = 0
      /\ n = len + 1
      /\ Hears(phase) => exp = n /\ Len(to) <= Skip(phase)
  BY DEF Conversation
<1>3. Skip(phase) \in {0, 1}
  BY DEF Skip
<1>4. ASSUME Hears(phase)
      PROVE  /\ Len(to2) <= 1 + Skip(phase)
             /\ \A k \in 1 + Skip(phase) .. Len(to2) :
                   to2[k].flag \in {"CRC_ERROR", "END_OF_FILE"}
  BY <1>1, <1>2, <1>3, <1>4 DEF Sent
<1> QED
  BY <1>2, <1>4 DEF Conversation

(* The timer of the child runs out: nothing is on its way.                 *)
LEMMA TalkTimesOut ==
    ASSUME NEW s \in {"WAIT_ON_ACK", "WAIT_ON_EOF_ACK"},
           NEW n, NEW p, NEW phase, NEW exp, NEW to, NEW back, NEW len,
           Conversation(s, n, p, phase, exp, to, back, len),
           Len(back) = 0, Hears(phase) => Len(to) = 0
    PROVE  Conversation(IF s = "WAIT_ON_ACK" THEN "TIMEOUT_ON_ACK"
                                             ELSE "TIMEOUT_ON_EOF_ACK",
                        n, p, phase, exp, to, back, len)
BY DEF Conversation

(* The child sends the same packet again.                                  *)
LEMMA TalkSendsAgain ==
    ASSUME NEW s \in {"TIMEOUT_ON_ACK", "TIMEOUT_ON_EOF_ACK"},
           NEW n, NEW p, NEW phase, NEW exp, NEW to, NEW back, NEW len,
           Conversation(s, n, p, phase, exp, to, back, len),
           NEW to2, Sent(to, to2, p)
    PROVE  Conversation(IF s = "TIMEOUT_ON_ACK" THEN "WAIT_ON_ACK"
                                                ELSE "WAIT_ON_EOF_ACK",
                        n, p, phase, exp, to2, back, len)
<1>1. Corrupted(p).flag = "CRC_ERROR"
  BY DEF Corrupted, createHeader
<1>2. Len(back) = 0 /\ (Hears(phase) => Len(to) = 0)
  BY DEF Conversation
<1>3. Skip(phase) \in {0, 1}
  BY DEF Skip
<1>4. ASSUME Hears(phase)
      PROVE  /\ Len(to2) + Len(back) <= 1 + Skip(phase)
             /\ Len(to2) <= 1 + Skip(phase)
             /\ \A k \in 1 + Skip(phase) .. Len(to2) :
                   to2[k] \in {p, Corrupted(p)}
  <2>1. /\ Len(to2) \in {0, 1}
        /\ \A k \in 1 .. Len(to2) : to2[k] \in {p, Corrupted(p)}
    BY <1>2, <1>4, SentAlone
  <2> QED
    BY <1>2, <1>3, <2>1
<1>5. CASE s = "TIMEOUT_ON_ACK"
  BY <1>1, <1>2, <1>4, <1>5 DEF Conversation
<1>6. CASE s = "TIMEOUT_ON_EOF_ACK"
  BY <1>1, <1>2, <1>4, <1>6 DEF Conversation
<1> QED
  BY <1>5, <1>6

(* The child gives up on the end of the file, and waits without a timer.   *)
LEMMA TalkBlocks ==
    ASSUME NEW n, NEW p, NEW phase, NEW exp, NEW to, NEW back, NEW len,
           Conversation("WAIT_ON_EOF_ACK", n, p, phase, exp, to, back, len)
    PROVE  Conversation("BLOCKED", n, p, phase, exp, to, back, len)
BY DEF Conversation

(* The child drops a corrupted answer, or goes on after an RR.             *)
LEMMA TalkGoesOn ==
    ASSUME NEW s, NEW n \in Nat, NEW p, NEW phase, NEW exp, NEW to, NEW back,
           NEW len, Len(back) \in Nat, Len(back) > 0, Len(to) \in Nat,
           Conversation(s, n, p, phase, exp, to, back, len),
           NEW back2, Taken(back, back2, 1),
           NEW s2,
           \/ s = "WAIT_ON_ACK" /\ s2 \in {"WAIT_ON_ACK", "SEND_DATA"}
           \/ s \in {"WAIT_ON_EOF_ACK", "BLOCKED"} /\ s2 = "WAIT_ON_EOF_ACK"
    PROVE  Conversation(s2, n, p, phase, exp, to, back2, len)
<1>1. Skip(phase) \in {0, 1}
  BY DEF Skip
<1>2. CASE s = "WAIT_ON_ACK"
  <2>1. /\ n <= len + 1
        /\ p.flag = "DATA" /\ p.seq = n - 1
        /\ Len(back) = 1
        /\ phase \in {"RECV_DATA", "DONE"}
        /\ exp = n
        /\ Hears(phase) => Len(to) = 0
    <3>1. /\ n <= len + 1
          /\ p.flag = "DATA" /\ p.seq = n - 1
          /\ Len(back) <= 1
          /\ phase \in {"RECV_DATA", "DONE"}
          /\ exp = n
          /\ Hears(phase) => Len(to) + Len(back) <= 1 + Skip(phase)
      BY <1>2 DEF Conversation
    <3>2. Skip(phase) = 0
      BY <3>1 DEF Skip
    <3>3. Len(back) = 1
      BY SMTT(30), <3>1
    <3> QED
      BY <3>1, <3>2, <3>3
  <2>2. Len(back2) = 0
    BY <2>1 DEF Taken
  <2> QED
    BY <1>1, <1>2, <2>1, <2>2 DEF Conversation
<1>3. CASE s \in {"WAIT_ON_EOF_ACK", "BLOCKED"}
  <2>1. /\ n = len + 1
        /\ p.flag = "END_OF_FILE"
        /\ Len(back) = 1
        /\ phase = "FINISHED"
    <3>1. n = len + 1 /\ p.flag = "END_OF_FILE" /\ Len(back) <= 1
          /\ phase = "FINISHED"
      BY <1>3 DEF Conversation
    <3>2. \A x \in Nat : x > 0 /\ x <= 1 => x = 1
      OBVIOUS
    <3> QED
      BY <3>1, <3>2
  <2>2. Len(back2) = 0
    BY <2>1 DEF Taken
  <2> QED
    BY <1>3, <2>1, <2>2 DEF Conversation, Hears
<1> QED
  BY <1>2, <1>3

(* A child that has ended has nothing to say.                              *)
LEMMA TalkOver ==
    ASSUME NEW n, NEW p, NEW phase, NEW exp, NEW to, NEW back, NEW len
    PROVE  Conversation("DONE", n, p, phase, exp, to, back, len)
BY DEF Conversation

-----------------------------------------------------------------------------
(* SocketInv is inductive.                                                 *)

(* Nobody serves and nobody has asked.                                     *)
LEMMA InitSocketInv == Init => SocketInv
<1> SUFFICES ASSUME Init PROVE SocketInv
  OBVIOUS
<1>1. \A a : Traffic(a) = <<>>
  BY DEF Init, Traffic, TrafficIn
<1>2. Len(<<>>) = 0
  BY EmptySeq
<1>3. \A i \in ChildId : child[i].state = "UNBORN"
  BY DEF Init, ServerInit, Unborn
<1>4. \A c \in Clients : cstate[c] = "START_STATE"
  BY DEF Init, RcopyInit
<1> QED
  BY <1>1, <1>2, <1>3, <1>4
     DEF SocketInv, AskedOnce, ServedOnce, FromServing, Answered, KeepsOwn, Born

(* The addresses of clients, of children and of the main port differ.      *)
LEMMA Addresses ==
    ASSUME IInv
    PROVE  /\ Main \notin Clients \X Nat
           /\ \A c \in Clients : Me(c) \in Clients \X Nat /\ Me(c) # Main
           /\ \A i \in ChildId : Child(i) \notin Clients \X Nat /\ Child(i) # Main
           /\ \A i, j \in ChildId : Child(i) = Child(j) => i = j
           /\ \A i \in ChildId : Born(i) =>
                 /\ child[i].remote \in Clients \X Nat
                 /\ ClientOf(i) \in Clients
                 /\ \A c \in Clients : child[i].remote = Me(c) => ClientOf(i) = c
<1>1. ASSUME NEW i \in ChildId, Born(i)
      PROVE  /\ child[i].remote \in Clients \X Nat
             /\ ClientOf(i) \in Clients
             /\ \A c \in Clients : child[i].remote = Me(c) => ClientOf(i) = c
  <2>1. child[i].remote \in Address /\ child[i].remote[1] \in Clients
    BY <1>1, ChildFacts DEF Born, IInv, ChildOK
  <2> QED
    BY <2>1 DEF Address, ClientOf, Me
<1>2. \A c \in Clients : sock[c] \in Nat
  BY DEF IInv, TypeOK
<1>3. \A i \in ChildId : i # 0
  BY MaxChildAssumption DEF ChildId
<1> QED
  BY <1>1, <1>2, <1>3, ServerAssumption DEF Main, Me, Child

(* Who a request on the main port is from.                                 *)
LEMMA Requests ==
    ASSUME IInv, NEW k \in 1 .. Len(Traffic(Main))
    PROVE  /\ Main \in DOMAIN queue
           /\ Traffic(Main)[k] \in Packet
           /\ Traffic(Main)[k].from \in Clients \X Nat
<1>1. Main \in DOMAIN queue
  <2>1. CASE Main \notin DOMAIN queue
    <3>1. Len(Traffic(Main)) = 0
      BY <2>1, EmptySeq DEF Traffic, TrafficIn
    <3> QED
      BY <3>1
  <2> QED
    BY <2>1
<1>2. Traffic(Main)[k] \in Good(Main, Has)
  BY <1>1, ElementOfSeq DEF IInv, QueueOK, Traffic, TrafficIn
<1>3. Traffic(Main)[k] \in Packet /\ Traffic(Main)[k].from[1] \in Clients
  BY <1>2 DEF Good, Main
<1> QED
  BY <1>1, <1>3 DEF Packet, Address

(* A step that opens no socket and forks no child.                         *)
LEMMA QuietSockets ==
    ASSUME SocketInv, UNCHANGED <<sock, child>>,
           TrafficIn(queue', Main) = Traffic(Main),
           \A a \in Clients \X Nat : \A k \in 1 .. Len(TrafficIn(queue', a)) :
               \E m \in 1 .. Len(Traffic(a)) :
                   TrafficIn(queue', a)[k] = Traffic(a)[m],
           \A d \in Clients :
               cstate'[d] \in {"FILE_OK", "RECV_DATA", "RR_SENT"} =>
                   \E i \in ChildId : Serves(i, Me(d))
    PROVE  SocketInv'
<1>1. Traffic(Main)' = Traffic(Main)
  BY DEF Traffic, Main
<1>2. AskedOnce'
  BY <1>1 DEF SocketInv, AskedOnce, Serves, Born
<1>3. ServedOnce'
  BY DEF SocketInv, ServedOnce, Serves, Born, ClientOf
<1>4. FromServing'
  <2> SUFFICES ASSUME NEW a \in Clients \X Nat,
                      NEW k \in 1 .. Len(TrafficIn(queue', a))
               PROVE  \E i \in ChildId : /\ Serves(i, a)'
                                         /\ TrafficIn(queue', a)[k].from = Child(i)
    BY DEF FromServing, Traffic, Child
  <2>1. PICK m \in 1 .. Len(Traffic(a)) : TrafficIn(queue', a)[k] = Traffic(a)[m]
    OBVIOUS
  <2>2. PICK i \in ChildId : Serves(i, a) /\ Traffic(a)[m].from = Child(i)
    BY DEF SocketInv, FromServing
  <2> QED
    BY <2>1, <2>2 DEF Serves, Born
<1>5. Answered'
  BY DEF Answered, Serves, Born, Me
<1>6. KeepsOwn'
  BY DEF SocketInv, KeepsOwn, Child
<1> QED
  BY <1>2, <1>3, <1>4, <1>5, <1>6 DEF SocketInv

(* A step of a client that keeps its socket, or closes it.                 *)
LEMMA ClientSockets ==
    ASSUME IInv, SocketInv, NEW c \in Clients, UNCHANGED <<sock, child>>,
           \A d \in Clients \ {c} : cstate'[d] = cstate[d],
           cstate'[c] \in {"FILE_OK", "RECV_DATA", "RR_SENT"} =>
               \E i \in ChildId : Serves(i, Me(c)),
           \/ TrafficIn(queue', Me(c)) = Traffic(Me(c))
           \/ Len(TrafficIn(queue', Me(c))) = 0
           \/ \E k \in 1 .. Len(Traffic(Me(c))) :
                  Taken(Traffic(Me(c)), TrafficIn(queue', Me(c)), k),
           \A b \in (Clients \X Nat) \cup {Main} :
               b # Me(c) => TrafficIn(queue', b) = Traffic(b)
    PROVE  SocketInv'
<1>1. TrafficIn(queue', Main) = Traffic(Main)
  BY Addresses
<1>2. ASSUME NEW a \in Clients \X Nat, NEW k \in 1 .. Len(TrafficIn(queue', a))
      PROVE  \E m \in 1 .. Len(Traffic(a)) : TrafficIn(queue', a)[k] = Traffic(a)[m]
  <2>1. CASE TrafficIn(queue', a) = Traffic(a)
    BY <2>1
  <2>2. CASE a = Me(c) /\ Len(TrafficIn(queue', Me(c))) = 0
    BY <2>2
  <2>3. CASE /\ a = Me(c)
             /\ \E j \in 1 .. Len(Traffic(a)) :
                   Taken(Traffic(a), TrafficIn(queue', a), j)
    <3>1. PICK j \in 1 .. Len(Traffic(a)) :
                   Taken(Traffic(a), TrafficIn(queue', a), j)
      BY <2>3
    <3>2. Len(Traffic(a)) \in Nat
      BY TrafficType DEF IInv
    <3>3. (IF k < j THEN k ELSE k + 1) \in 1 .. Len(Traffic(a))
      BY <3>1, <3>2 DEF Taken
    <3> QED
      BY <3>1, <3>3 DEF Taken
  <2> QED
    BY <2>1, <2>2, <2>3
<1>3. ASSUME NEW d \in Clients,
             cstate'[d] \in {"FILE_OK", "RECV_DATA", "RR_SENT"}
      PROVE  \E i \in ChildId : Serves(i, Me(d))
  BY <1>3 DEF SocketInv, Answered
<1> QED
  BY <1>1, <1>2, <1>3, QuietSockets

(* A client opens a new socket and sends its request.                      *)
LEMMA StartSockets ==
    ASSUME Once, IInv, SocketInv, NEW c \in Clients, NEW o \in Outcome,
           StartState(c, o), UNCHANGED serverVars
    PROVE  SocketInv'
<1> DEFINE new == <<c, sock[c] + 1>>
           q == OpenSocket(CloseSocket(queue, Me(c)), new)
           p == createHeader("FNAME", 0, c, new)
<1>1. /\ queue' = safeSendto(q, Main, p, o)
      /\ sock' = [sock EXCEPT ![c] = @ + 1]
      /\ cstate' = [cstate EXCEPT ![c] = "FILENAME"]
      /\ child' = child
  BY DEF StartState, Goto, serverVars
<1>2. /\ sock \in [Clients -> Nat]
      /\ cstate \in [Clients -> ClientState]
      /\ new \in Clients \X Nat
      /\ Main # new /\ Main # Me(c)
  BY SMTT(30), Addresses DEF IInv, TypeOK
<1>3. p \in Packet /\ p.from = new /\ Corrupted(p).from = new
  BY <1>2 DEF createHeader, Corrupted, Packet, FLAG, Load, Address
<1>4. \A b : TrafficIn(q, b) = IF b = new \/ b = Me(c) THEN <<>> ELSE Traffic(b)
  BY SocketTraffic DEF Traffic
<1> HIDE DEF p, q
<1>5. Main \in DOMAIN q => q[Main] \in Seq(Packet)
  <2>1. TrafficIn(q, Main) \in Seq(Packet)
    BY <1>2, <1>4, TrafficType DEF IInv
  <2> QED
    BY <2>1 DEF TrafficIn
<1>6. /\ Sent(Traffic(Main), TrafficIn(queue', Main), p)
      /\ \A b : b # Main => TrafficIn(queue', b) = TrafficIn(q, b)
  BY <1>1, <1>2, <1>3, <1>4, <1>5, SendTraffic
<1> HIDE DEF new
<1>7. /\ \A d \in Clients : sock'[d] \in Nat /\ sock[d] \in Nat /\ sock'[d] >= sock[d]
      /\ new[1] = c /\ new[2] = sock'[c] /\ new[2] > sock[c]
      /\ \A d \in Clients \ {c} : sock'[d] = sock[d] /\ cstate'[d] = cstate[d]
      /\ cstate'[c] = "FILENAME"
  BY <1>1, <1>2 DEF new
<1>8. ServedOnce'
  <2>1. \A i \in ChildId : Born(i) => child[i].remote \in Clients \X Nat
                                      /\ ClientOf(i) \in Clients
    BY Addresses
  <2>2. ASSUME NEW i \in ChildId, Born(i)
        PROVE  /\ child[i].remote[2] <= sock'[ClientOf(i)]
               /\ \A j \in ChildId : Serves(j, child[i].remote) => i = j
    <3>1. child[i].remote[2] <= sock[ClientOf(i)] /\ child[i].remote[2] \in Nat
      BY <2>1, <2>2 DEF SocketInv, ServedOnce
    <3> QED
      BY <1>7, <2>1, <2>2, <3>1 DEF SocketInv, ServedOnce
  <2> QED
    BY <1>1, <2>2 DEF ServedOnce, Serves, Born, ClientOf
<1>9. \A i \in ChildId : ~ Serves(i, new)
  <2> SUFFICES ASSUME NEW i \in ChildId, Serves(i, new) PROVE FALSE
    OBVIOUS
  <2>1. new[2] <= sock[c]
    BY <1>7 DEF SocketInv, ServedOnce, Serves, ClientOf
  <2> QED
    BY <1>2, <1>7, <2>1
<1>10. AskedOnce'
  <2> DEFINE s == Traffic(Main)
             t == TrafficIn(queue', Main)
  <2>1. Len(s) \in Nat
    BY TrafficType DEF IInv
  <2>2. ASSUME NEW k \in 1 .. Len(s)
        PROVE  /\ s[k].from[1] \in Clients
               /\ s[k].from[2] \in Nat
               /\ s[k].from[2] <= sock[s[k].from[1]]
               /\ s[k].from # new
               /\ \A i \in ChildId : ~ Serves(i, s[k].from)
               /\ \A m \in 1 .. Len(s) : s[m].from = s[k].from => m = k
    <3>1. s[k].from \in Clients \X Nat
      BY Requests
    <3>2. /\ s[k].from[2] <= sock[s[k].from[1]]
          /\ \A i \in ChildId : ~ Serves(i, s[k].from)
          /\ \A m \in 1 .. Len(s) : s[m].from = s[k].from => m = k
      BY DEF SocketInv, AskedOnce
    <3> QED
      BY <1>7, <3>1, <3>2
  <2> HIDE DEF s, t
  <2>3. ASSUME NEW k \in 1 .. Len(t)
        PROVE  /\ t[k].from[2] <= sock'[t[k].from[1]]
               /\ \A i \in ChildId : ~ Serves(i, t[k].from)
               /\ \A m \in 1 .. Len(t) : t[m].from = t[k].from => m = k
    <3>1. CASE t = s
      BY <1>7, <2>2, <3>1
    <3>2. CASE /\ Len(t) = Len(s) + 1
               /\ \A m \in 1 .. Len(s) : t[m] = s[m]
               /\ t[Len(s) + 1].from = new
      <4>1. \A m \in 1 .. Len(t) : m \in 1 .. Len(s) \/ m = Len(s) + 1
        BY <2>1, <3>2
      <4>2. CASE k \in 1 .. Len(s)
        <5>1. t[k] = s[k]
          BY <3>2, <4>2
        <5>2. t[k].from[2] <= sock'[t[k].from[1]]
          BY SMTT(30), <1>7, <2>2, <4>2, <5>1
        <5> QED
          BY <2>2, <3>2, <4>1, <4>2, <5>1, <5>2
      <4>3. CASE k = Len(s) + 1
        <5>1. t[k].from = new
          BY <3>2, <4>3
        <5>2. t[k].from[2] <= sock'[t[k].from[1]]
          BY <1>7, <5>1
        <5> QED
          BY <1>9, <2>2, <3>2, <4>1, <4>3, <5>1, <5>2
      <4> QED
        BY <4>1, <4>2, <4>3
    <3> QED
      BY <1>3, <1>6, <3>1, <3>2 DEF Sent, s, t
  <2>4. t = Traffic(Main)'
    BY DEF t, Traffic, Main
  <2> QED
    BY <1>1, <2>3, <2>4 DEF AskedOnce, Serves, Born
<1>11. FromServing'
  <2> SUFFICES ASSUME NEW a \in Clients \X Nat,
                      NEW k \in 1 .. Len(TrafficIn(queue', a))
               PROVE  \E i \in ChildId : /\ Serves(i, a)'
                                         /\ TrafficIn(queue', a)[k].from = Child(i)
    BY DEF FromServing, Traffic, Child
  <2>1. TrafficIn(queue', a) = TrafficIn(q, a)
    BY <1>6, Addresses
  <2>2. TrafficIn(q, a) = <<>> \/ TrafficIn(q, a) = Traffic(a)
    BY <1>4
  <2>3. TrafficIn(q, a) = Traffic(a)
    <3>1. Len(<<>>) = 0
      BY EmptySeq
    <3> QED
      BY <2>1, <2>2, <3>1
  <2> QED
    BY <1>1, <2>1, <2>3 DEF SocketInv, FromServing, Serves, Born
<1>12. Answered'
  <2>1. \A d \in Clients \ {c} : Me(d)' = Me(d)
    BY <1>7 DEF Me
  <2> QED
    BY <1>1, <1>7, <2>1 DEF SocketInv, Answered, Serves, Born
<1>13. KeepsOwn'
  BY <1>1 DEF SocketInv, KeepsOwn, Child
<1> QED
  BY <1>8, <1>10, <1>11, <1>12, <1>13 DEF SocketInv

(* The packet a client receives, and what it leaves on its way.            *)
LEMMA ClientTakes ==
    ASSUME IInv, NEW c \in Clients,
           cstate[c] \in {"FILENAME", "FILE_OK", "RECV_DATA"},
           NEW k \in Arrivals(Me(c))
    PROVE  /\ queue[Me(c)] = Traffic(Me(c))
           /\ k \in 1 .. Len(Traffic(Me(c)))
           /\ Taken(Traffic(Me(c)),
                    TrafficIn(safeRecvfrom(queue, Me(c), k), Me(c)), k)
           /\ \A b : b # Me(c) =>
                 TrafficIn(safeRecvfrom(queue, Me(c), k), b) = Traffic(b)
           /\ \A b : TrafficIn(safeRecvfrom(queue, Me(c), k), b) \in Seq(Packet)
<1>1. Me(c) \in DOMAIN queue /\ k \in 1 .. Len(queue[Me(c)])
  BY ClientSocket
<1>2. \A b : Traffic(b) \in Seq(Packet)
  BY TrafficType DEF IInv
<1>3. queue[Me(c)] = Traffic(Me(c))
  BY <1>1 DEF Traffic, TrafficIn
<1>4. queue[Me(c)] \in Seq(Packet)
  BY <1>2, <1>3
<1>5. /\ Taken(Traffic(Me(c)),
               TrafficIn(safeRecvfrom(queue, Me(c), k), Me(c)), k)
      /\ \A b : b # Me(c) =>
            TrafficIn(safeRecvfrom(queue, Me(c), k), b) = Traffic(b)
      /\ safeRecvfrom(queue, Me(c), k)[Me(c)] \in Seq(Packet)
  BY <1>1, <1>4, ReceiveTraffic DEF Traffic
<1>6. Me(c) \in DOMAIN safeRecvfrom(queue, Me(c), k)
  BY <1>1 DEF safeRecvfrom
<1> QED
  BY <1>1, <1>2, <1>3, <1>5, <1>6 DEF TrafficIn

(* The answer of a client goes to the child that serves it.                *)
LEMMA ClientAnswers ==
    ASSUME Once, IInv, SocketInv, NEW c \in Clients, cstate[c] = "RECV_DATA",
           NEW k \in Arrivals(Me(c)), NEW o \in Outcome,
           NEW flag \in FLAG, NEW load \in Nat
    PROVE  LET q == Answer(c, k, flag, load, o)
               r == createHeader(flag, 0, load, Me(c))
           IN  \E i \in ChildId :
                 /\ Serves(i, Me(c))
                 /\ Taken(Traffic(Me(c)), TrafficIn(q, Me(c)), k)
                 /\ Sent(Traffic(Child(i)), TrafficIn(q, Child(i)), r)
                 /\ \A b : b # Me(c) /\ b # Child(i) =>
                        TrafficIn(q, b) = Traffic(b)
<1> DEFINE q1 == safeRecvfrom(queue, Me(c), k)
           q == Answer(c, k, flag, load, o)
           r == createHeader(flag, 0, load, Me(c))
<1>1. /\ queue[Me(c)] = Traffic(Me(c))
      /\ k \in 1 .. Len(Traffic(Me(c)))
      /\ Taken(Traffic(Me(c)), TrafficIn(q1, Me(c)), k)
      /\ \A b : b # Me(c) => TrafficIn(q1, b) = Traffic(b)
      /\ \A b : TrafficIn(q1, b) \in Seq(Packet)
  BY ClientTakes
<1>2. Me(c) \in Clients \X Nat
  BY Addresses
<1>3. PICK i \in ChildId :
          Serves(i, Me(c)) /\ Traffic(Me(c))[k].from = Child(i)
  BY <1>1, <1>2 DEF SocketInv, FromServing
<1>4. Child(i) # Me(c)
  BY <1>2, Addresses
<1>5. r \in Packet
  BY <1>2 DEF createHeader, Packet, Load, Address
<1> HIDE DEF q1
<1>6. q = safeSendto(q1, Child(i), r, o)
  BY <1>1, <1>3 DEF Answer, q1
<1> HIDE DEF r
<1>7. Child(i) \in DOMAIN q1 => q1[Child(i)] \in Seq(Packet)
  BY <1>1 DEF TrafficIn
<1>8. /\ Sent(TrafficIn(q1, Child(i)), TrafficIn(safeSendto(q1, Child(i), r, o), Child(i)), r)
      /\ \A b : b # Child(i) =>
            TrafficIn(safeSendto(q1, Child(i), r, o), b) = TrafficIn(q1, b)
  BY <1>5, <1>7, SendTraffic
<1> HIDE DEF q
<1>9. /\ Serves(i, Me(c))
      /\ Taken(Traffic(Me(c)), TrafficIn(q, Me(c)), k)
      /\ Sent(Traffic(Child(i)), TrafficIn(q, Child(i)), r)
      /\ \A b : b # Me(c) /\ b # Child(i) => TrafficIn(q, b) = Traffic(b)
  BY <1>1, <1>3, <1>4, <1>6, <1>8
<1> QED
  BY <1>9 DEF q, r

(* The end of a client.                                                    *)
LEMMA ExitTraffic ==
    ASSUME NEW c \in Clients, NEW message, NEW q, Exit(c, message, q)
    PROVE  /\ Len(TrafficIn(queue', Me(c))) = 0
           /\ \A b : b # Me(c) => TrafficIn(queue', b) = TrafficIn(q, b)
           /\ cstate' = [cstate EXCEPT ![c] = "DONE"]
           /\ said' = [said EXCEPT ![c] = message]
BY SocketTraffic, EmptySeq DEF Exit, Goto

(* Every step of a client.                                                 *)
LEMMA ClientStepSockets ==
    ASSUME Once, IInv, SocketInv, NEW c \in Clients, ClientStep(c),
           UNCHANGED serverVars
    PROVE  SocketInv'
<1>0. /\ cstate \in [Clients -> ClientState]
      /\ said \in [Clients -> ClientMessage]
      /\ child' = child
      /\ \A b : TrafficIn(queue, b) = Traffic(b)
  BY DEF IInv, TypeOK, serverVars, Traffic
<1>1. ASSUME sock' = sock, NEW m, NEW q, Exit(c, m, q),
             \A b \in (Clients \X Nat) \cup {Main} :
                 b # Me(c) => TrafficIn(q, b) = Traffic(b)
      PROVE  SocketInv'
  <2>1. /\ Len(TrafficIn(queue', Me(c))) = 0
        /\ \A b : b # Me(c) => TrafficIn(queue', b) = TrafficIn(q, b)
        /\ cstate' = [cstate EXCEPT ![c] = "DONE"]
    BY <1>1, ExitTraffic
  <2> QED
    BY <1>0, <1>1, <2>1, ClientSockets
<1>2. CASE StartStateNoHost(c) \/ FilenameGiveUp(c) \/ FileOkFails(c)
           \/ RecvDataTimeout(c) \/ StartStateSendFails(c) \/ FileDone(c)
  BY <1>0, <1>1, <1>2
     DEF StartStateNoHost, FilenameGiveUp, FileOkFails, RecvDataTimeout,
         StartStateSendFails, FileDone
<1>3. CASE FilenameTimeout(c) \/ FileOk(c) \/ WriteBlock(c)
  <2>1. CASE FilenameTimeout(c)
    BY <1>0, <2>1, ClientSockets DEF FilenameTimeout, Goto
  <2>2. CASE FileOk(c)
    <3>1. \E i \in ChildId : Serves(i, Me(c))
      BY <2>2 DEF FileOk, SocketInv, Answered
    <3> QED
      BY <1>0, <2>2, <3>1, ClientSockets DEF FileOk, Goto
  <2>3. CASE WriteBlock(c)
    <3>1. \E i \in ChildId : Serves(i, Me(c))
      BY <2>3 DEF WriteBlock, SocketInv, Answered
    <3> QED
      BY <1>0, <2>3, <3>1, ClientSockets DEF WriteBlock, Goto
  <2> QED
    BY <1>3, <2>1, <2>2, <2>3
<1>4. ASSUME cstate[c] \in {"FILENAME", "RECV_DATA"},
             NEW k \in Arrivals(Me(c)), ClientReceives(c, k)
      PROVE  SocketInv'
  <2> DEFINE q == safeRecvfrom(queue, Me(c), k)
  <2>1. /\ k \in 1 .. Len(Traffic(Me(c)))
        /\ Taken(Traffic(Me(c)), TrafficIn(q, Me(c)), k)
        /\ \A b : b # Me(c) => TrafficIn(q, b) = Traffic(b)
    BY <1>4, ClientTakes
  <2>2. \E i \in ChildId : Serves(i, Me(c))
    BY <2>1, Addresses DEF SocketInv, FromServing
  <2>3. ASSUME queue' = q, sock' = sock,
               \A d \in Clients \ {c} : cstate'[d] = cstate[d]
        PROVE  SocketInv'
    BY <1>0, <2>1, <2>2, <2>3, ClientSockets
  <2> HIDE DEF q
  <2>4. CASE FilenameCorrupt(c, k) \/ FilenameOk(c, k) \/ RecvDataCorrupt(c, k)
    BY <1>0, <2>3, <2>4
       DEF FilenameCorrupt, FilenameOk, RecvDataCorrupt, FilenameReady, Goto,
           rcopyVars, q
  <2>5. CASE FilenameBad(c, k)
    <3>1. sock' = sock /\ Exit(c, "not found", q)
      BY <2>5 DEF FilenameBad, FilenameReady, q
    <3> QED
      BY <1>1, <2>1, <3>1
  <2>6. ASSUME NEW o \in Outcome, RecvData(c, k, o)
        PROVE  SocketInv'
    <3>1. cstate[c] = "RECV_DATA" /\ sock' = sock
      BY <2>6 DEF RecvData, RecvEndOfFile, RecvOld, RecvExpected, RecvAhead,
                  NotEndOfFile
    <3>2. queue[Me(c)][k].seq \in Nat
      <4>1. queue[Me(c)] = Traffic(Me(c)) /\ Traffic(Me(c)) \in Seq(Packet)
        BY <1>4, ClientTakes, TrafficType DEF IInv
      <4>2. Traffic(Me(c))[k] \in Packet
        BY <2>1, <4>1, ElementOfSeq
      <4> QED
        BY <4>1, <4>2 DEF Packet
    <3>3. ASSUME NEW flag \in FLAG, NEW load \in Nat
          PROVE  LET r == Answer(c, k, flag, load, o)
                 IN  /\ Taken(Traffic(Me(c)), TrafficIn(r, Me(c)), k)
                     /\ \A b \in (Clients \X Nat) \cup {Main} :
                           b # Me(c) => TrafficIn(r, b) = Traffic(b)
      BY <3>1, ClientAnswers, Addresses
    <3>4. ASSUME NEW flag \in FLAG, NEW load \in Nat,
                 queue' = Answer(c, k, flag, load, o),
                 \A d \in Clients \ {c} : cstate'[d] = cstate[d]
          PROVE  SocketInv'
      BY <1>0, <2>1, <2>2, <3>1, <3>3, <3>4, ClientSockets
    <3>5. CASE RecvEndOfFile(c, k, o)
      BY <1>0, <3>4, <3>5 DEF RecvEndOfFile, FLAG, Goto
    <3>6. CASE RecvOld(c, k, o)
      BY <3>2, <3>4, <3>6 DEF RecvOld, FLAG
    <3>7. CASE RecvExpected(c, k, o)
      BY <1>0, <3>2, <3>4, <3>7 DEF RecvExpected, FLAG, Goto
    <3>8. CASE RecvAhead(c, k, o)
      <4> DEFINE r == Answer(c, k, "SREJ", SrejByte(queue[Me(c)][k].seq), o)
      <4>1. SrejByte(queue[Me(c)][k].seq) \in Nat
        BY <3>2 DEF SrejByte
      <4>2. \/ queue' = r /\ cstate' = cstate
            \/ queue' = CloseSocket(r, Me(c)) /\ cstate' = [cstate EXCEPT ![c] = "CRASHED"]
        BY <3>8 DEF RecvAhead, Goto
      <4>3. CASE queue' = r /\ cstate' = cstate
        BY <3>4, <4>1, <4>3 DEF FLAG
      <4>4. CASE /\ queue' = CloseSocket(r, Me(c))
                 /\ cstate' = [cstate EXCEPT ![c] = "CRASHED"]
        <5>1. \A b \in (Clients \X Nat) \cup {Main} :
                   b # Me(c) => TrafficIn(r, b) = Traffic(b)
          BY <3>3, <4>1 DEF FLAG
        <5> HIDE DEF r
        <5>2. /\ Len(TrafficIn(queue', Me(c))) = 0
              /\ \A b : b # Me(c) => TrafficIn(queue', b) = TrafficIn(r, b)
          BY <4>4, SocketTraffic, EmptySeq
        <5> QED
          BY <1>0, <3>1, <4>4, <5>1, <5>2, ClientSockets
      <4> QED
        BY <4>2, <4>3, <4>4
    <3> QED
      BY <2>6, <3>5, <3>6, <3>7, <3>8 DEF RecvData
  <2>7. CASE RecvDataSendFails(c, k)
    BY <1>0, <1>1, <2>7 DEF RecvDataSendFails
  <2> QED
    BY <1>4, <2>4, <2>5, <2>6, <2>7 DEF ClientReceives
<1> QED
  BY <1>2, <1>3, <1>4, StartSockets DEF ClientStep

(* A step of a child that has its socket, and may send p to its client.    *)
LEMMA ChildSockets ==
    ASSUME IInv, SocketInv, NEW i \in ChildId, Born(i),
           UNCHANGED <<cstate, sock>>,
           child'[i].remote = child[i].remote,
           child'[i].state # "UNBORN",
           \A j \in ChildId \ {i} : child'[j] = child[j],
           NEW p, p.from = Child(i),
           Sent(Traffic(child[i].remote), TrafficIn(queue', child[i].remote), p),
           \A b : b # child[i].remote /\ b # Child(i) =>
                      TrafficIn(queue', b) = Traffic(b),
           child'[i].state \in {"WAIT_ON_ACK", "TIMEOUT_ON_ACK",
                    "WAIT_ON_EOF_ACK", "TIMEOUT_ON_EOF_ACK", "BLOCKED"} =>
               child'[i].packet.from = Child(i)
    PROVE  SocketInv'
<1>1. PICK a : a = child[i].remote
  OBVIOUS
<1>2. /\ a \in Clients \X Nat
      /\ Child(i) \notin Clients \X Nat
      /\ Child(i) # Main /\ a # Main
  BY <1>1, Addresses
<1>3. \A j \in ChildId :
         /\ child'[j].remote = child[j].remote
         /\ child'[j].state = "UNBORN" <=> child[j].state = "UNBORN"
  BY DEF Born
<1>4. AskedOnce'
  <2>1. Traffic(Main)' = Traffic(Main)
    <3>1. TrafficIn(queue', Main) = Traffic(Main)
      BY <1>1, <1>2
    <3> QED
      BY <3>1 DEF Traffic, Main
  <2> QED
    BY <1>3, <2>1 DEF SocketInv, AskedOnce, Serves, Born
<1>5. ServedOnce'
  BY <1>3 DEF SocketInv, ServedOnce, Serves, Born, ClientOf
<1>6. FromServing'
  <2> SUFFICES ASSUME NEW b \in Clients \X Nat,
                      NEW k \in 1 .. Len(TrafficIn(queue', b))
               PROVE  \E j \in ChildId : /\ Serves(j, b)
                                         /\ TrafficIn(queue', b)[k].from = Child(j)
    BY <1>3 DEF FromServing, Traffic, Child, Serves, Born
  <2>1. CASE TrafficIn(queue', b) = Traffic(b)
    BY <2>1 DEF SocketInv, FromServing
  <2>2. CASE /\ b = a
             /\ Len(TrafficIn(queue', b)) = Len(Traffic(b)) + 1
             /\ \A m \in 1 .. Len(Traffic(b)) :
                    TrafficIn(queue', b)[m] = Traffic(b)[m]
             /\ TrafficIn(queue', b)[Len(Traffic(b)) + 1] \in {p, Corrupted(p)}
    <3>1. Len(Traffic(b)) \in Nat
      BY TrafficType DEF IInv
    <3>2. CASE k \in 1 .. Len(Traffic(b))
      BY <2>2, <3>2 DEF SocketInv, FromServing
    <3>3. CASE k = Len(Traffic(b)) + 1
      <4>1. TrafficIn(queue', b)[k].from = Child(i)
        BY <2>2, <3>3 DEF Corrupted, createHeader
      <4> QED
        BY <1>1, <2>2, <4>1 DEF Serves
    <3> QED
      BY <2>2, <3>1, <3>2, <3>3
  <2> QED
    BY <1>1, <1>2, <2>1, <2>2 DEF Sent
<1>7. Answered'
  BY <1>3 DEF SocketInv, Answered, Serves, Born, Me
<1>8. KeepsOwn'
  BY DEF SocketInv, KeepsOwn, Child
<1> QED
  BY <1>4, <1>5, <1>6, <1>7, <1>8 DEF SocketInv

(* A child goes on, or ends.                                               *)
LEMMA GotoEffect ==
    ASSUME IInv, NEW i \in ChildId, NEW s, NEW p, NEW n, NEW r,
           ChildGoto(i, s, p, n, r)
    PROVE  /\ child'[i].state = s
           /\ child'[i].packet = p
           /\ child'[i].seq = n
           /\ child'[i].remote = child[i].remote
           /\ child'[i].said = child[i].said
           /\ \A j \in ChildId \ {i} : child'[j] = child[j]
BY DEF ChildGoto, IInv, TypeOK, ChildRecord

(* A child ends.                                                           *)
LEMMA ExitEffect ==
    ASSUME IInv, NEW i \in ChildId, NEW m, NEW q, ChildExit(i, m, q)
    PROVE  /\ child'[i].state = "DONE"
           /\ child'[i].remote = child[i].remote
           /\ child'[i].said = m
           /\ \A j \in ChildId \ {i} : child'[j] = child[j]
           /\ \A b : b # Child(i) => TrafficIn(queue', b) = TrafficIn(q, b)
<1>1. /\ child'[i].state = "DONE"
      /\ child'[i].remote = child[i].remote
      /\ child'[i].said = m
      /\ \A j \in ChildId \ {i} : child'[j] = child[j]
  BY DEF ChildExit, IInv, TypeOK, ChildRecord
<1> QED
  BY <1>1, SocketTraffic DEF ChildExit

(* What a child sends goes to the socket it serves.                        *)
LEMMA ChildSendTraffic ==
    ASSUME Once, IInv, NEW i \in ChildId, Born(i), NEW o \in Outcome,
           NEW p \in Packet
    PROVE  LET a == child[i].remote
               q == safeSendto(queue, a, p, o)
               r == safeSendto(OpenSocket(queue, Child(i)), a, p, o)
           IN  /\ Sent(Traffic(a), TrafficIn(q, a), p)
               /\ \A b : b # a => TrafficIn(q, b) = Traffic(b)
               /\ Sent(Traffic(a), TrafficIn(r, a), p)
               /\ \A b : b # a /\ b # Child(i) => TrafficIn(r, b) = Traffic(b)
               /\ Len(TrafficIn(r, Child(i))) = 0
<1> DEFINE a == child[i].remote
           q1 == OpenSocket(queue, Child(i))
<1>1. a # Child(i)
  BY Addresses
<1>2. \A b : Traffic(b) \in Seq(Packet)
  BY TrafficType DEF IInv
<1>3. \A b : TrafficIn(q1, b) = IF b = Child(i) THEN <<>> ELSE Traffic(b)
  BY SocketTraffic DEF Traffic
<1>4. a \in DOMAIN queue => queue[a] \in Seq(Packet)
  BY <1>2 DEF Traffic, TrafficIn
<1>5. a \in DOMAIN q1 => q1[a] \in Seq(Packet)
  <2>1. TrafficIn(q1, a) \in Seq(Packet)
    BY <1>1, <1>2, <1>3
  <2> QED
    BY <2>1 DEF TrafficIn
<1> HIDE DEF q1
<1>6. /\ Sent(TrafficIn(q1, a), TrafficIn(safeSendto(q1, a, p, o), a), p)
      /\ \A b : b # a => TrafficIn(safeSendto(q1, a, p, o), b) = TrafficIn(q1, b)
  BY <1>5, SendTraffic
<1>7. /\ Sent(TrafficIn(queue, a), TrafficIn(safeSendto(queue, a, p, o), a), p)
      /\ \A b : b # a => TrafficIn(safeSendto(queue, a, p, o), b) = TrafficIn(queue, b)
  BY <1>4, SendTraffic
<1>8. /\ Sent(Traffic(a), TrafficIn(safeSendto(q1, a, p, o), a), p)
      /\ \A b : b # a /\ b # Child(i) =>
             TrafficIn(safeSendto(q1, a, p, o), b) = Traffic(b)
      /\ Len(TrafficIn(safeSendto(q1, a, p, o), Child(i))) = 0
  BY <1>1, <1>3, <1>6, EmptySeq
<1> QED
  BY <1>7, <1>8 DEF q1, Traffic

(* What a child receives is taken from what is on its way to it.           *)
LEMMA ChildTakes ==
    ASSUME IInv, NEW i \in ChildId,
           child[i].state \notin {"UNBORN", "FILENAME", "DONE"},
           NEW k \in Arrivals(Child(i))
    PROVE  LET q == safeRecvfrom(queue, Child(i), k)
           IN  /\ queue[Child(i)] = Traffic(Child(i))
               /\ k \in 1 .. Len(Traffic(Child(i)))
               /\ Taken(Traffic(Child(i)), TrafficIn(q, Child(i)), k)
               /\ \A b : b # Child(i) => TrafficIn(q, b) = Traffic(b)
<1>1. Child(i) \in DOMAIN queue /\ k \in 1 .. Len(queue[Child(i)])
  BY DEF IInv, SocketsOK, Arrivals
<1>2. queue[Child(i)] = Traffic(Child(i))
  BY <1>1 DEF Traffic, TrafficIn
<1>3. queue[Child(i)] \in Seq(Packet)
  BY <1>2, TrafficType DEF IInv
<1>4. /\ Taken(TrafficIn(queue, Child(i)),
               TrafficIn(safeRecvfrom(queue, Child(i), k), Child(i)), k)
      /\ \A b : b # Child(i) =>
            TrafficIn(safeRecvfrom(queue, Child(i), k), b) = TrafficIn(queue, b)
  BY <1>1, <1>3, ReceiveTraffic
<1> QED
  BY <1>1, <1>2, <1>4 DEF Traffic

(* Every step of a child.                                                  *)
LEMMA ChildStepSockets ==
    ASSUME Once, IInv, SocketInv, NEW i \in ChildId, ChildStep(i),
           UNCHANGED rcopyVars
    PROVE  SocketInv'
<1> DEFINE a == child[i].remote
           Kept == {"WAIT_ON_ACK", "TIMEOUT_ON_ACK", "WAIT_ON_EOF_ACK",
                    "TIMEOUT_ON_EOF_ACK", "BLOCKED"}
<1>0. /\ Born(i)
      /\ child[i].packet \in Packet
      /\ cstate' = cstate /\ sock' = sock
      /\ child[i].state \in Kept => child[i].packet.from = Child(i)
  <2>1. Born(i)
    BY DEF Born, ChildStep, ChildSends, FilenameOpens, FilenameFails, SendBlock,
           SendEndOfFile, TimeoutOnAck, TimeoutOnEofAck, SendDataReadError,
           WaitOnAckGiveUp, WaitOnEofAckGiveUp, WaitOnAckTimeout,
           WaitOnEofAckTimeout, ChildSendFails, In
  <2> QED
    BY <2>1, ChildFacts DEF Born, rcopyVars, SocketInv, KeepsOwn
<1>1. ASSUME NEW p, p.from = Child(i), NEW q, Sent(Traffic(a), TrafficIn(q, a), p),
             \A b : b # a /\ b # Child(i) => TrafficIn(q, b) = Traffic(b)
      PROVE  /\ \A m : ChildExit(i, m, q) => SocketInv'
             /\ \A s, x, n, r :
                   /\ ChildGoto(i, s, x, n, r) /\ queue' = q
                   /\ s # "UNBORN" /\ (s \in Kept => x.from = Child(i))
                   => SocketInv'
  <2>1. a # Child(i)
    BY <1>0, Addresses
  <2>2. ASSUME NEW m, ChildExit(i, m, q) PROVE SocketInv'
    <3>1. /\ child'[i].state = "DONE"
          /\ child'[i].remote = child[i].remote
          /\ \A j \in ChildId \ {i} : child'[j] = child[j]
          /\ \A b : b # Child(i) => TrafficIn(queue', b) = TrafficIn(q, b)
      BY <2>2, ExitEffect
    <3>2. /\ Sent(Traffic(a), TrafficIn(queue', a), p)
          /\ \A b : b # a /\ b # Child(i) => TrafficIn(queue', b) = Traffic(b)
      BY <1>1, <2>1, <3>1
    <3> QED
      BY <1>0, <1>1, <3>1, <3>2, ChildSockets
  <2>3. ASSUME NEW s, NEW x, NEW n, NEW r,
               ChildGoto(i, s, x, n, r), queue' = q,
               s # "UNBORN", s \in Kept => x.from = Child(i)
        PROVE  SocketInv'
    <3>1. /\ child'[i].state = s
          /\ child'[i].packet = x
          /\ child'[i].remote = child[i].remote
          /\ \A j \in ChildId \ {i} : child'[j] = child[j]
      BY <2>3, GotoEffect
    <3> QED
      BY <1>0, <1>1, <2>3, <3>1, ChildSockets
  <2> QED
    BY <2>2, <2>3
<1>2. \A flag, n, load : createHeader(flag, n, load, Child(i)).from = Child(i)
  BY DEF createHeader
<1>3. ASSUME NEW q,
             \A b : b # Child(i) => TrafficIn(q, b) = Traffic(b)
      PROVE  /\ \A m : ChildExit(i, m, q) => SocketInv'
             /\ \A s, n, r :
                   /\ ChildGoto(i, s, child[i].packet, n, r) /\ queue' = q
                   /\ s # "UNBORN" /\ (s \in Kept => child[i].state \in Kept)
                   => SocketInv'
  <2> DEFINE p == createHeader("CRC_ERROR", 0, 0, Child(i))
  <2>1. p.from = Child(i) /\ Sent(Traffic(a), TrafficIn(q, a), p)
    BY <1>0, <1>2, <1>3, Addresses DEF Sent
  <2> HIDE DEF p
  <2> QED
    BY <1>0, <1>1, <1>3, <2>1
<1>4. ASSUME NEW o \in Outcome, ChildSends(i, o) PROVE SocketInv'
  <2> DEFINE q(p) == safeSendto(queue, a, p, o)
             r(p) == safeSendto(OpenSocket(queue, Child(i)), a, p, o)
  <2>1. \A p \in Packet :
           /\ Sent(Traffic(a), TrafficIn(q(p), a), p)
           /\ \A b : b # a => TrafficIn(q(p), b) = Traffic(b)
           /\ Sent(Traffic(a), TrafficIn(r(p), a), p)
           /\ \A b : b # a /\ b # Child(i) => TrafficIn(r(p), b) = Traffic(b)
    BY <1>0, ChildSendTraffic
  <2> HIDE DEF q, r
  <2>2. CASE FilenameOpens(i, o) \/ FilenameFails(i, o)
    <3>1. PICK p \in {createHeader("FNAME_OK", 0, 0, Child(i)),
                      createHeader("FNAME_BAD", 0, 0, Child(i))} :
             \/ ChildExit(i, "FNAME_BAD", r(p))
             \/ /\ ChildGoto(i, "SEND_DATA", child[i].packet, child[i].seq,
                             child[i].retry)
                /\ queue' = r(p)
      BY <2>2 DEF FilenameOpens, FilenameFails, ChildMoves, r
    <3>2. p \in Packet /\ p.from = Child(i)
      <4>1. child[i].state # "UNBORN"
        BY <1>0 DEF Born
      <4>2. PICK flag \in {"FNAME_OK", "FNAME_BAD"} : p = createHeader(flag, 0, 0, Child(i))
        BY <3>1
      <4>3. createHeader(flag, 0, 0, Child(i)) \in Good(child[i].remote, Has)
        BY <1>0, <4>1, <4>2, ChildPacketGood
      <4>4. p \in Packet
        BY <4>2, <4>3 DEF Good
      <4> QED BY <1>2, <4>2, <4>4
    <3> QED
      BY <1>1, <2>1, <3>1, <3>2
  <2>3. CASE SendBlock(i, o)
    <3>1. PICK p \in {createHeader("DATA", child[i].seq, Blocks(i)[child[i].seq],
                                   Child(i))} :
             /\ p \in Packet
             /\ ChildGoto(i, "WAIT_ON_ACK", p, child[i].seq + 1, child[i].retry)
             /\ queue' = q(p)
      BY <1>0, <2>3, ChildPacketGood DEF SendBlock, SendPacket, q, Good, Born
    <3>2. p.from = Child(i)
      BY <1>2
    <3> QED
      BY <1>1, <2>1, <3>1, <3>2
  <2>4. CASE SendEndOfFile(i, o)
    <3>1. PICK p \in {createHeader("END_OF_FILE", child[i].seq, 0, Child(i))} :
             /\ p \in Packet
             /\ ChildGoto(i, "WAIT_ON_EOF_ACK", p, child[i].seq, child[i].retry)
             /\ queue' = q(p)
      BY <1>0, <2>4, ChildPacketGood DEF SendEndOfFile, SendPacket, q, Good, Born
    <3>2. p.from = Child(i)
      BY <1>2
    <3> QED
      BY <1>1, <2>1, <3>1, <3>2
  <2>5. CASE TimeoutOnAck(i, o) \/ TimeoutOnEofAck(i, o)
    <3>1. PICK p : p = child[i].packet
      OBVIOUS
    <3>2. /\ child[i].state \in Kept /\ queue' = q(p)
          /\ \E s \in Kept : ChildGoto(i, s, p, child[i].seq, child[i].retry)
      BY <2>5, <3>1 DEF TimeoutOnAck, TimeoutOnEofAck, ChildMoves, In, q
    <3>3. p \in Packet /\ p.from = Child(i)
      BY <1>0, <3>1, <3>2
    <3> QED
      BY <1>1, <2>1, <3>2, <3>3
  <2> QED
    BY <1>4, <2>2, <2>3, <2>4, <2>5 DEF ChildSends
<1>5. ASSUME NEW k \in Arrivals(Child(i)), ChildReceives(i, k),
             child[i].state \in {"WAIT_ON_ACK", "WAIT_ON_EOF_ACK", "BLOCKED"}
      PROVE  SocketInv'
  <2> DEFINE q == safeRecvfrom(queue, Child(i), k)
  <2>1. \A b : b # Child(i) => TrafficIn(q, b) = Traffic(b)
    BY <1>5, ChildTakes
  <2>2. \/ \E m : ChildExit(i, m, q)
        \/ /\ queue' = q
           /\ \E s \in Kept \cup {"SEND_DATA"} : \E r :
                 ChildGoto(i, s, child[i].packet, child[i].seq, r)
    BY <1>5 DEF ChildReceives, WaitOnAckCorrupt, WaitOnAckRR, WaitOnAckOther,
                EofAckCorrupt, EofAck, EofAckOther, ChildMoves
  <2> HIDE DEF q
  <2> QED
    BY <1>3, <1>5, <2>1, <2>2
<1>6. CASE \/ SendDataReadError(i) \/ WaitOnAckGiveUp(i)
           \/ WaitOnEofAckGiveUp(i) \/ WaitOnAckTimeout(i)
           \/ WaitOnEofAckTimeout(i) \/ ChildSendFails(i)
  <2>1. \A b : TrafficIn(queue, b) = Traffic(b)
    BY DEF Traffic
  <2>2. \/ \E m : ChildExit(i, m, queue)
        \/ /\ queue' = queue
           /\ child[i].state \in Kept
           /\ \E s \in Kept : \E r :
                 ChildGoto(i, s, child[i].packet, child[i].seq, r)
    BY <1>6 DEF SendDataReadError, WaitOnAckGiveUp, WaitOnEofAckGiveUp,
                WaitOnAckTimeout, WaitOnEofAckTimeout, ChildSendFails,
                ChildMoves, In
  <2> QED
    BY <1>3, <2>1, <2>2
<1> QED
  BY <1>4, <1>5, <1>6 DEF ChildStep

(* A request is taken from the main port.                                  *)
LEMMA MainTakes ==
    ASSUME IInv, listening, NEW k \in Arrivals(Main)
    PROVE  LET q == safeRecvfrom(queue, Main, k)
           IN  /\ queue[Main] = Traffic(Main)
               /\ k \in 1 .. Len(Traffic(Main))
               /\ Taken(Traffic(Main), TrafficIn(q, Main), k)
               /\ \A b : b # Main => TrafficIn(q, b) = Traffic(b)
<1>1. Main \in DOMAIN queue /\ k \in 1 .. Len(queue[Main])
  BY DEF IInv, SocketsOK, Arrivals
<1>2. queue[Main] = Traffic(Main)
  BY <1>1 DEF Traffic, TrafficIn
<1>3. queue[Main] \in Seq(Packet)
  BY <1>2, TrafficType DEF IInv
<1>4. /\ Taken(TrafficIn(queue, Main),
               TrafficIn(safeRecvfrom(queue, Main, k), Main), k)
      /\ \A b : b # Main =>
            TrafficIn(safeRecvfrom(queue, Main, k), b) = TrafficIn(queue, b)
  BY <1>1, <1>3, ReceiveTraffic
<1> QED
  BY <1>1, <1>2, <1>4 DEF Traffic

(* The requests left when one is taken.                                    *)
LEMMA RequestsLeft ==
    ASSUME TypeOK, AskedOnce, NEW k \in 1 .. Len(Traffic(Main)),
           NEW t, Taken(Traffic(Main), t, k), NEW m \in 1 .. Len(t)
    PROVE  LET b == t[m].from
           IN  /\ b # Traffic(Main)[k].from
               /\ b[2] <= sock[b[1]]
               /\ \A i \in ChildId : ~ Serves(i, b)
               /\ \A x \in 1 .. Len(t) : t[x].from = b => x = m
<1> DEFINE s == Traffic(Main)
           at(x) == IF x < k THEN x ELSE x + 1
<1>1. Len(s) \in Nat
  BY TrafficType
<1>2. \A x \in 1 .. Len(t) : at(x) \in 1 .. Len(s) /\ at(x) # k /\ t[x] = s[at(x)]
  BY <1>1 DEF Taken
<1>3. \A x \in 1 .. Len(t) : at(x) = at(m) => x = m
  BY <1>1 DEF Taken
<1> HIDE DEF s, at
<1>4. \A x \in 1 .. Len(s) :
         /\ s[x].from[2] <= sock[s[x].from[1]]
         /\ \A i \in ChildId : ~ Serves(i, s[x].from)
         /\ \A y \in 1 .. Len(s) : s[y].from = s[x].from => y = x
  BY DEF AskedOnce, s
<1>5. t[m] = s[at(m)] /\ at(m) \in 1 .. Len(s) /\ at(m) # k /\ k \in 1 .. Len(s)
  BY <1>2 DEF s
<1>6. t[m].from # s[k].from
  BY <1>4, <1>5
<1>7. \A x \in 1 .. Len(t) : t[x].from = t[m].from => x = m
  BY <1>2, <1>3, <1>4, <1>5
<1> QED
  BY <1>4, <1>5, <1>6, <1>7 DEF s

(* The child that is forked for a request serves the socket it is from,    *)
(* and no other request is from it.                                        *)
LEMMA ForkSockets ==
    ASSUME Once, IInv, SocketInv, NEW i \in ChildId, NEW k \in Arrivals(Main),
           Fork(i, k), UNCHANGED rcopyVars
    PROVE  SocketInv'
<1> DEFINE q == safeRecvfrom(queue, Main, k)
<1>1. /\ queue[Main] = Traffic(Main)
      /\ k \in 1 .. Len(Traffic(Main))
      /\ Taken(Traffic(Main), TrafficIn(q, Main), k)
      /\ \A b : b # Main => TrafficIn(q, b) = Traffic(b)
  BY MainTakes DEF Fork
<1>2. PICK a : a = Traffic(Main)[k].from
  OBVIOUS
<1>3. /\ queue' = q
      /\ cstate' = cstate /\ sock' = sock
      /\ ~ Born(i)
      /\ child'[i].state = "FILENAME"
      /\ child'[i].remote = a
      /\ \A j \in ChildId \ {i} : child'[j] = child[j]
  BY <1>1, <1>2 DEF Fork, NextChild, rcopyVars, Born, IInv, TypeOK, ChildRecord
<1> HIDE DEF q
<1>4. /\ a \in Clients \X Nat
      /\ a[2] <= sock[a[1]]
      /\ \A j \in ChildId : ~ Serves(j, a)
  BY <1>1, <1>2, Requests DEF SocketInv, AskedOnce
<1>5. AskedOnce'
  <2> SUFFICES ASSUME NEW m \in 1 .. Len(TrafficIn(queue', Main))
               PROVE  LET b == TrafficIn(queue', Main)[m].from
                      IN  /\ b[2] <= sock[b[1]]
                          /\ \A j \in ChildId : child'[j].state = "UNBORN"
                                                 \/ child'[j].remote # b
                          /\ \A x \in 1 .. Len(TrafficIn(queue', Main)) :
                                TrafficIn(queue', Main)[x].from = b => x = m
    BY <1>3 DEF AskedOnce, Traffic, Main, Serves, Born
  <2> DEFINE t == TrafficIn(queue', Main)
             b == t[m].from
  <2>1. /\ b # a
        /\ b[2] <= sock[b[1]]
        /\ \A j \in ChildId : ~ Serves(j, b)
        /\ \A x \in 1 .. Len(t) : t[x].from = b => x = m
    BY <1>1, <1>2, <1>3, RequestsLeft DEF IInv, SocketInv
  <2>2. ASSUME NEW j \in ChildId, child'[j].state # "UNBORN", child'[j].remote = b
        PROVE  FALSE
    BY <1>3, <2>1, <2>2 DEF Serves, Born
  <2> QED
    BY <2>1, <2>2
<1>6. ServedOnce'
  <2> SUFFICES ASSUME NEW x \in ChildId, child'[x].state # "UNBORN"
               PROVE  /\ child'[x].remote[2] <= sock[child'[x].remote[1]]
                      /\ \A j \in ChildId : child'[j].state # "UNBORN"
                            /\ child'[j].remote = child'[x].remote => x = j
    BY <1>3 DEF ServedOnce, Born, ClientOf, Serves
  <2>1. CASE x = i
    BY <1>3, <1>4, <2>1 DEF Serves, Born
  <2>2. CASE x # i
    <3>1. child'[x] = child[x] /\ Born(x) /\ child[x].remote # a
      BY <1>3, <1>4, <2>2 DEF Serves, Born
    <3>2. /\ child[x].remote[2] <= sock[child[x].remote[1]]
          /\ \A j \in ChildId : Serves(j, child[x].remote) => x = j
      BY <3>1 DEF SocketInv, ServedOnce, ClientOf
    <3>3. ASSUME NEW j \in ChildId, child'[j].state # "UNBORN",
                 child'[j].remote = child'[x].remote
          PROVE  x = j
      <4>1. j # i
        BY <1>3, <3>1, <3>3
      <4> QED
        BY <1>3, <3>1, <3>2, <3>3, <4>1 DEF Serves, Born
    <3> QED
      BY <3>1, <3>2, <3>3
  <2> QED
    BY <2>1, <2>2
<1>7. \A j \in ChildId : \A b : Serves(j, b) => Serves(j, b)'
  BY <1>3 DEF Serves, Born
<1>8. FromServing'
  <2> SUFFICES ASSUME NEW b \in Clients \X Nat,
                      NEW m \in 1 .. Len(TrafficIn(queue', b))
               PROVE  \E j \in ChildId : /\ Serves(j, b)
                                         /\ TrafficIn(queue', b)[m].from = Child(j)
    BY <1>7 DEF FromServing, Traffic, Child
  <2>1. TrafficIn(queue', b) = Traffic(b)
    BY <1>1, <1>3, Addresses
  <2> QED
    BY <2>1 DEF SocketInv, FromServing
<1>9. Answered'
  <2>1. \A d \in Clients : Me(d)' = Me(d)
    BY <1>3 DEF Me
  <2> QED
    BY <1>3, <1>7, <2>1 DEF SocketInv, Answered
<1>10. KeepsOwn'
  BY <1>3 DEF SocketInv, KeepsOwn, Child
<1> QED
  BY <1>5, <1>6, <1>8, <1>9, <1>10 DEF SocketInv

(* Every step of the main process.                                         *)
LEMMA MainStepSockets ==
    ASSUME Once, IInv, SocketInv, MainStep, UNCHANGED rcopyVars
    PROVE  SocketInv'
<1>1. PICK k \in Arrivals(Main) :
           \/ \E i \in ChildId : Fork(i, k)
           \/ ForkFails(k)
           \/ MainCorrupt(k)
  BY DEF MainStep
<1>2. ASSUME UNCHANGED <<sock, child, cstate>>,
             \A b \in Clients \X Nat : TrafficIn(queue', b) = Traffic(b),
             AskedOnce'
      PROVE  SocketInv'
  <2>1. ServedOnce'
    BY <1>2 DEF SocketInv, ServedOnce, Serves, Born, ClientOf
  <2>2. FromServing'
    BY <1>2 DEF SocketInv, FromServing, Serves, Born, Child, Traffic
  <2>3. Answered' /\ KeepsOwn'
    BY <1>2 DEF SocketInv, Answered, KeepsOwn, Serves, Born, Child, Me
  <2> QED
    BY <1>2, <2>1, <2>2, <2>3 DEF SocketInv
<1>3. CASE ForkFails(k)
  <2>1. /\ Len(TrafficIn(queue', Main)) = 0
        /\ \A b : b # Main => TrafficIn(queue', b) = Traffic(b)
    BY <1>3, SocketTraffic, EmptySeq DEF ForkFails, Traffic
  <2>2. AskedOnce'
    BY <2>1 DEF AskedOnce, Traffic, Main
  <2> QED
    BY <1>2, <1>3, <2>1, <2>2, Addresses DEF ForkFails, rcopyVars
<1>4. CASE MainCorrupt(k)
  <2>1. /\ k \in 1 .. Len(Traffic(Main))
        /\ Taken(Traffic(Main), TrafficIn(queue', Main), k)
        /\ \A b : b # Main => TrafficIn(queue', b) = Traffic(b)
    BY <1>4, MainTakes DEF MainCorrupt
  <2>2. child' = child /\ sock' = sock /\ cstate' = cstate
    BY <1>4 DEF MainCorrupt, serverVars, rcopyVars
  <2>3. AskedOnce'
    <3> SUFFICES ASSUME NEW m \in 1 .. Len(TrafficIn(queue', Main))
                 PROVE  LET b == TrafficIn(queue', Main)[m].from
                        IN  /\ b[2] <= sock[b[1]]
                            /\ \A j \in ChildId : ~ Serves(j, b)
                            /\ \A x \in 1 .. Len(TrafficIn(queue', Main)) :
                                  TrafficIn(queue', Main)[x].from = b => x = m
      BY <2>2 DEF AskedOnce, Traffic, Main, Serves, Born
    <3> QED
      BY <2>1, RequestsLeft DEF IInv, SocketInv
  <2> QED
    BY <1>2, <2>1, <2>2, <2>3, Addresses
<1> QED
  BY <1>1, <1>3, <1>4, ForkSockets

(* SocketInv is inductive, on top of the first invariant.                  *)
LEMMA NextSocketInv ==
    ASSUME Once, IInv, SocketInv, [Next]_vars
    PROVE  SocketInv'
<1>1. CASE Next
  BY <1>1, ClientStepSockets, MainStepSockets, ChildStepSockets DEF Next
<1>2. CASE UNCHANGED vars
  <2>1. UNCHANGED <<queue, cstate, sock, child>>
    BY <1>2 DEF vars, rcopyVars, serverVars
  <2>2. AskedOnce' /\ ServedOnce'
    BY <2>1 DEF SocketInv, AskedOnce, ServedOnce, Serves, Born, ClientOf,
                Traffic, Main
  <2>3. FromServing' /\ Answered' /\ KeepsOwn'
    BY ZenonT(30), <2>1 DEF SocketInv, FromServing, Answered, KeepsOwn, Serves, Born,
                Traffic, Me, Child
  <2> QED
    BY <2>2, <2>3 DEF SocketInv
<1> QED
  BY <1>1, <1>2

(* As long as packets are not repeated, a socket is served by one child at *)
(* most, and what a client gets is from that child: a client that tries    *)
(* again does so from a new socket (rcopy.c:99-113), and the server forks  *)
(* one child for every request (server.c:75-92).                           *)
THEOREM Sockets == ASSUME Once PROVE Spec => []SocketInv
<1>1. Init => SocketInv
  BY InitSocketInv
<1>2. IInv /\ SocketInv /\ [Next]_vars => SocketInv'
  BY NextSocketInv
<1> QED
  BY <1>1, <1>2, Invariance, PTL DEF Spec

(* A socket of a client is served by at most one child of the server: a    *)
(* client that tries again (rcopy.c:92-102) opens a new socket, and a child *)
(* is forked for every request (server.c:66-85).                           *)
THEOREM OneChild == ASSUME Once PROVE Spec => []OneChildPerSocket
<1>1. SocketInv => OneChildPerSocket
  BY DEF SocketInv, ServedOnce, OneChildPerSocket, Awaits, Serves, Born
<1> QED
  BY <1>1, Sockets, PTL

-----------------------------------------------------------------------------
(* TransferInv is inductive.                                               *)

(* Nothing has been sent.                                                  *)
LEMMA InitTransferInv == Init => TransferInv
<1> SUFFICES ASSUME Init PROVE TransferInv
  OBVIOUS
<1>1. \A i \in ChildId : /\ child[i].state = "UNBORN" /\ child[i].said = ""
                          /\ child[i].seq = START_SEQ_NUM
  BY DEF Init, ServerInit, Unborn
<1>2. \A c \in Clients : cstate[c] = "START_STATE" /\ said[c] = ""
  BY DEF Init, RcopyInit
<1>3. \A c \in Clients : NotAhead(c) /\ Finished(c) /\ cstate[c] # "CRASHED"
  BY <1>2 DEF NotAhead, Within, ClientPhase, Finishing, Finished, Hears
<1> QED
  BY <1>1, <1>3 DEF TransferInv, Talk, Verdict, Fresh, Born

(* The conversation of a client.                                           *)
LEMMA PhaseTalk ==
    ASSUME IInv, TransferInv, NEW c \in Clients, NEW i \in ChildId,
           Serves(i, Me(c))
    PROVE  /\ ClientOf(i) = c
           /\ child[i].seq \in Nat
           /\ Conversation(child[i].state, child[i].seq, child[i].packet,
                           ClientPhase(c), Accepted(c), Traffic(Me(c)),
                           Traffic(Child(i)), Len(File[c]))
<1>1. ClientOf(i) = c /\ child[i].remote = Me(c) /\ Born(i)
  BY Addresses DEF Serves
<1>2. Phase(i) = ClientPhase(c)
  BY <1>1 DEF Phase
<1>3. child[i].seq \in Nat
  BY <1>1, ChildFacts DEF Born
<1> QED
  BY <1>1, <1>2, <1>3 DEF TransferInv, Talk

(* Most states are phases.                                                 *)
LEMMA PhaseIsState ==
    ASSUME IInv, TransferInv, NEW c \in Clients,
           cstate[c] \in {"START_STATE", "FILENAME", "FILE_OK", "RECV_DATA"}
    PROVE  /\ ~ Finishing(c) /\ said[c] # "File done"
           /\ ClientPhase(c) = cstate[c]
           /\ Accepted(c) = expected[c]
<1>1. ~ Finishing(c)
  BY DEF TransferInv, Finished
<1> QED
  BY <1>1 DEF Finishing, ClientPhase, Accepted

(* The conversation of a client that waits for nothing of its own.         *)
LEMMA ClientTalk ==
    ASSUME IInv, TransferInv, NEW c \in Clients,
           cstate[c] \in {"START_STATE", "FILENAME", "FILE_OK", "RECV_DATA"}
    PROVE  /\ said[c] # "File done"
           /\ \A i \in ChildId : Serves(i, Me(c)) =>
                 /\ ClientOf(i) = c
                 /\ child[i].seq \in Nat
                 /\ Conversation(child[i].state, child[i].seq, child[i].packet,
                                 cstate[c], expected[c], Traffic(Me(c)),
                                 Traffic(Child(i)), Len(File[c]))
BY PhaseTalk, PhaseIsState

(* A socket that was not the newest does not become so.                    *)
LEMMA OldSocket ==
    ASSUME NEW a \in Clients \X Nat, NEW m \in Nat, NEW n \in Nat,
           a[2] <= m, m <= n, a # <<a[1], m>>
    PROVE  a # <<a[1], n>>
<1>1. a = <<a[1], a[2]>> /\ a[2] \in Nat
  OBVIOUS
<1>2. a[2] # m
  BY <1>1
<1>3. a[2] # n
  BY <1>1, <1>2
<1> QED
  BY <1>3

(* A step of client c: it is enough to look at its own conversation.       *)
LEMMA ClientTransfer ==
    ASSUME IInv, SocketInv, TransferInv, NEW c \in Clients,
           Finishing(c) => Finishing(c)',
           UNCHANGED serverVars,
           \A d \in Clients \ {c} :
               /\ cstate'[d] = cstate[d] /\ said'[d] = said[d]
               /\ sock'[d] = sock[d] /\ expected'[d] = expected[d],
           sock'[c] \in Nat, sock'[c] >= sock[c],
           \A b \in Clients \X Nat :
               b # Me(c) => TrafficIn(queue', b) = Traffic(b),
           \A i \in ChildId :
               ~ Serves(i, Me(c)) => TrafficIn(queue', Child(i)) = Traffic(Child(i)),
           NEW phase, NEW exp,
           phase = IF sock'[c] # sock[c] THEN "LEFT" ELSE ClientPhase(c)',
           exp = Accepted(c)',
           \A i \in ChildId : Serves(i, Me(c)) =>
               Conversation(child[i].state, child[i].seq, child[i].packet,
                            phase, exp, TrafficIn(queue', Me(c)),
                            TrafficIn(queue', Child(i)), Len(File[c])),
           NotAhead(c)', Finished(c)', cstate'[c] # "CRASHED"
    PROVE  TransferInv'
<1>0. /\ child' = child
      /\ \A d \in Clients : sock[d] \in Nat
  BY DEF serverVars, IInv, TypeOK
<1>1. \A d \in Clients \ {c} : Me(d)' = Me(d) /\ Me(d) # Me(c) /\ Me(d) \in Clients \X Nat
  BY <1>0 DEF Me
<1>2. ASSUME NEW i \in ChildId, Born(i) PROVE Talk(i)'
  <2>1. PICK d : d = ClientOf(i)
    OBVIOUS
  <2>2. PICK a : a = child[i].remote
    OBVIOUS
  <2>3. /\ a \in Clients \X Nat /\ d \in Clients /\ a[1] = d
        /\ a[2] <= sock[d]
        /\ a = Me(c) => d = c
    BY <1>2, <2>1, <2>2, Addresses DEF SocketInv, ServedOnce, ClientOf
  <2>4. /\ Conversation(child[i].state, child[i].seq, child[i].packet,
                        Phase(i), Accepted(d), Traffic(a), Traffic(Child(i)),
                        Len(File[d]))
        /\ Phase(i) = IF a # Me(d) THEN "LEFT" ELSE ClientPhase(d)
    BY <1>2, <2>1, <2>2 DEF TransferInv, Talk, Phase
  <2>5. Phase(i)' = IF a # <<d, sock'[d]>> THEN "LEFT" ELSE ClientPhase(d)'
    BY <1>0, <2>1, <2>2 DEF Phase, ClientOf, Me, ClientPhase, Finishing
  <2>6. SUFFICES Conversation(child[i].state, child[i].seq, child[i].packet,
                     Phase(i)', Accepted(d)', TrafficIn(queue', a),
                     TrafficIn(queue', Child(i)), Len(File[d]))
    BY <1>0, <2>1, <2>2 DEF Talk, Born, ClientOf, Traffic, Child, Accepted
  <2>7. CASE a # Me(c)
    <3>1. ~ Serves(i, Me(c))
      BY <2>2, <2>7 DEF Serves
    <3>2. /\ TrafficIn(queue', a) = Traffic(a)
          /\ TrafficIn(queue', Child(i)) = Traffic(Child(i))
      BY <2>3, <2>7, <3>1
    <3>4. CASE d = c
      <4>1. a # <<d, sock'[d]>> /\ a # Me(d)
        <5>1. a # <<a[1], sock[d]>>
          BY <2>3, <2>7, <3>4 DEF Me
        <5>2. a # <<a[1], sock'[d]>>
          <6>1. sock[d] \in Nat /\ sock'[d] \in Nat /\ sock[d] <= sock'[d]
            BY <1>0, <3>4
          <6> QED
            BY ZenonT(30), <2>3, <5>1, <6>1, OldSocket
        <5> QED
          BY <2>3, <5>1, <5>2 DEF Me
      <4>2. Phase(i)' = "LEFT" /\ Phase(i) = "LEFT"
        BY <2>4, <2>5, <4>1
      <4>3. Conversation(child[i].state, child[i].seq, child[i].packet,
                         "LEFT", Accepted(d), Traffic(a), Traffic(Child(i)),
                         Len(File[d]))
        BY <2>4, <4>2
      <4>4. Conversation(child[i].state, child[i].seq, child[i].packet,
                         "LEFT", Accepted(d)', Traffic(a), Traffic(Child(i)),
                         Len(File[d]))
        BY <4>3 DEF Conversation, Hears
      <4> QED
        BY <3>2, <4>2, <4>4
    <3>5. CASE d # c
      <4>1. /\ ClientPhase(d)' = ClientPhase(d) /\ Accepted(d)' = Accepted(d)
            /\ sock'[d] = sock[d]
        BY <2>3, <3>5 DEF ClientPhase, Finishing, Accepted
      <4>2. Phase(i)' = Phase(i)
        <5>1. Me(d) = <<d, sock'[d]>>
          BY <4>1 DEF Me
        <5> QED
          BY <2>4, <2>5, <4>1, <5>1
      <4> QED
        BY <2>4, <3>2, <4>1, <4>2
    <3> QED
      BY <3>4, <3>5
  <2>8. CASE a = Me(c)
    <3>1. d = c /\ Serves(i, Me(c))
      BY <1>2, <2>2, <2>3, <2>8 DEF Serves
    <3>2. Phase(i)' = phase
      BY <1>0, <2>5, <2>8, <3>1 DEF Me
    <3> QED
      BY <2>8, <3>1, <3>2
  <2> QED
    BY <2>7, <2>8
<1>3. ASSUME NEW i \in ChildId PROVE Talk(i)' /\ Verdict(i)' /\ Fresh(i)'
  <2>1. Talk(i)'
    BY <1>0, <1>2 DEF Talk, Born
  <2>2. Verdict(i)'
    <3>1. PICK d : d = ClientOf(i)
      OBVIOUS
    <3>2. ASSUME child[i].said = "complete successfully"
          PROVE  child[i].state = "DONE" /\ Finishing(d)'
      <4>1. child[i].state = "DONE" /\ Born(i) /\ Finishing(d)
        BY <3>1, <3>2 DEF TransferInv, Verdict, Born
      <4>2. d \in Clients
        BY <3>1, <4>1, Addresses
      <4>3. CASE d = c
        BY <4>1, <4>3
      <4>4. CASE d # c
        BY <4>1, <4>2, <4>4 DEF Finishing
      <4> QED
        BY <4>1, <4>3, <4>4
    <3>3. child[i].said # "this should never happen"
      BY DEF TransferInv, Verdict
    <3> QED
      BY <1>0, <3>1, <3>2, <3>3 DEF Verdict, ClientOf, Finishing
  <2>3. Fresh(i)'
    BY <1>0 DEF TransferInv, Fresh, Born
  <2> QED
    BY <2>1, <2>2, <2>3
<1>4. ASSUME NEW d \in Clients \ {c}
      PROVE  NotAhead(d)' /\ Finished(d)' /\ cstate'[d] # "CRASHED"
  <2>1. Traffic(Me(d))' = Traffic(Me(d))
    <3>1. TrafficIn(queue', Me(d)) = Traffic(Me(d))
      BY <1>1
    <3> QED
      BY <1>1, <3>1 DEF Traffic
  <2>2. NotAhead(d) /\ Finished(d) /\ cstate[d] # "CRASHED"
    BY DEF TransferInv
  <2> QED
    BY <2>1, <2>2 DEF NotAhead, Finished, ClientPhase, Accepted, Finishing
<1> QED
  BY <1>3, <1>4 DEF TransferInv

(* A number is at least itself.                                            *)
LEMMA ReflexiveGe == \A x \in Nat : x >= x
OBVIOUS

(* A client that no longer listens.                                        *)
LEMMA HangUp ==
    ASSUME IInv, SocketInv, TransferInv, NEW c \in Clients, UNCHANGED serverVars,
           \A d \in Clients \ {c} :
               cstate'[d] = cstate[d] /\ said'[d] = said[d],
           UNCHANGED <<sock, expected>>,
           \/ cstate[c] \in {"START_STATE", "FILENAME", "FILE_OK"}
           \/ cstate[c] = "RECV_DATA" /\ cstate'[c] = "DONE",
           cstate'[c] \in {"START_STATE", "DONE"},
           said'[c] # "File done",
           \A b : b # Me(c) => TrafficIn(queue', b) = Traffic(b)
    PROVE  TransferInv'
<1>1. /\ cstate[c] \in {"START_STATE", "FILENAME", "FILE_OK", "RECV_DATA"}
      /\ ~ Finishing(c)
      /\ sock[c] \in Nat /\ expected[c] \in Nat
      /\ \A i \in ChildId : Child(i) # Me(c)
  BY ZenonT(30), Addresses, PhaseIsState DEF IInv, TypeOK
<1>2. ASSUME NEW i \in ChildId, Serves(i, Me(c))
      PROVE  Conversation(child[i].state, child[i].seq, child[i].packet,
                          cstate'[c], expected'[c], TrafficIn(queue', Me(c)),
                          TrafficIn(queue', Child(i)), Len(File[c]))
  <2>1. /\ Conversation(child[i].state, child[i].seq, child[i].packet,
                        cstate[c], expected[c], Traffic(Me(c)),
                        Traffic(Child(i)), Len(File[c]))
        /\ Len(Traffic(Child(i))) \in Nat
        /\ TrafficIn(queue', Child(i)) = Traffic(Child(i))
    BY <1>1, <1>2, ClientTalk, TrafficType DEF IInv
  <2>2. PICK phase : phase = cstate'[c]
    OBVIOUS
  <2>3. /\ ~ Hears(phase)
        /\ \/ cstate[c] \in {"START_STATE", "FILENAME", "FILE_OK"}
           \/ cstate[c] = "RECV_DATA" /\ phase = "DONE"
    BY <2>2 DEF Hears
  <2>4. Conversation(child[i].state, child[i].seq, child[i].packet,
                     phase, expected[c], TrafficIn(queue', Me(c)),
                     Traffic(Child(i)), Len(File[c]))
    BY <2>1, <2>3, TalkHangsUp
  <2> QED
    BY <2>1, <2>2, <2>4
<1>3. /\ NotAhead(c)' /\ Finished(c)' /\ cstate'[c] # "CRASHED"
      /\ ClientPhase(c)' = cstate'[c]
      /\ Accepted(c)' = expected[c]
  <2>1. ~ Finishing(c)' /\ cstate'[c] \notin {"RR_SENT", "CRASHED"}
    BY DEF Finishing
  <2>2. ClientPhase(c)' = cstate'[c]
    BY <2>1 DEF ClientPhase
  <2>3. Accepted(c)' = expected[c]
    BY <1>1, <2>1 DEF Accepted
  <2>4. NotAhead(c)'
    BY DEF NotAhead, Within, ClientPhase, Finishing, Hears
  <2>5. Finished(c)'
    BY <2>1 DEF Finished
  <2> QED
    BY <2>1, <2>2, <2>3, <2>4, <2>5
<1>4. PICK phase : phase = cstate'[c]
  OBVIOUS
<1>5. /\ \A d \in Clients \ {c} :
             /\ cstate'[d] = cstate[d] /\ said'[d] = said[d]
             /\ sock'[d] = sock[d] /\ expected'[d] = expected[d]
      /\ sock'[c] \in Nat /\ sock'[c] >= sock[c]
      /\ \A b \in Clients \X Nat : b # Me(c) => TrafficIn(queue', b) = Traffic(b)
      /\ \A i \in ChildId : TrafficIn(queue', Child(i)) = Traffic(Child(i))
      /\ phase = IF sock'[c] # sock[c] THEN "LEFT" ELSE ClientPhase(c)'
  <2>1. sock' = sock /\ expected' = expected /\ phase = ClientPhase(c)'
    BY <1>3, <1>4
  <2>2. \A x \in Nat : x >= x
    BY ReflexiveGe
  <2>3. \A b : b # Me(c) => TrafficIn(queue', b) = Traffic(b)
    OBVIOUS
  <2> QED
    BY <1>1, <1>4, <2>1, <2>2, <2>3
<1>6. \A i \in ChildId : Serves(i, Me(c)) =>
          Conversation(child[i].state, child[i].seq, child[i].packet,
                       phase, expected[c], TrafficIn(queue', Me(c)),
                       TrafficIn(queue', Child(i)), Len(File[c]))
  BY <1>2, <1>4
<1>7. PICK exp : exp = expected[c]
  OBVIOUS
<1> QED
  BY <1>1, <1>3, <1>5, <1>6, <1>7, ClientTransfer

(* A client tries (again), from a new socket.                              *)
LEMMA StartTransfer ==
    ASSUME Once, IInv, SocketInv, TransferInv, NEW c \in Clients, NEW o \in Outcome,
           StartState(c, o), UNCHANGED serverVars
    PROVE  TransferInv'
<1> DEFINE new == <<c, sock[c] + 1>>
           q == OpenSocket(CloseSocket(queue, Me(c)), new)
           p == createHeader("FNAME", 0, c, new)
<1>1. /\ queue' = safeSendto(q, Main, p, o)
      /\ sock' = [sock EXCEPT ![c] = @ + 1]
      /\ cstate[c] = "START_STATE"
      /\ cstate' = [cstate EXCEPT ![c] = "FILENAME"]
      /\ expected' = expected /\ said' = said
  BY DEF StartState, Goto
<1>2. /\ sock \in [Clients -> Nat]
      /\ cstate \in [Clients -> ClientState]
      /\ new \in Clients \X Nat /\ new # Me(c)
      /\ Main # new /\ Main # Me(c)
      /\ \A i \in ChildId : Child(i) \notin Clients \X Nat /\ Child(i) # Main
  BY Addresses DEF IInv, TypeOK, Me
<1>3. p \in Packet
  BY <1>2 DEF createHeader, Packet, FLAG, Load, Address
<1>4. \A b : TrafficIn(q, b) = IF b = new \/ b = Me(c) THEN <<>> ELSE Traffic(b)
  BY SocketTraffic DEF Traffic
<1> HIDE DEF p, q
<1>5. Main \in DOMAIN q => q[Main] \in Seq(Packet)
  <2>1. TrafficIn(q, Main) \in Seq(Packet)
    BY <1>2, <1>4, TrafficType DEF IInv
  <2> QED
    BY <2>1 DEF TrafficIn
<1>6. \A b : b # Main => TrafficIn(queue', b) = TrafficIn(q, b)
  <2>1. /\ Sent(TrafficIn(q, Main), TrafficIn(safeSendto(q, Main, p, o), Main), p)
        /\ \A b : b # Main => TrafficIn(safeSendto(q, Main, p, o), b) = TrafficIn(q, b)
    BY <1>3, <1>5, SendTraffic
  <2> QED
    BY <1>1, <2>1
<1>7. sock'[c] = sock[c] + 1 /\ sock[c] \in Nat /\ Me(c)' = new
  BY <1>1, <1>2 DEF Me
<1>8. \A i \in ChildId : ~ Serves(i, new)
  <2> SUFFICES ASSUME NEW i \in ChildId, Serves(i, new) PROVE FALSE
    OBVIOUS
  <2>1. new[2] <= sock[c]
    BY DEF SocketInv, ServedOnce, Serves, ClientOf
  <2> QED
    BY <1>7, <2>1
<1>9. TrafficIn(queue', new) = <<>> /\ Traffic(new) = <<>>
  <2>1. ~ (1 \in 1 .. Len(Traffic(new)))
    BY <1>2, <1>8 DEF SocketInv, FromServing
  <2>2. Traffic(new) \in Seq(Packet) /\ Len(Traffic(new)) \in Nat
    BY TrafficType DEF IInv
  <2>3. Len(Traffic(new)) = 0
    BY <2>1, <2>2
  <2>4. Traffic(new) = <<>>
    BY <2>2, <2>3, EmptySeq
  <2> QED
    BY <1>2, <1>4, <1>6, <2>4
<1> HIDE DEF new
<1>10. \A b : b # Main /\ b # Me(c) => TrafficIn(queue', b) = Traffic(b)
  BY <1>4, <1>6, <1>9
<1>11. ASSUME NEW i \in ChildId
       PROVE  TrafficIn(queue', Child(i)) = Traffic(Child(i))
  BY <1>10, Addresses
<1>12. ASSUME NEW i \in ChildId, Serves(i, Me(c))
       PROVE  Conversation(child[i].state, child[i].seq, child[i].packet,
                           "LEFT", expected[c], TrafficIn(queue', Me(c)),
                           TrafficIn(queue', Child(i)), Len(File[c]))
  <2>1. /\ Conversation(child[i].state, child[i].seq, child[i].packet,
                        "START_STATE", expected[c], Traffic(Me(c)),
                        Traffic(Child(i)), Len(File[c]))
        /\ Len(Traffic(Child(i))) \in Nat
    BY <1>1, <1>12, ClientTalk, TrafficType DEF IInv
  <2>2. ~ Hears("LEFT")
    BY DEF Hears
  <2> QED
    BY <1>1, <1>11, <2>1, <2>2, TalkHangsUp
<1>13. NotAhead(c)'
  <2>1. Len(Traffic(Me(c))') = 0
    BY <1>7, <1>9, EmptySeq DEF Traffic
  <2> QED
    BY <2>1 DEF NotAhead, Within, Skip
<1>14. /\ Finished(c)' /\ cstate'[c] # "CRASHED"
       /\ ~ Finishing(c)
       /\ Accepted(c)' = expected[c]
  <2>1. ~ Finishing(c) /\ said[c] # "File done" /\ expected[c] \in Nat
    BY <1>1, PhaseIsState DEF IInv, TypeOK
  <2>2. cstate'[c] = "FILENAME" /\ said' = said /\ expected' = expected
    BY <1>1, <1>2
  <2> QED
    BY <2>1, <2>2 DEF Finished, Finishing, Accepted
<1>15. /\ \A d \in Clients \ {c} :
             /\ cstate'[d] = cstate[d] /\ said'[d] = said[d]
             /\ sock'[d] = sock[d] /\ expected'[d] = expected[d]
       /\ sock'[c] \in Nat /\ sock'[c] >= sock[c] /\ sock'[c] # sock[c]
       /\ \A b \in Clients \X Nat : b # Me(c) => TrafficIn(queue', b) = Traffic(b)
  BY <1>1, <1>2, <1>7, <1>10, Addresses
<1>16. PICK exp : exp = expected[c]
  OBVIOUS
<1> QED
  BY <1>11, <1>12, <1>13, <1>14, <1>15, <1>16, ClientTransfer

-----------------------------------------------------------------------------
(* NotAhead, step by step.                                                 *)

(* A client takes a packet, and may count it.                              *)
LEMMA WithinTaken ==
    ASSUME NEW phase, NEW exp \in Nat, NEW to, NEW len \in Nat,
           Within(phase, exp, to, len), Len(to) \in Nat, Len(to) > 0,
           \A k \in 1 .. Len(to) : to[k].seq \in Nat,
           NEW to2, Taken(to, to2, 1), NEW phase2, NEW exp2,
           \/ phase = "FILENAME" /\ phase2 = "FILE_OK"
           \/ phase = "RECV_DATA" /\ phase2 = "RECV_DATA",
           exp2 = exp \/ (exp <= len /\ exp2 = exp + 1)
    PROVE  Within(phase2, exp2, to2, len)
<1> SUFFICES ASSUME NEW m \in 1 + Skip(phase2) .. Len(to2)
             PROVE  IF to2[m].flag = "END_OF_FILE" THEN exp2 = len + 1
                                                  ELSE to2[m].seq <= exp2
  BY DEF Within
<1>1. Skip(phase2) = 0 /\ Skip(phase) \in {0, 1} /\ Hears(phase)
  BY DEF Skip, Hears
<1>2. Len(to2) = Len(to) - 1 /\ m \in 1 .. Len(to2)
  BY <1>1 DEF Taken
<1>3. /\ m + 1 \in 1 + Skip(phase) .. Len(to)
      /\ m + 1 \in 1 .. Len(to)
      /\ to2[m] = to[m + 1]
  BY <1>1, <1>2 DEF Taken
<1>4. IF to[m + 1].flag = "END_OF_FILE" THEN exp = len + 1
                                        ELSE to[m + 1].seq <= exp
  BY <1>1, <1>3 DEF Within
<1>5. to[m + 1].seq \in Nat
  BY <1>3
<1>6. CASE to[m + 1].flag = "END_OF_FILE"
  BY <1>3, <1>4, <1>6
<1>7. CASE to[m + 1].flag # "END_OF_FILE"
  <2>1. \A x \in Nat : x <= exp => x <= exp2
    OBVIOUS
  <2> QED
    BY <1>3, <1>4, <1>5, <1>7, <2>1
<1> QED
  BY <1>6, <1>7

(* The two steps of a client in which it goes on.                          *)
LEMMA WithinName ==
    ASSUME NEW exp \in Nat, NEW to, NEW len \in Nat,
           Within("FILENAME", exp, to, len), Len(to) \in Nat, Len(to) > 0,
           \A k \in 1 .. Len(to) : to[k].seq \in Nat,
           NEW to2, Taken(to, to2, 1)
    PROVE  Within("FILE_OK", exp, to2, len)
<1>1. PICK x : x = exp
  OBVIOUS
<1>2. x = exp \/ (exp <= len /\ x = exp + 1)
  BY <1>1
<1>3. Within("FILE_OK", x, to2, len)
  BY <1>2, WithinTaken
<1> QED
  BY <1>1, <1>3

(* What was within stays so when a packet is read.                         *)
LEMMA WithinData ==
    ASSUME NEW exp \in Nat, NEW to, NEW len \in Nat,
           Within("RECV_DATA", exp, to, len), Len(to) \in Nat, Len(to) > 0,
           \A k \in 1 .. Len(to) : to[k].seq \in Nat,
           NEW to2, Taken(to, to2, 1), NEW exp2,
           exp2 = exp \/ (exp <= len /\ exp2 = exp + 1)
    PROVE  Within("RECV_DATA", exp2, to2, len)
BY WithinTaken

(* A child sends a packet: the last block counted, the next one, or the    *)
(* end of the file when all are counted.                                   *)
LEMMA WithinSent ==
    ASSUME NEW phase, NEW exp \in Nat, NEW to, NEW len \in Nat,
           Within(phase, exp, to, len), Len(to) \in Nat,
           NEW p, NEW to2, Sent(to, to2, p),
           Hears(phase) => IF p.flag = "END_OF_FILE" THEN exp = len + 1
                                                     ELSE p.seq <= exp
    PROVE  Within(phase, exp, to2, len)
<1> SUFFICES ASSUME Hears(phase), NEW k \in 1 + Skip(phase) .. Len(to2)
             PROVE  IF to2[k].flag = "END_OF_FILE" THEN exp = len + 1
                                                  ELSE to2[k].seq <= exp
  BY DEF Within
<1>1. Skip(phase) \in {0, 1}
  BY DEF Skip
<1>2. Corrupted(p).flag = "CRC_ERROR" /\ Corrupted(p).seq <= exp
  BY DEF Corrupted, createHeader
<1>3. \/ to2 = to
      \/ /\ k \in 1 + Skip(phase) .. Len(to) /\ k \in 1 .. Len(to)
         /\ to2[k] = to[k]
      \/ to2[k] \in {p, Corrupted(p)}
  BY <1>1 DEF Sent
<1> QED
  BY <1>2, <1>3 DEF Within

(* What the state of its packets says to a client that receives.           *)
LEMMA FirstPacket ==
    ASSUME InTime, IInv, SocketInv, TransferInv, NEW c \in Clients,
           cstate[c] \in {"FILENAME", "RECV_DATA"}, NEW k \in Arrivals(Me(c))
    PROVE  /\ k = 1
           /\ queue[Me(c)] = Traffic(Me(c))
           /\ Len(Traffic(Me(c))) \in Nat /\ Len(Traffic(Me(c))) > 0
           /\ \A m \in 1 .. Len(Traffic(Me(c))) : Traffic(Me(c))[m] \in Packet
           /\ Taken(Traffic(Me(c)),
                    TrafficIn(safeRecvfrom(queue, Me(c), 1), Me(c)), 1)
           /\ \A b : b # Me(c) =>
                 TrafficIn(safeRecvfrom(queue, Me(c), 1), b) = Traffic(b)
           /\ \A i \in ChildId : Serves(i, Me(c)) => child[i].state # "FILENAME"
<1>1. k = 1
  BY DEF InTime, Arrivals
<1>2. /\ queue[Me(c)] = Traffic(Me(c))
      /\ k \in 1 .. Len(Traffic(Me(c)))
      /\ Taken(Traffic(Me(c)),
               TrafficIn(safeRecvfrom(queue, Me(c), k), Me(c)), k)
      /\ \A b : b # Me(c) =>
            TrafficIn(safeRecvfrom(queue, Me(c), k), b) = Traffic(b)
  BY ClientTakes
<1>3. /\ Traffic(Me(c)) \in Seq(Packet)
      /\ Len(Traffic(Me(c))) \in Nat
  BY TrafficType DEF IInv
<1>4. Len(Traffic(Me(c))) > 0
  BY <1>2, <1>3
<1>5. \A m \in 1 .. Len(Traffic(Me(c))) : Traffic(Me(c))[m] \in Packet
  BY <1>3, ElementOfSeq
<1>6. ASSUME NEW i \in ChildId, Serves(i, Me(c)), child[i].state = "FILENAME"
      PROVE  FALSE
  <2>1. Conversation("FILENAME", child[i].seq, child[i].packet, cstate[c],
                     expected[c], Traffic(Me(c)), Traffic(Child(i)),
                     Len(File[c]))
    BY <1>6, ClientTalk
  <2>2. Len(Traffic(Me(c))) = 0
    BY <2>1 DEF Conversation, Hears
  <2> QED
    BY <1>4, <2>2
<1> QED
  BY <1>1, <1>2, <1>3, <1>4, <1>5, <1>6

(* A client that receives without leaving its socket or its queue of       *)
(* packets behind: from FILENAME to FILE_OK, or within RECV_DATA.          *)
LEMMA ClientGoesOn ==
    ASSUME IInv, SocketInv, TransferInv, NEW c \in Clients,
           UNCHANGED <<sock, said, expected>>, UNCHANGED serverVars,
           \A d \in Clients \ {c} : cstate'[d] = cstate[d],
           cstate[c] \in {"FILENAME", "FILE_OK", "RECV_DATA"},
           cstate'[c] \in {"FILE_OK", "RECV_DATA", "RR_SENT"},
           NEW phase,
           phase = IF cstate'[c] = "FILE_OK" THEN "FILE_OK" ELSE "RECV_DATA",
           NEW exp,
           exp = IF cstate'[c] = "RR_SENT" THEN expected[c] + 1 ELSE expected[c],
           \A b \in Clients \X Nat :
               b # Me(c) => TrafficIn(queue', b) = Traffic(b),
           \A i \in ChildId :
               ~ Serves(i, Me(c)) => TrafficIn(queue', Child(i)) = Traffic(Child(i)),
           \A i \in ChildId : Serves(i, Me(c)) =>
               Conversation(child[i].state, child[i].seq, child[i].packet,
                            phase, exp, TrafficIn(queue', Me(c)),
                            TrafficIn(queue', Child(i)), Len(File[c])),
           Within(phase, exp, TrafficIn(queue', Me(c)), Len(File[c]))
    PROVE  TransferInv'
<1>1. ~ Finishing(c) /\ said[c] # "File done" /\ sock[c] \in Nat
  BY PhaseIsState DEF IInv, TypeOK
<1>2. sock' = sock /\ said' = said /\ expected' = expected
  OBVIOUS
<1>3. sock'[c] \in Nat /\ sock'[c] >= sock[c]
  BY <1>1, <1>2, ReflexiveGe
<1>4. ~ Finishing(c)' /\ phase = ClientPhase(c)' /\ exp = Accepted(c)'
  BY <1>1, <1>2 DEF Finishing, ClientPhase, Accepted
<1>5. NotAhead(c)' /\ Finished(c)' /\ cstate'[c] # "CRASHED"
  <2>1. Me(c)' = Me(c)
    BY <1>2 DEF Me
  <2>2. NotAhead(c)'
    BY <1>4, <2>1 DEF NotAhead, Traffic
  <2> QED
    BY <1>4, <2>2 DEF Finished
<1>6. phase = IF sock'[c] # sock[c] THEN "LEFT" ELSE ClientPhase(c)'
  BY <1>2, <1>4
<1>7. \A d \in Clients \ {c} :
          /\ cstate'[d] = cstate[d] /\ said'[d] = said[d]
          /\ sock'[d] = sock[d] /\ expected'[d] = expected[d]
  BY <1>2
<1> QED
  BY <1>1, <1>3, <1>4, <1>5, <1>6, <1>7, ClientTransfer

(* The name is confirmed, or the output file is opened.                    *)
LEMMA ClientOpensTransfer ==
    ASSUME InTime, IInv, SocketInv, TransferInv, NEW c \in Clients,
           \/ FileOk(c)
           \/ /\ cstate[c] \in {"FILENAME", "RECV_DATA"}
              /\ \E k \in Arrivals(Me(c)) : FilenameOk(c, k),
           UNCHANGED serverVars
    PROVE  TransferInv'
<1>0. /\ cstate \in [Clients -> ClientState]
      /\ expected[c] \in Nat /\ Len(File[c]) \in Nat
      /\ \A i \in ChildId : Len(Traffic(Child(i))) \in Nat
      /\ NotAhead(c)
  BY FileAssumption, LenProperties, TrafficType DEF IInv, TypeOK, TransferInv
<1>1. CASE FileOk(c)
  <2>1. /\ cstate[c] = "FILE_OK"
        /\ cstate'[c] = "RECV_DATA"
        /\ \A d \in Clients \ {c} : cstate'[d] = cstate[d]
        /\ queue' = queue /\ sock' = sock /\ said' = said /\ expected' = expected
    BY <1>0, <1>1 DEF FileOk, Goto
  <2>2. \A b : TrafficIn(queue', b) = Traffic(b)
    BY <2>1 DEF Traffic
  <2>3. ASSUME NEW i \in ChildId, Serves(i, Me(c))
        PROVE  Conversation(child[i].state, child[i].seq, child[i].packet,
                            "RECV_DATA", expected[c], TrafficIn(queue', Me(c)),
                            TrafficIn(queue', Child(i)), Len(File[c]))
    <3>1. Conversation(child[i].state, child[i].seq, child[i].packet,
                       "FILE_OK", expected[c], Traffic(Me(c)),
                       Traffic(Child(i)), Len(File[c]))
      BY <2>1, <2>3, ClientTalk
    <3>2. Conversation(child[i].state, child[i].seq, child[i].packet,
                       "RECV_DATA", expected[c], Traffic(Me(c)),
                       Traffic(Child(i)), Len(File[c]))
      BY <3>1, TalkOpens
    <3> QED
      BY <2>1, <2>2, <3>2
  <2>4. Within("RECV_DATA", expected[c], Traffic(Me(c)), Len(File[c]))
    <3>1. Within("FILE_OK", expected[c], Traffic(Me(c)), Len(File[c]))
      BY <1>0, <2>1, PhaseIsState DEF NotAhead
    <3> QED
      BY <3>1 DEF Within, Hears, Skip
  <2>5. PICK phase, exp : phase = "RECV_DATA" /\ exp = expected[c]
    OBVIOUS
  <2> QED
    BY <2>1, <2>2, <2>3, <2>4, <2>5, ClientGoesOn
<1>2. ASSUME NEW k \in Arrivals(Me(c)), FilenameOk(c, k) PROVE TransferInv'
  <2> DEFINE q == safeRecvfrom(queue, Me(c), 1)
  <2>1. cstate[c] = "FILENAME"
    BY <1>2 DEF FilenameOk, FilenameReady
  <2>2. /\ k = 1
        /\ Len(Traffic(Me(c))) \in Nat /\ Len(Traffic(Me(c))) > 0
        /\ \A m \in 1 .. Len(Traffic(Me(c))) : Traffic(Me(c))[m] \in Packet
        /\ Taken(Traffic(Me(c)), TrafficIn(q, Me(c)), 1)
        /\ \A b : b # Me(c) => TrafficIn(q, b) = Traffic(b)
    BY <2>1, FirstPacket
  <2>3. /\ queue' = q /\ sock' = sock /\ said' = said /\ expected' = expected
        /\ cstate'[c] = "FILE_OK"
        /\ \A d \in Clients \ {c} : cstate'[d] = cstate[d]
    BY <1>0, <1>2, <2>2 DEF FilenameOk, FilenameReady, Goto
  <2> HIDE DEF q
  <2>4. \A i \in ChildId : TrafficIn(q, Child(i)) = Traffic(Child(i))
    BY <2>2, Addresses
  <2>5. ASSUME NEW i \in ChildId, Serves(i, Me(c))
        PROVE  Conversation(child[i].state, child[i].seq, child[i].packet,
                            "FILE_OK", expected[c], TrafficIn(q, Me(c)),
                            Traffic(Child(i)), Len(File[c]))
    <3>1. Conversation(child[i].state, child[i].seq, child[i].packet,
                       "FILENAME", expected[c], Traffic(Me(c)),
                       Traffic(Child(i)), Len(File[c]))
      BY <2>1, <2>5, ClientTalk
    <3> QED
      BY <1>0, <2>2, <3>1, TalkGetsName
  <2>6. Within("FILE_OK", expected[c], TrafficIn(q, Me(c)), Len(File[c]))
    <3>1. Within("FILENAME", expected[c], Traffic(Me(c)), Len(File[c]))
      BY <1>0, <2>1, PhaseIsState DEF NotAhead
    <3>2. \A m \in 1 .. Len(Traffic(Me(c))) : Traffic(Me(c))[m].seq \in Nat
      BY <2>2 DEF Packet
    <3> QED
      BY <1>0, <2>2, <3>1, <3>2, WithinName
  <2>7. PICK phase, exp : phase = "FILE_OK" /\ exp = expected[c]
    OBVIOUS
  <2> QED
    BY <2>1, <2>2, <2>3, <2>4, <2>5, <2>6, <2>7, ClientGoesOn
<1> QED
  BY <1>1, <1>2

(* A client gives up, or tries again from the start.                       *)
LEMMA ClientLeaves ==
    ASSUME InTime, IInv, SocketInv, TransferInv, NEW c \in Clients,
           \/ StartStateNoHost(c) \/ FilenameGiveUp(c) \/ FilenameTimeout(c)
           \/ FileOkFails(c) \/ RecvDataTimeout(c) \/ StartStateSendFails(c)
           \/ /\ cstate[c] \in {"FILENAME", "RECV_DATA"}
              /\ \E k \in Arrivals(Me(c)) :
                    \/ FilenameCorrupt(c, k) \/ FilenameBad(c, k)
                    \/ RecvDataSendFails(c, k),
           UNCHANGED serverVars
    PROVE  TransferInv'
<1>0. /\ cstate \in [Clients -> ClientState]
      /\ said \in [Clients -> ClientMessage]
      /\ \A b : TrafficIn(queue, b) = Traffic(b)
      /\ cstate[c] = "FILENAME" => said[c] # "File done"
  BY PhaseIsState DEF IInv, TypeOK, Traffic
<1>1. ASSUME UNCHANGED <<sock, expected>>, NEW m, m # "File done", NEW q,
             Exit(c, m, q), \A b : b # Me(c) => TrafficIn(q, b) = Traffic(b),
             cstate[c] \in {"START_STATE", "FILENAME", "FILE_OK", "RECV_DATA"}
      PROVE  TransferInv'
  <2>1. /\ \A b : b # Me(c) => TrafficIn(queue', b) = TrafficIn(q, b)
        /\ cstate' = [cstate EXCEPT ![c] = "DONE"]
        /\ said' = [said EXCEPT ![c] = m]
    BY ZenonT(30), <1>1, ExitTraffic
  <2>2. /\ cstate'[c] = "DONE" /\ said'[c] = m
        /\ \A d \in Clients \ {c} :
               cstate'[d] = cstate[d] /\ said'[d] = said[d]
        /\ \A b : b # Me(c) => TrafficIn(queue', b) = Traffic(b)
    BY <1>0, <1>1, <2>1
  <2> QED
    BY <1>1, <2>2, HangUp
<1>2. CASE \/ StartStateNoHost(c) \/ FilenameGiveUp(c)
           \/ FileOkFails(c) \/ RecvDataTimeout(c) \/ StartStateSendFails(c)
           \/ \E k : RecvDataSendFails(c, k)
  <2>1. /\ UNCHANGED <<sock, expected>>
        /\ \E m \in {"no host", "no response", "open failed", "server gone",
                     "sendto failed"} :
               Exit(c, m, queue)
        /\ cstate[c] \in {"START_STATE", "FILENAME", "FILE_OK", "RECV_DATA"}
    BY <1>2 DEF StartStateNoHost, FilenameGiveUp, FileOkFails, RecvDataTimeout,
                StartStateSendFails, RecvDataSendFails
  <2> QED
    BY <1>0, <1>1, <2>1
<1>3. ASSUME UNCHANGED <<sock, expected, said>>, cstate[c] = "FILENAME",
             cstate' = [cstate EXCEPT ![c] = "START_STATE"],
             \A b : b # Me(c) => TrafficIn(queue', b) = Traffic(b)
      PROVE  TransferInv'
  <2>1. /\ cstate'[c] = "START_STATE" /\ said'[c] # "File done"
        /\ \A d \in Clients \ {c} :
               cstate'[d] = cstate[d] /\ said'[d] = said[d]
    BY <1>0, <1>3
  <2> QED
    BY <1>3, <2>1, HangUp
<1>4. CASE FilenameTimeout(c)
  BY <1>0, <1>3, <1>4 DEF FilenameTimeout, Goto
<1>5. ASSUME cstate[c] \in {"FILENAME", "RECV_DATA"}, NEW k \in Arrivals(Me(c)),
             FilenameCorrupt(c, k) \/ FilenameBad(c, k)
      PROVE  TransferInv'
  <2> DEFINE q == safeRecvfrom(queue, Me(c), k)
  <2>1. \A b : b # Me(c) => TrafficIn(q, b) = Traffic(b)
    BY <1>5, FirstPacket
  <2>2. \/ queue' = q /\ cstate' = [cstate EXCEPT ![c] = "START_STATE"]
           /\ UNCHANGED said
        \/ Exit(c, "not found", q)
    BY <1>5 DEF FilenameCorrupt, FilenameBad, Goto
  <2>3. UNCHANGED <<sock, expected>> /\ cstate[c] = "FILENAME"
    BY <1>5 DEF FilenameCorrupt, FilenameBad, FilenameReady
  <2> HIDE DEF q
  <2> QED
    BY <1>1, <1>3, <2>1, <2>2, <2>3
<1> QED
  BY <1>2, <1>4, <1>5

(* recv_data: a corrupted packet, the end of the file, a block.            *)
LEMMA ClientReads ==
    ASSUME InTime, IInv, SocketInv, TransferInv, NEW c \in Clients,
           cstate[c] = "RECV_DATA", NEW k \in Arrivals(Me(c)),
           RecvDataCorrupt(c, k) \/ \E o \in Outcome : RecvData(c, k, o),
           UNCHANGED serverVars
    PROVE  TransferInv'
<1>0. /\ cstate \in [Clients -> ClientState]
      /\ said \in [Clients -> ClientMessage]
      /\ expected \in [Clients -> Nat]
      /\ expected[c] \in Nat /\ Len(File[c]) \in Nat
      /\ \A i \in ChildId : /\ Len(Traffic(Child(i))) \in Nat
                            /\ Child(i) # Me(c) /\ Child(i) \notin Clients \X Nat
      /\ Within("RECV_DATA", expected[c], Traffic(Me(c)), Len(File[c]))
  <2>1. Within("RECV_DATA", expected[c], Traffic(Me(c)), Len(File[c]))
    <3>1. NotAhead(c)
      BY DEF TransferInv
    <3> QED
      BY <3>1, PhaseIsState DEF NotAhead
  <2> QED
    BY <2>1, FileAssumption, LenProperties, TrafficType, Addresses
       DEF IInv, TypeOK
<1>1. PICK to : to = Traffic(Me(c))
  OBVIOUS
<1>2. /\ k = 1 /\ queue[Me(c)] = to
      /\ Len(to) \in Nat /\ Len(to) > 0
      /\ \A m \in 1 .. Len(to) : to[m] \in Packet /\ to[m].seq \in Nat
      /\ Taken(to, TrafficIn(safeRecvfrom(queue, Me(c), 1), Me(c)), 1)
      /\ \A b : b # Me(c) =>
            TrafficIn(safeRecvfrom(queue, Me(c), 1), b) = Traffic(b)
      /\ \A i \in ChildId : Serves(i, Me(c)) => child[i].state # "FILENAME"
  BY <1>1, FirstPacket DEF Packet
<1>3. \A i \in ChildId : Serves(i, Me(c)) =>
          /\ ClientOf(i) = c
          /\ child[i].seq \in Nat
          /\ Conversation(child[i].state, child[i].seq, child[i].packet,
                          "RECV_DATA", expected[c], to, Traffic(Child(i)),
                          Len(File[c]))
  BY <1>1, ClientTalk
<1>4. 1 \in 1 .. Len(to) /\ 1 \in 1 + Skip("RECV_DATA") .. Len(to)
  BY <1>2 DEF Skip
<1>5. IF to[1].flag = "END_OF_FILE" THEN expected[c] = Len(File[c]) + 1
                                    ELSE to[1].seq <= expected[c]
  BY <1>0, <1>1, <1>4 DEF Within, Hears
<1>6. CASE RecvDataCorrupt(c, k)
  <2> DEFINE q == safeRecvfrom(queue, Me(c), 1)
  <2>1. /\ queue' = q /\ sock' = sock /\ said' = said
        /\ expected' = expected /\ cstate' = cstate
    BY <1>2, <1>6 DEF RecvDataCorrupt, rcopyVars
  <2> HIDE DEF q
  <2>2. ASSUME NEW i \in ChildId, Serves(i, Me(c))
        PROVE  Conversation(child[i].state, child[i].seq, child[i].packet,
                            "RECV_DATA", expected[c], TrafficIn(q, Me(c)),
                            Traffic(Child(i)), Len(File[c]))
    BY <1>0, <1>2, <1>3, <2>2, TalkDrops DEF q
  <2>3. Within("RECV_DATA", expected[c], TrafficIn(q, Me(c)), Len(File[c]))
    <3>1. PICK x : x = expected[c]
      OBVIOUS
    <3>2. x = expected[c] \/ (expected[c] <= Len(File[c]) /\ x = expected[c] + 1)
      BY <3>1
    <3>3. Within("RECV_DATA", x, TrafficIn(q, Me(c)), Len(File[c]))
      BY <1>0, <1>1, <1>2, <3>2, WithinData DEF q
    <3> QED
      BY <3>1, <3>3
  <2>4. \A b : b # Me(c) => TrafficIn(q, b) = Traffic(b)
    BY <1>2 DEF q
  <2>5. PICK phase, exp : phase = "RECV_DATA" /\ exp = expected[c]
    OBVIOUS
  <2> QED
    BY <1>0, <2>1, <2>2, <2>3, <2>4, <2>5, ClientGoesOn
<1>7. ASSUME NEW o \in Outcome, NEW flag \in FLAG, NEW load \in Nat, NEW r,
             r = createHeader(flag, 0, load, Me(c)), NEW q,
             q = Answer(c, k, flag, load, o)
      PROVE  \E i \in ChildId :
               /\ Serves(i, Me(c))
               /\ \A j \in ChildId : Serves(j, Me(c)) => j = i
               /\ Taken(to, TrafficIn(q, Me(c)), 1)
               /\ Sent(Traffic(Child(i)), TrafficIn(q, Child(i)), r)
               /\ \A b \in Clients \X Nat :
                      b # Me(c) => TrafficIn(q, b) = Traffic(b)
               /\ \A j \in ChildId :
                      j # i => TrafficIn(q, Child(j)) = Traffic(Child(j))
  <2>1. PICK i \in ChildId :
          /\ Serves(i, Me(c))
          /\ Taken(Traffic(Me(c)), TrafficIn(q, Me(c)), k)
          /\ Sent(Traffic(Child(i)), TrafficIn(q, Child(i)), r)
          /\ \A b : b # Me(c) /\ b # Child(i) => TrafficIn(q, b) = Traffic(b)
    BY <1>7, ClientAnswers DEF InTime
  <2>2. \A j \in ChildId : Serves(j, Me(c)) => j = i
    BY <2>1 DEF SocketInv, ServedOnce, Serves
  <2>3. \A j \in ChildId : j # i => Child(j) # Child(i) /\ Child(j) # Me(c)
    BY <1>0, Addresses
  <2>4. Taken(to, TrafficIn(q, Me(c)), 1)
    BY <1>1, <1>2, <2>1
  <2>5. \A b \in Clients \X Nat : b # Child(i)
    BY <1>0
  <2> QED
    BY <2>1, <2>2, <2>3, <2>4, <2>5
<1>8. ASSUME NEW o \in Outcome, RecvEndOfFile(c, k, o)
      PROVE  TransferInv'
  <2>1. PICK q : q = Answer(c, k, "EOF_ACK", 0, o)
    OBVIOUS
  <2>2. PICK r : r = createHeader("EOF_ACK", 0, 0, Me(c))
    OBVIOUS
  <2>3. /\ queue' = q
        /\ cstate' = [cstate EXCEPT ![c] = "EOF_ACK_SENT"]
        /\ sock' = sock /\ expected' = expected /\ said' = said
        /\ to[1].flag = "END_OF_FILE"
    BY <1>2, <1>8, <2>1 DEF RecvEndOfFile, Goto
  <2>4. r.flag = "EOF_ACK" /\ "EOF_ACK" \in FLAG /\ 0 \in Nat
    BY <2>2 DEF createHeader, FLAG
  <2>5. PICK i \in ChildId :
           /\ Serves(i, Me(c))
           /\ \A j \in ChildId : Serves(j, Me(c)) => j = i
           /\ Taken(to, TrafficIn(q, Me(c)), 1)
           /\ Sent(Traffic(Child(i)), TrafficIn(q, Child(i)), r)
           /\ \A b \in Clients \X Nat :
                  b # Me(c) => TrafficIn(q, b) = Traffic(b)
           /\ \A j \in ChildId :
                  j # i => TrafficIn(q, Child(j)) = Traffic(Child(j))
    BY <1>7, <2>1, <2>2, <2>4
  <2>6. /\ cstate'[c] = "EOF_ACK_SENT"
        /\ \A d \in Clients \ {c} :
               /\ cstate'[d] = cstate[d] /\ said'[d] = said[d]
               /\ sock'[d] = sock[d] /\ expected'[d] = expected[d]
        /\ \A b \in Clients \X Nat :
               b # Me(c) => TrafficIn(queue', b) = Traffic(b)
    BY <1>0, <2>3, <2>5
  <2>7. /\ Finishing(c)' /\ ClientPhase(c)' = "FINISHED"
        /\ Accepted(c)' = expected[c]
    BY <2>3, <2>6 DEF Finishing, ClientPhase, Accepted
  <2>8. ASSUME NEW j \in ChildId, ~ Serves(j, Me(c))
        PROVE  TrafficIn(queue', Child(j)) = Traffic(Child(j))
    BY <2>3, <2>5, <2>8
  <2>9. Conversation(child[i].state, child[i].seq, child[i].packet,
                     "FINISHED", expected[c], TrafficIn(queue', Me(c)),
                     TrafficIn(queue', Child(i)), Len(File[c]))
    <3>1. PICK back2 : back2 = TrafficIn(queue', Child(i))
      OBVIOUS
    <3>2. Sent(Traffic(Child(i)), back2, r)
      BY <2>3, <2>5, <3>1
    <3>3. Conversation(child[i].state, child[i].seq, child[i].packet,
                       "FINISHED", expected[c], TrafficIn(queue', Me(c)),
                       back2, Len(File[c]))
      BY <1>0, <1>2, <1>3, <2>3, <2>4, <2>5, <3>2, TalkEnds
    <3> QED
      BY <3>1, <3>3
  <2>10. /\ NotAhead(c)'
         /\ Finished(c)'
         /\ cstate'[c] # "CRASHED"
    <3>1. NotAhead(c)'
      BY <2>6 DEF NotAhead, Within, ClientPhase, Finishing, Hears
    <3> QED
      BY <1>5, <2>3, <2>6, <3>1 DEF Finished
  <2>11. sock'[c] \in Nat /\ sock'[c] >= sock[c] /\ sock'[c] = sock[c]
    BY <2>3, ReflexiveGe DEF IInv, TypeOK
  <2>12. \A j \in ChildId : Serves(j, Me(c)) =>
            Conversation(child[j].state, child[j].seq, child[j].packet,
                         "FINISHED", expected[c], TrafficIn(queue', Me(c)),
                         TrafficIn(queue', Child(j)), Len(File[c]))
    BY <2>3, <2>5, <2>9
  <2>13. PICK phase, exp : phase = "FINISHED" /\ exp = expected[c]
    OBVIOUS
  <2> QED
    BY <2>6, <2>7, <2>8, <2>10, <2>11, <2>12, <2>13, ClientTransfer
<1>9. ASSUME NEW o \in Outcome, RecvOld(c, k, o) \/ RecvExpected(c, k, o)
      PROVE  TransferInv'
  <2>1. PICK n : n = to[1].seq
    OBVIOUS
  <2>2. PICK q : q = Answer(c, k, "RR", n, o)
    OBVIOUS
  <2>3. PICK r : r = createHeader("RR", 0, n, Me(c))
    OBVIOUS
  <2>4. r.flag = "RR" /\ "RR" \in FLAG /\ n \in Nat
    BY <1>2, <1>4, <2>1, <2>3 DEF createHeader, FLAG
  <2>5. /\ queue' = q
        /\ sock' = sock /\ said' = said /\ expected' = expected
        /\ to[1].flag \notin {"CRC_ERROR", "END_OF_FILE"}
        /\ \/ to[1].seq < expected[c] /\ cstate' = cstate
           \/ /\ to[1].seq = expected[c]
              /\ cstate' = [cstate EXCEPT ![c] = "RR_SENT"]
    BY <1>2, <1>9, <2>1, <2>2 DEF RecvOld, RecvExpected, NotEndOfFile, Goto
  <2>6. PICK i \in ChildId :
           /\ Serves(i, Me(c))
           /\ \A j \in ChildId : Serves(j, Me(c)) => j = i
           /\ Taken(to, TrafficIn(q, Me(c)), 1)
           /\ Sent(Traffic(Child(i)), TrafficIn(q, Child(i)), r)
           /\ \A b \in Clients \X Nat :
                  b # Me(c) => TrafficIn(q, b) = Traffic(b)
           /\ \A j \in ChildId :
                  j # i => TrafficIn(q, Child(j)) = Traffic(Child(j))
    BY <1>7, <2>2, <2>3, <2>4
  <2>7. PICK phase2, exp2 :
            /\ phase2 = "RECV_DATA"
            /\ exp2 = IF cstate'[c] = "RR_SENT" THEN expected[c] + 1
                                               ELSE expected[c]
    OBVIOUS
  <2>8. /\ \/ to[1].seq < expected[c] /\ exp2 = expected[c]
           \/ to[1].seq = expected[c] /\ exp2 = expected[c] + 1
        /\ cstate'[c] \in {"RECV_DATA", "RR_SENT"}
        /\ \A d \in Clients \ {c} : cstate'[d] = cstate[d]
    BY <1>0, <2>5, <2>7
  <2>9. Conversation(child[i].state, child[i].seq, child[i].packet,
                     "RECV_DATA", exp2, TrafficIn(q, Me(c)),
                     TrafficIn(q, Child(i)), Len(File[c]))
    <3>1. PICK back2 : back2 = TrafficIn(q, Child(i))
      OBVIOUS
    <3>2. Sent(Traffic(Child(i)), back2, r)
      BY <2>6, <3>1
    <3>3. Conversation(child[i].state, child[i].seq, child[i].packet,
                       "RECV_DATA", exp2, TrafficIn(q, Me(c)),
                       back2, Len(File[c]))
      BY <1>0, <1>2, <1>3, <2>4, <2>5, <2>6, <2>8, <3>2, TalkAcknowledges
    <3> QED
      BY <3>1, <3>3
  <2>10. exp2 = expected[c] \/ (expected[c] <= Len(File[c]) /\ exp2 = expected[c] + 1)
    <3>1. ASSUME to[1].seq = expected[c] PROVE expected[c] <= Len(File[c])
      <4>1. Me(c) \in DOMAIN queue /\ to \in Seq(Good(Me(c), Has))
        <5>1. Me(c) \in DOMAIN queue
          BY ClientSocket
        <5> QED
          BY <1>2, <5>1 DEF IInv, QueueOK
      <4>2. to[1] \in Good(Me(c), Has)
        BY <1>4, <4>1, ElementOfSeq
      <4>3. /\ to[1].flag \notin {"DATA", "END_OF_FILE"} => to[1].seq = 0
            /\ to[1].flag = "DATA" => to[1].seq \in DOMAIN File[c]
        BY <4>2 DEF Good, Me
      <4>4. expected[c] > 0
        <5>1. expected[c] = Len(output[c]) + 1 /\ Len(output[c]) \in Nat
          BY LenProperties DEF IInv, ClientOK, TypeOK
        <5> QED
          BY <5>1
      <4>5. DOMAIN File[c] = 1 .. Len(File[c])
        BY FileAssumption, LenProperties
      <4> QED
        BY <1>0, <2>5, <3>1, <4>3, <4>4, <4>5
    <3> QED
      BY <2>8, <3>1
  <2>11. Within("RECV_DATA", exp2, TrafficIn(q, Me(c)), Len(File[c]))
    BY <1>0, <1>1, <1>2, <2>6, <2>10, WithinData
  <2>12. \A j \in ChildId : Serves(j, Me(c)) =>
            Conversation(child[j].state, child[j].seq, child[j].packet,
                         phase2, exp2, TrafficIn(queue', Me(c)),
                         TrafficIn(queue', Child(j)), Len(File[c]))
    BY <2>5, <2>6, <2>7, <2>9
  <2>13. \A j \in ChildId : ~ Serves(j, Me(c)) =>
            TrafficIn(queue', Child(j)) = Traffic(Child(j))
    BY <2>5, <2>6
  <2>14. /\ \A b \in Clients \X Nat :
                b # Me(c) => TrafficIn(queue', b) = Traffic(b)
         /\ Within(phase2, exp2, TrafficIn(queue', Me(c)), Len(File[c]))
         /\ phase2 = IF cstate'[c] = "FILE_OK" THEN "FILE_OK" ELSE "RECV_DATA"
    BY <2>5, <2>6, <2>7, <2>8, <2>11
  <2> QED
    BY <2>5, <2>7, <2>8, <2>12, <2>13, <2>14, ClientGoesOn
<1>10. ASSUME NEW o \in Outcome, RecvAhead(c, k, o) PROVE FALSE
  <2>1. /\ to[1].seq > expected[c]
        /\ to[1].flag # "END_OF_FILE"
    BY <1>2, <1>10 DEF RecvAhead, NotEndOfFile
  <2>2. to[1].seq \in Nat
    BY <1>2, <1>4
  <2> QED
    BY <1>0, <1>5, <2>1, <2>2
<1> QED
  BY <1>6, <1>8, <1>9, <1>10 DEF RecvData

(* What was on its way stays, and the phase and the number accepted, too.  *)
LEMMA ClientSettles ==
    ASSUME IInv, SocketInv, TransferInv, NEW c \in Clients, UNCHANGED serverVars,
           WriteBlock(c) \/ FileDone(c)
    PROVE  TransferInv'
<1>0. /\ cstate \in [Clients -> ClientState]
      /\ said \in [Clients -> ClientMessage]
      /\ expected \in [Clients -> Nat]
      /\ sock \in [Clients -> Nat]
      /\ NotAhead(c) /\ Finished(c)
  BY DEF IInv, TypeOK, TransferInv
<1>1. PICK phase, exp : phase = ClientPhase(c) /\ exp = Accepted(c)
  OBVIOUS
<1>2. \A i \in ChildId : Serves(i, Me(c)) =>
          Conversation(child[i].state, child[i].seq, child[i].packet,
                       phase, exp, Traffic(Me(c)), Traffic(Child(i)),
                       Len(File[c]))
  BY <1>1, PhaseTalk
<1>3. sock'[c] \in Nat /\ sock'[c] >= sock[c] /\ sock'[c] = sock[c]
  BY <1>0, ReflexiveGe DEF WriteBlock, FileDone
<1>4. CASE WriteBlock(c)
  <2>1. /\ cstate[c] = "RR_SENT" /\ cstate'[c] = "RECV_DATA"
        /\ expected'[c] = expected[c] + 1
        /\ queue' = queue /\ sock' = sock /\ said' = said
        /\ \A d \in Clients \ {c} :
               cstate'[d] = cstate[d] /\ expected'[d] = expected[d]
    BY <1>0, <1>4 DEF WriteBlock, Goto
  <2>2. ~ Finishing(c)
    BY <1>0, <2>1 DEF Finished
  <2>3. /\ ~ Finishing(c)'
        /\ phase = "RECV_DATA" /\ ClientPhase(c)' = "RECV_DATA"
        /\ exp = expected[c] + 1 /\ Accepted(c)' = expected[c] + 1
    BY <1>1, <2>1, <2>2 DEF Finishing, ClientPhase, Accepted
  <2>4. \A b : TrafficIn(queue', b) = Traffic(b)
    BY <2>1 DEF Traffic
  <2>5. NotAhead(c)'
    <3>1. Within(phase, exp, Traffic(Me(c)), Len(File[c]))
      BY <1>0, <1>1 DEF NotAhead
    <3>2. Me(c)' = Me(c)
      BY <2>1 DEF Me
    <3> QED
      BY <2>1, <2>3, <3>1, <3>2 DEF NotAhead, Traffic
  <2>6. Finished(c)' /\ cstate'[c] # "CRASHED"
    BY <2>1, <2>3 DEF Finished
  <2> QED
    BY <1>2, <1>3, <2>1, <2>2, <2>3, <2>4, <2>5, <2>6, ClientTransfer
<1>5. CASE FileDone(c)
  <2>1. PICK m : m = "File done"
    OBVIOUS
  <2>2. /\ cstate[c] = "EOF_ACK_SENT"
        /\ Exit(c, m, queue)
        /\ sock' = sock /\ expected' = expected
    BY <1>5, <2>1 DEF FileDone
  <2>3. /\ \A b : b # Me(c) => TrafficIn(queue', b) = Traffic(b)
        /\ cstate' = [cstate EXCEPT ![c] = "DONE"]
        /\ said' = [said EXCEPT ![c] = m]
    <3>1. \A b : TrafficIn(queue, b) = Traffic(b)
      BY DEF Traffic
    <3> QED
      BY <2>2, <3>1, ExitTraffic
  <2>4. /\ cstate'[c] = "DONE" /\ said'[c] = "File done"
        /\ \A d \in Clients \ {c} :
               /\ cstate'[d] = cstate[d] /\ said'[d] = said[d]
               /\ sock'[d] = sock[d] /\ expected'[d] = expected[d]
        /\ \A i \in ChildId : TrafficIn(queue', Child(i)) = Traffic(Child(i))
    BY <1>0, <2>1, <2>2, <2>3, Addresses
  <2>5. /\ Finishing(c) /\ Finishing(c)'
        /\ phase = "FINISHED" /\ ClientPhase(c)' = "FINISHED"
        /\ exp = expected[c] /\ Accepted(c)' = expected[c]
    BY <1>1, <2>2, <2>4 DEF Finishing, ClientPhase, Accepted
  <2>6. NotAhead(c)'
    BY <2>4 DEF NotAhead, Within, ClientPhase, Finishing, Hears
  <2>7. Finished(c)' /\ cstate'[c] # "CRASHED"
    BY <1>0, <2>2, <2>4, <2>5 DEF Finished
  <2>8. ASSUME NEW i \in ChildId, Serves(i, Me(c))
        PROVE  Conversation(child[i].state, child[i].seq, child[i].packet,
                            phase, exp, TrafficIn(queue', Me(c)),
                            TrafficIn(queue', Child(i)), Len(File[c]))
    <3>1. TrafficIn(queue', Child(i)) = Traffic(Child(i))
      BY <2>4
    <3>2. Conversation(child[i].state, child[i].seq, child[i].packet,
                       "FINISHED", exp, Traffic(Me(c)), Traffic(Child(i)),
                       Len(File[c]))
      BY <1>2, <2>5, <2>8
    <3> QED
      BY <2>5, <3>1, <3>2, TalkUnheard
  <2> QED
    BY <1>3, <2>2, <2>3, <2>4, <2>5, <2>6, <2>7, <2>8, ClientTransfer
<1> QED
  BY <1>4, <1>5

(* Every step of a client.                                                 *)
LEMMA ClientStepTransfer ==
    ASSUME InTime, IInv, SocketInv, TransferInv, NEW c \in Clients,
           ClientStep(c), UNCHANGED serverVars
    PROVE  TransferInv'
<1>1. CASE \E o \in Outcome : StartState(c, o)
  BY <1>1, StartTransfer DEF InTime
<1>2. CASE \/ StartStateNoHost(c) \/ FilenameGiveUp(c)
           \/ FilenameTimeout(c) \/ FileOkFails(c) \/ RecvDataTimeout(c)
           \/ StartStateSendFails(c)
  BY <1>2, ClientLeaves
<1>3. CASE FileOk(c) \/ WriteBlock(c) \/ FileDone(c)
  BY <1>3, ClientOpensTransfer, ClientSettles
<1>4. ASSUME cstate[c] \in {"FILENAME", "RECV_DATA"}, NEW k \in Arrivals(Me(c)),
             ClientReceives(c, k)
      PROVE  TransferInv'
  <2>1. CASE \/ FilenameCorrupt(c, k) \/ FilenameBad(c, k)
             \/ RecvDataSendFails(c, k)
    BY <1>4, <2>1, ClientLeaves
  <2>2. CASE FilenameOk(c, k)
    BY <1>4, <2>2, ClientOpensTransfer
  <2>3. CASE RecvDataCorrupt(c, k) \/ \E o \in Outcome : RecvData(c, k, o)
    <3>1. cstate[c] = "RECV_DATA"
      BY <2>3 DEF RecvDataCorrupt, RecvData, RecvEndOfFile, RecvOld,
                  RecvExpected, RecvAhead, NotEndOfFile
    <3> QED
      BY <2>3, <3>1, ClientReads
  <2> QED
    BY <1>4, <2>1, <2>2, <2>3 DEF ClientReceives
<1> QED
  BY <1>1, <1>2, <1>3, <1>4 DEF ClientStep

(* A step of child i: it is enough to look at its own conversation.        *)
LEMMA ChildTransfer ==
    ASSUME IInv, SocketInv, TransferInv, NEW i \in ChildId, Born(i),
           UNCHANGED rcopyVars,
           NEW a, a = child[i].remote, NEW c, c = ClientOf(i),
           child'[i].remote = a, child'[i].state # "UNBORN",
           \A j \in ChildId \ {i} : child'[j] = child[j],
           \A b : b # a /\ b # Child(i) => TrafficIn(queue', b) = Traffic(b),
           Conversation(child'[i].state, child'[i].seq, child'[i].packet,
                        Phase(i), Accepted(c), TrafficIn(queue', a),
                        TrafficIn(queue', Child(i)), Len(File[c])),
           a = Me(c) => Within(ClientPhase(c), Accepted(c), TrafficIn(queue', a),
                               Len(File[c])),
           Verdict(i)'
    PROVE  TransferInv'
<1>0. /\ cstate' = cstate /\ sock' = sock /\ said' = said /\ expected' = expected
      /\ a \in Clients \X Nat /\ c \in Clients
      /\ \A j \in ChildId : /\ Child(j) \notin Clients \X Nat
                            /\ Child(j) = Child(i) => j = i
  BY Addresses DEF rcopyVars
<1>1. Talk(i)' /\ Verdict(i)' /\ Fresh(i)'
  <2>1. Phase(i)' = Phase(i)
    BY <1>0 DEF Phase, ClientOf, Me, ClientPhase, Finishing
  <2>2. child'[i].remote = child[i].remote /\ child'[i].remote[1] = c
    BY DEF ClientOf
  <2>3. Talk(i)'
    BY <1>0, <2>1, <2>2 DEF Talk, Traffic, ClientOf, Child, Accepted
  <2>4. Verdict(i)'
    OBVIOUS
  <2>5. Fresh(i)'
    BY DEF Fresh, Born
  <2> QED
    BY <2>3, <2>4, <2>5
<1>2. ASSUME NEW j \in ChildId, j # i
      PROVE  Talk(j)' /\ Verdict(j)' /\ Fresh(j)'
  <2>1. child'[j] = child[j]
    BY <1>2
  <2>2. Verdict(j)' /\ Fresh(j)'
    BY <1>0, <2>1 DEF TransferInv, Verdict, Fresh, Born, ClientOf,
        Finishing
  <2>3. ASSUME Born(j) PROVE Talk(j)'
    <3>1. PICK b : b = child[j].remote
      OBVIOUS
    <3>2. b # a
      BY <1>2, <2>3, <3>1 DEF SocketInv, ServedOnce, Serves
    <3>3. b \in Clients \X Nat
      BY <2>3, <3>1, Addresses
    <3>4. TrafficIn(queue', b) = Traffic(b)
      BY <1>0, <3>2, <3>3
    <3>5. TrafficIn(queue', Child(j)) = Traffic(Child(j))
      BY <1>0, <1>2
    <3>6. Phase(j)' = Phase(j)
      BY <1>0, <2>1 DEF Phase, ClientOf, Me, ClientPhase, Finishing
    <3>7. Talk(j)
      BY DEF TransferInv
    <3>8. /\ ClientOf(j)' = ClientOf(j)
          /\ Accepted(ClientOf(j))' = Accepted(ClientOf(j))
      BY <1>0, <2>1 DEF ClientOf, Accepted
    <3>9. /\ Traffic(child[j].remote)' = Traffic(child[j].remote)
          /\ Traffic(Child(j))' = Traffic(Child(j))
      BY <2>1, <3>1, <3>4, <3>5 DEF Traffic, Child
    <3> QED
      BY <2>1, <2>3, <3>6, <3>7, <3>8, <3>9 DEF Talk, Born
  <2> QED
    BY <2>1, <2>2, <2>3 DEF Talk, Born
<1>3. ASSUME NEW d \in Clients
      PROVE  NotAhead(d)' /\ Finished(d)' /\ cstate'[d] # "CRASHED"
  <2>1. Me(d)' = Me(d) /\ Me(d) \in Clients \X Nat
    BY <1>0, Addresses DEF Me
  <2>2. Within(ClientPhase(d), Accepted(d), TrafficIn(queue', Me(d)), Len(File[d]))
    <3>1. CASE Me(d) = a
      <4>1. d = c
        <5>1. a[1] = c
          BY DEF ClientOf
        <5>2. Me(d)[1] = d
          BY DEF Me
        <5> QED
          BY <3>1, <5>1, <5>2
      <4> QED
        BY <3>1, <4>1
    <3>2. CASE Me(d) # a
      <4>1. TrafficIn(queue', Me(d)) = Traffic(Me(d))
        BY <1>0, <2>1, <3>2
      <4> QED
        BY <4>1 DEF TransferInv, NotAhead
    <3> QED
      BY <3>1, <3>2
  <2>3. NotAhead(d)'
    BY <1>0, <2>1, <2>2
       DEF NotAhead, Traffic, ClientPhase, Accepted, Finishing
  <2> QED
    BY <1>0, <2>3 DEF TransferInv, Finished, Finishing
<1> QED
  BY <1>1, <1>2, <1>3 DEF TransferInv

(* What the invariants say of a child and its client.                      *)
LEMMA ChildTalk ==
    ASSUME IInv, SocketInv, TransferInv, NEW i \in ChildId, Born(i),
           NEW a, a = child[i].remote, NEW c, c = ClientOf(i)
    PROVE  /\ Conversation(child[i].state, child[i].seq, child[i].packet,
                           Phase(i), Accepted(c), Traffic(a),
                           Traffic(Child(i)), Len(File[c]))
           /\ child[i].seq \in Nat /\ Accepted(c) \in Nat /\ Len(File[c]) \in Nat
           /\ Len(Traffic(a)) \in Nat /\ Len(Traffic(Child(i))) \in Nat
           /\ c \in Clients /\ a # Child(i) /\ a \in Clients \X Nat
           /\ Phase(i) = "FILENAME" => Accepted(c) = 1
           /\ Phase(i) = "FINISHED" => Finishing(c)
           /\ a = Me(c) => /\ Phase(i) = ClientPhase(c)
                           /\ Within(ClientPhase(c), Accepted(c), Traffic(a), Len(File[c]))
           /\ child[i].said # "this should never happen"
           /\ child[i].said = "complete successfully" => child[i].state = "DONE"
           /\ child[i].packet \in Packet
           /\ Blocks(i) = File[c]
<1>1. c \in Clients /\ a # Child(i) /\ a \in Clients \X Nat
  BY Addresses
<1>2. Conversation(child[i].state, child[i].seq, child[i].packet,
                   Phase(i), Accepted(c), Traffic(a),
                   Traffic(Child(i)), Len(File[c]))
  BY DEF TransferInv, Talk
<1>3. /\ child[i].seq \in Nat /\ Accepted(c) \in Nat /\ Len(File[c]) \in Nat
      /\ Len(Traffic(a)) \in Nat /\ Len(Traffic(Child(i))) \in Nat
      /\ child[i].packet \in Packet
  <2>1. Accepted(c) \in Nat
    BY <1>1 DEF IInv, TypeOK, Accepted
  <2> QED
    BY <1>1, <2>1, ChildFacts, TrafficType, FileAssumption, LenProperties
       DEF IInv, TypeOK, Born
<1>4. cstate[c] \in ClientState /\ cstate[c] # "FINISHED"
  BY <1>1 DEF IInv, TypeOK, ClientState
<1>5. Phase(i) = IF a # Me(c) THEN "LEFT" ELSE ClientPhase(c)
  BY DEF Phase
<1>6. ClientPhase(c) = "FILENAME" => Accepted(c) = 1
  <2>1. ClientPhase(c) = "FILENAME" => cstate[c] = "FILENAME"
    BY DEF ClientPhase
  <2>2. cstate[c] = "FILENAME" => output[c] = <<>>
    BY <1>1 DEF IInv, ClientOK
  <2>3. expected[c] = Len(output[c]) + 1
    BY <1>1 DEF IInv, ClientOK
  <2>4. cstate[c] = "FILENAME" => expected[c] = 1
    BY <2>2, <2>3, EmptySeq
  <2> QED
    BY <2>1, <2>4 DEF Accepted
<1>7. Phase(i) = "FILENAME" => Accepted(c) = 1
  BY <1>5, <1>6
<1>8. Phase(i) = "FINISHED" => Finishing(c)
  BY <1>4, <1>5 DEF ClientPhase
<1>9. a = Me(c) => /\ Phase(i) = ClientPhase(c)
                    /\ Within(ClientPhase(c), Accepted(c), Traffic(a), Len(File[c]))
  BY <1>1, <1>5 DEF TransferInv, NotAhead
<1>10. /\ child[i].said # "this should never happen"
       /\ child[i].said = "complete successfully" => child[i].state = "DONE"
  BY DEF TransferInv, Verdict
<1>11. Blocks(i) = File[c]
  BY DEF Blocks, IInv, ChildOK, Born, ClientOf
<1> QED
  BY <1>1, <1>2, <1>3, <1>7, <1>8, <1>9, <1>10, <1>11

(* What a child sends is not ahead of its client.                          *)
LEMMA ChildWithin ==
    ASSUME IInv, SocketInv, TransferInv, NEW i \in ChildId, Born(i),
           NEW a, a = child[i].remote, NEW c, c = ClientOf(i), a = Me(c),
           NEW p, NEW t, Sent(Traffic(a), t, p),
           Hears(Phase(i)) =>
               IF p.flag = "END_OF_FILE" THEN Accepted(c) = Len(File[c]) + 1
                                         ELSE p.seq <= Accepted(c)
    PROVE  Within(ClientPhase(c), Accepted(c), t, Len(File[c]))
<1>1. /\ Accepted(c) \in Nat /\ Len(File[c]) \in Nat
      /\ Len(Traffic(a)) \in Nat
      /\ Phase(i) = ClientPhase(c)
      /\ Within(ClientPhase(c), Accepted(c), Traffic(a), Len(File[c]))
  BY ZenonT(30), ChildTalk
<1>2. Hears(ClientPhase(c)) =>
          IF p.flag = "END_OF_FILE" THEN Accepted(c) = Len(File[c]) + 1
                                    ELSE p.seq <= Accepted(c)
  BY <1>1
<1> QED
  BY <1>1, <1>2, WithinSent

(* A child sends p, and the conversation goes on or ends.                  *)
LEMMA ChildSendsTransfer ==
    ASSUME IInv, SocketInv, TransferInv, NEW i \in ChildId, Born(i),
           UNCHANGED rcopyVars,
           NEW a, a = child[i].remote, NEW c, c = ClientOf(i),
           child'[i].remote = a, child'[i].state # "UNBORN",
           \A j \in ChildId \ {i} : child'[j] = child[j],
           \A b : b # a /\ b # Child(i) => TrafficIn(queue', b) = Traffic(b),
           Conversation(child'[i].state, child'[i].seq, child'[i].packet,
                        Phase(i), Accepted(c), TrafficIn(queue', a),
                        TrafficIn(queue', Child(i)), Len(File[c])),
           NEW p, Sent(Traffic(a), TrafficIn(queue', a), p),
           Hears(Phase(i)) =>
               IF p.flag = "END_OF_FILE" THEN Accepted(c) = Len(File[c]) + 1
                                         ELSE p.seq <= Accepted(c),
           child'[i].said \notin {"this should never happen",
                                  "complete successfully"}
    PROVE  TransferInv'
<1>1. ASSUME a = Me(c)
      PROVE  Within(ClientPhase(c), Accepted(c), TrafficIn(queue', a), Len(File[c]))
  <2>1. PICK t : t = TrafficIn(queue', a)
    OBVIOUS
  <2>2. Within(ClientPhase(c), Accepted(c), t, Len(File[c]))
    BY <1>1, <2>1, ChildWithin
  <2> QED
    BY <2>1, <2>2
<1>2. /\ \A b : b # a /\ b # Child(i) => TrafficIn(queue', b) = Traffic(b)
      /\ a = Me(c) => Within(ClientPhase(c), Accepted(c), TrafficIn(queue', a),
                             Len(File[c]))
      /\ Conversation(child'[i].state, child'[i].seq, child'[i].packet,
                      Phase(i), Accepted(c), TrafficIn(queue', a),
                      TrafficIn(queue', Child(i)), Len(File[c]))
  BY <1>1
<1>3. Verdict(i)'
  BY DEF Verdict
<1> QED
  BY <1>2, <1>3, ChildTransfer

(* A child opens its socket or sends.                                      *)
LEMMA ChildSendsStep ==
    ASSUME InTime, IInv, SocketInv, TransferInv, NEW i \in ChildId,
           NEW o \in Outcome, ChildSends(i, o), UNCHANGED rcopyVars
    PROVE  TransferInv'
<1>0. Born(i)
  BY DEF Born, ChildSends, FilenameOpens, FilenameFails, SendBlock,
         SendEndOfFile, TimeoutOnAck, TimeoutOnEofAck, In
<1>1. PICK a : a = child[i].remote
  OBVIOUS
<1>2. PICK c : c = ClientOf(i)
  OBVIOUS
<1>3. PICK s, n, last, phase, exp, len :
          /\ s = child[i].state /\ n = child[i].seq /\ last = child[i].packet
          /\ phase = Phase(i) /\ exp = Accepted(c) /\ len = Len(File[c])
  OBVIOUS
<1>4. /\ Conversation(s, n, last, phase, exp, Traffic(a), Traffic(Child(i)), len)
      /\ n \in Nat /\ exp \in Nat /\ len \in Nat
      /\ Len(Traffic(a)) \in Nat /\ Len(Traffic(Child(i))) \in Nat
      /\ a # Child(i)
      /\ phase = "FILENAME" => exp = 1
      /\ child[i].said # "this should never happen"
      /\ child[i].said = "complete successfully" => s = "DONE"
      /\ last \in Packet
      /\ Len(Blocks(i)) = len
  BY <1>0, <1>1, <1>2, <1>3, ChildTalk
<1> DEFINE q(p) == safeSendto(queue, a, p, o)
           r(p) == safeSendto(OpenSocket(queue, Child(i)), a, p, o)
<1>5. \A p \in Packet :
         /\ Sent(Traffic(a), TrafficIn(q(p), a), p)
         /\ \A b : b # a => TrafficIn(q(p), b) = Traffic(b)
         /\ Sent(Traffic(a), TrafficIn(r(p), a), p)
         /\ \A b : b # a /\ b # Child(i) => TrafficIn(r(p), b) = Traffic(b)
         /\ Len(TrafficIn(r(p), Child(i))) = 0
  BY <1>0, <1>1, ChildSendTraffic DEF InTime
<1> HIDE DEF q, r
<1>6. ASSUME NEW p, Sent(Traffic(a), TrafficIn(queue', a), p),
             \A b : b # a /\ b # Child(i) => TrafficIn(queue', b) = Traffic(b),
             Hears(phase) => IF p.flag = "END_OF_FILE" THEN exp = len + 1
                                                       ELSE p.seq <= exp,
             s # "DONE", NEW s2, s2 # "UNBORN", NEW x, NEW m, NEW t,
             ChildGoto(i, s2, x, m, t),
             Conversation(s2, m, x, phase, exp, TrafficIn(queue', a),
                          TrafficIn(queue', Child(i)), len)
      PROVE  TransferInv'
  <2>1. /\ child'[i].state = s2 /\ child'[i].packet = x /\ child'[i].seq = m
        /\ child'[i].remote = a
        /\ child'[i].said = child[i].said
        /\ \A j \in ChildId \ {i} : child'[j] = child[j]
    BY <1>1, <1>6, GotoEffect
  <2>2. Conversation(child'[i].state, child'[i].seq, child'[i].packet,
                     Phase(i), Accepted(c), TrafficIn(queue', a),
                     TrafficIn(queue', Child(i)), Len(File[c]))
    BY <1>3, <1>6, <2>1
  <2>3. Hears(Phase(i)) =>
            IF p.flag = "END_OF_FILE" THEN Accepted(c) = Len(File[c]) + 1
                                      ELSE p.seq <= Accepted(c)
    BY <1>3, <1>6
  <2>4. /\ child'[i].state # "UNBORN"
        /\ child'[i].said \notin {"this should never happen",
                                  "complete successfully"}
    BY <1>4, <1>6, <2>1
  <2> QED
    BY <1>0, <1>1, <1>2, <1>6, <2>1, <2>2, <2>3, <2>4, ChildSendsTransfer
<1>7. \A x \in Nat : 0 <= x /\ x <= x /\ x - 1 <= x /\ x - 1 <= x - 1
  OBVIOUS
<1>8. CASE FilenameOpens(i, o)
  <2>1. PICK p : p = createHeader("FNAME_OK", 0, 0, Child(i))
    OBVIOUS
  <2>2. /\ s = "FILENAME"
        /\ queue' = r(p)
        /\ ChildGoto(i, "SEND_DATA", last, n, child[i].retry)
    BY <1>1, <1>3, <1>8, <2>1 DEF FilenameOpens, ChildMoves, In, r
  <2>3. p \in Packet /\ p.seq = 0 /\ p.flag = "FNAME_OK"
    BY <1>0, <2>1, ChildPacketGood DEF Good, Born, createHeader
  <2>4. Conversation("SEND_DATA", n, last, phase, exp, TrafficIn(queue', a),
                     TrafficIn(queue', Child(i)), len)
    BY <1>4, <1>5, <2>2, <2>3, TalkConfirms
  <2>5. /\ Sent(Traffic(a), TrafficIn(queue', a), p)
        /\ \A b : b # a /\ b # Child(i) => TrafficIn(queue', b) = Traffic(b)
    BY <1>5, <2>2, <2>3
  <2>6. p.flag # "END_OF_FILE" /\ p.seq <= exp
    BY <1>4, <1>7, <2>3
  <2> QED
    BY <1>6, <2>2, <2>4, <2>5, <2>6
<1>9. CASE FilenameFails(i, o)
  <2>1. PICK p : p = createHeader("FNAME_BAD", 0, 0, Child(i))
    OBVIOUS
  <2>2. ChildExit(i, "FNAME_BAD", r(p))
    BY <1>1, <1>9, <2>1 DEF FilenameFails, r
  <2>3. p \in Packet /\ p.seq = 0 /\ p.flag = "FNAME_BAD"
    BY <1>0, <2>1, ChildPacketGood DEF Good, Born, createHeader
  <2>4. /\ child'[i].state = "DONE"
        /\ child'[i].remote = a
        /\ child'[i].said = "FNAME_BAD"
        /\ \A j \in ChildId \ {i} : child'[j] = child[j]
        /\ \A b : b # Child(i) => TrafficIn(queue', b) = TrafficIn(r(p), b)
    <3>1. PICK m, q0 : m = "FNAME_BAD" /\ q0 = r(p)
      OBVIOUS
    <3>2. ChildExit(i, m, q0)
      BY <2>2, <3>1
    <3> QED
      BY <1>1, <3>1, <3>2, ExitEffect
  <2>5. /\ Sent(Traffic(a), TrafficIn(queue', a), p)
        /\ \A b : b # a /\ b # Child(i) => TrafficIn(queue', b) = Traffic(b)
    BY <1>4, <1>5, <2>3, <2>4
  <2>6. p.flag # "END_OF_FILE" /\ p.seq <= Accepted(c)
    BY <1>3, <1>4, <1>7, <2>3
  <2>7. Conversation(child'[i].state, child'[i].seq, child'[i].packet,
                     Phase(i), Accepted(c), TrafficIn(queue', a),
                     TrafficIn(queue', Child(i)), Len(File[c]))
    BY <2>4, TalkOver
  <2>8. /\ child'[i].state # "UNBORN"
        /\ child'[i].said \notin {"this should never happen",
                                  "complete successfully"}
    BY <2>4
  <2> QED
    BY <1>0, <1>1, <1>2, <2>4, <2>5, <2>6, <2>7, <2>8, ChildSendsTransfer
<1>10. CASE SendBlock(i, o)
  <2>1. PICK p : p = createHeader("DATA", n, Blocks(i)[n], Child(i))
    OBVIOUS
  <2>2. /\ s = "SEND_DATA"
        /\ n <= len
        /\ queue' = q(p)
        /\ ChildGoto(i, "WAIT_ON_ACK", p, n + 1, child[i].retry)
    BY <1>1, <1>3, <1>4, <1>10, <2>1 DEF SendBlock, SendPacket, In, q
  <2>3. p \in Packet /\ p.seq = n /\ p.flag = "DATA"
    BY <1>0, <1>3, <1>4, <2>1, <2>2, ChildPacketGood DEF Good, Born, createHeader
  <2>4. /\ Sent(Traffic(a), TrafficIn(queue', a), p)
        /\ \A b : b # a => TrafficIn(queue', b) = Traffic(b)
    BY <1>5, <2>2, <2>3
  <2>5. Conversation("WAIT_ON_ACK", n + 1, p, phase, exp, TrafficIn(queue', a),
                     Traffic(Child(i)), len)
    BY <1>4, <2>2, <2>3, <2>4, TalkSendsBlock
  <2>6. Hears(phase) => p.flag # "END_OF_FILE" /\ p.seq <= exp
    <3>1. Hears(phase) => exp = n
      BY <1>4, <2>2 DEF Conversation
    <3>2. n <= n
      BY <1>4, <1>7
    <3> QED
      BY <2>3, <3>1, <3>2
  <2>7. Conversation("WAIT_ON_ACK", n + 1, p, phase, exp, TrafficIn(queue', a),
                     TrafficIn(queue', Child(i)), len)
    BY <1>4, <2>4, <2>5
  <2> QED
    BY <1>6, <2>2, <2>4, <2>6, <2>7
<1>11. CASE SendEndOfFile(i, o)
  <2>1. PICK p : p = createHeader("END_OF_FILE", n, 0, Child(i))
    OBVIOUS
  <2>2. /\ s = "SEND_DATA"
        /\ n > len
        /\ queue' = q(p)
        /\ ChildGoto(i, "WAIT_ON_EOF_ACK", p, n, child[i].retry)
    BY <1>1, <1>3, <1>4, <1>11, <2>1 DEF SendEndOfFile, SendPacket, In, q
  <2>3. p \in Packet /\ p.flag = "END_OF_FILE"
    BY <1>0, <1>3, <2>1, ChildPacketGood DEF Good, Born, createHeader
  <2>4. /\ Sent(Traffic(a), TrafficIn(queue', a), p)
        /\ \A b : b # a => TrafficIn(queue', b) = Traffic(b)
    BY <1>5, <2>2, <2>3
  <2>5. Conversation("WAIT_ON_EOF_ACK", n, p, phase, exp, TrafficIn(queue', a),
                     Traffic(Child(i)), len)
    BY <1>4, <2>2, <2>3, <2>4, TalkSendsEnd
  <2>6. Hears(phase) => exp = len + 1
    BY <2>5 DEF Conversation
  <2>7. Conversation("WAIT_ON_EOF_ACK", n, p, phase, exp, TrafficIn(queue', a),
                     TrafficIn(queue', Child(i)), len)
    BY <1>4, <2>4, <2>5
  <2> QED
    BY <1>6, <2>2, <2>3, <2>4, <2>6, <2>7
<1>12. CASE TimeoutOnAck(i, o) \/ TimeoutOnEofAck(i, o)
  <2>1. PICK s2 : s2 = IF s = "TIMEOUT_ON_ACK" THEN "WAIT_ON_ACK"
                                               ELSE "WAIT_ON_EOF_ACK"
    OBVIOUS
  <2>2. /\ s \in {"TIMEOUT_ON_ACK", "TIMEOUT_ON_EOF_ACK"}
        /\ queue' = q(last)
        /\ ChildGoto(i, s2, last, n, child[i].retry)
    BY <1>1, <1>3, <1>12, <2>1
       DEF TimeoutOnAck, TimeoutOnEofAck, ChildMoves, In, q
  <2>3. /\ Sent(Traffic(a), TrafficIn(queue', a), last)
        /\ \A b : b # a => TrafficIn(queue', b) = Traffic(b)
    BY <1>4, <1>5, <2>2
  <2>4. Conversation(s2, n, last, phase, exp, TrafficIn(queue', a),
                     Traffic(Child(i)), len)
    BY <1>4, <2>1, <2>2, <2>3, TalkSendsAgain
  <2>5. Hears(phase) => IF last.flag = "END_OF_FILE" THEN exp = len + 1
                                                     ELSE last.seq <= exp
    <3>1. CASE s = "TIMEOUT_ON_ACK"
      <4>1. /\ last.flag = "DATA" /\ last.seq = n - 1
            /\ Hears(phase) => exp \in {n - 1, n}
        BY <1>4, <3>1 DEF Conversation
      <4>2. n - 1 <= n /\ n - 1 <= n - 1
        BY <1>4, <1>7
      <4> QED
        BY <4>1, <4>2
    <3>2. CASE s = "TIMEOUT_ON_EOF_ACK"
      BY <1>4, <3>2 DEF Conversation
    <3> QED
      BY <2>2, <3>1, <3>2
  <2>6. Conversation(s2, n, last, phase, exp, TrafficIn(queue', a),
                     TrafficIn(queue', Child(i)), len)
    BY <1>4, <2>3, <2>4
  <2>7. s # "DONE" /\ s2 # "UNBORN"
    BY <2>1, <2>2
  <2> QED
    BY <1>6, <2>2, <2>3, <2>5, <2>6, <2>7
<1> QED
  BY <1>8, <1>9, <1>10, <1>11, <1>12 DEF ChildSends

(* A child that sends nothing.                                             *)
LEMMA ChildQuiet ==
    ASSUME IInv, SocketInv, TransferInv, NEW i \in ChildId, Born(i),
           UNCHANGED rcopyVars,
           NEW a, a = child[i].remote, NEW c, c = ClientOf(i),
           child'[i].remote = a, child'[i].state # "UNBORN",
           \A j \in ChildId \ {i} : child'[j] = child[j],
           \A b : b # Child(i) => TrafficIn(queue', b) = Traffic(b),
           Conversation(child'[i].state, child'[i].seq, child'[i].packet,
                        Phase(i), Accepted(c), Traffic(a),
                        TrafficIn(queue', Child(i)), Len(File[c])),
           child'[i].said # "this should never happen",
           child'[i].said = "complete successfully" =>
               child'[i].state = "DONE" /\ Finishing(c)
    PROVE  TransferInv'
<1>1. a # Child(i) /\ (a = Me(c) => Within(ClientPhase(c), Accepted(c), Traffic(a),
                                           Len(File[c])))
  BY ChildTalk
<1>2. TrafficIn(queue', a) = Traffic(a)
  BY <1>1
<1>3. /\ \A b : b # a /\ b # Child(i) => TrafficIn(queue', b) = Traffic(b)
      /\ a = Me(c) => Within(ClientPhase(c), Accepted(c), TrafficIn(queue', a),
                             Len(File[c]))
      /\ Conversation(child'[i].state, child'[i].seq, child'[i].packet,
                      Phase(i), Accepted(c), TrafficIn(queue', a),
                      TrafficIn(queue', Child(i)), Len(File[c]))
  BY <1>1, <1>2
<1>4. Verdict(i)'
  <2>1. child'[i].remote[1] = c /\ cstate' = cstate /\ said' = said
        /\ expected' = expected /\ sock' = sock
    BY DEF ClientOf, rcopyVars
  <2> QED
    BY <2>1 DEF Verdict, ClientOf, Finishing
<1> QED
  BY <1>3, <1>4, ChildTransfer

(* Where nothing is, there are none.                                       *)
LEMMA EmptyRange ==
    ASSUME NEW x \in Nat, \A k \in 1 .. x : FALSE
    PROVE  x = 0
<1>1. ~ (1 \in 1 .. x)
  OBVIOUS
<1> QED
  BY <1>1

(* A child receives, gives up or waits no longer.                          *)
LEMMA ChildQuietStep ==
    ASSUME InTime, IInv, SocketInv, TransferInv, NEW i \in ChildId,
           ChildStep(i), \A o \in Outcome : ~ ChildSends(i, o),
           UNCHANGED rcopyVars
    PROVE  TransferInv'
<1>0. Born(i)
  BY DEF Born, ChildStep, ChildSendFails, SendDataReadError, WaitOnAckGiveUp,
         WaitOnEofAckGiveUp, WaitOnAckTimeout, WaitOnEofAckTimeout, In
<1>1. PICK a : a = child[i].remote
  OBVIOUS
<1>2. PICK c : c = ClientOf(i)
  OBVIOUS
<1>3. PICK s, n, last, phase, exp, len :
          /\ s = child[i].state /\ n = child[i].seq /\ last = child[i].packet
          /\ phase = Phase(i) /\ exp = Accepted(c) /\ len = Len(File[c])
  OBVIOUS
<1>4. /\ Conversation(s, n, last, phase, exp, Traffic(a), Traffic(Child(i)), len)
      /\ n \in Nat /\ exp \in Nat /\ len \in Nat
      /\ Len(Traffic(a)) \in Nat /\ Len(Traffic(Child(i))) \in Nat
      /\ a # Child(i) /\ a \in Clients \X Nat /\ c \in Clients
      /\ phase = "FINISHED" => Finishing(c)
      /\ child[i].said # "this should never happen"
      /\ child[i].said = "complete successfully" => s = "DONE"
  BY <1>0, <1>1, <1>2, <1>3, ChildTalk
<1>5. ASSUME s # "DONE", NEW s2, s2 # "UNBORN", NEW t,
             ChildGoto(i, s2, last, n, t),
             \A b : b # Child(i) => TrafficIn(queue', b) = Traffic(b),
             Conversation(s2, n, last, phase, exp, Traffic(a),
                          TrafficIn(queue', Child(i)), len)
      PROVE  TransferInv'
  <2>1. /\ child'[i].state = s2 /\ child'[i].packet = last /\ child'[i].seq = n
        /\ child'[i].remote = a
        /\ child'[i].said = child[i].said
        /\ \A j \in ChildId \ {i} : child'[j] = child[j]
    BY <1>1, <1>5, GotoEffect
  <2>2. Conversation(child'[i].state, child'[i].seq, child'[i].packet,
                     Phase(i), Accepted(c), Traffic(a),
                     TrafficIn(queue', Child(i)), Len(File[c]))
    BY <1>3, <1>5, <2>1
  <2>3. /\ child'[i].state # "UNBORN"
        /\ child'[i].said # "this should never happen"
        /\ child'[i].said # "complete successfully"
    BY <1>4, <1>5, <2>1
  <2> QED
    BY <1>0, <1>1, <1>2, <1>5, <2>1, <2>2, <2>3, ChildQuiet
<1>6. ASSUME NEW m, NEW q, ChildExit(i, m, q),
             \A b : b # Child(i) => TrafficIn(q, b) = Traffic(b),
             m # "this should never happen",
             m = "complete successfully" => Finishing(c)
      PROVE  TransferInv'
  <2>1. /\ child'[i].state = "DONE"
        /\ child'[i].remote = a
        /\ child'[i].said = m
        /\ \A j \in ChildId \ {i} : child'[j] = child[j]
        /\ \A b : b # Child(i) => TrafficIn(queue', b) = TrafficIn(q, b)
    <3>1. /\ child'[i].state = "DONE"
          /\ child'[i].remote = child[i].remote
          /\ child'[i].said = m
          /\ \A j \in ChildId \ {i} : child'[j] = child[j]
          /\ \A b : b # Child(i) => TrafficIn(queue', b) = TrafficIn(q, b)
      <4>1. ChildExit(i, m, q)
        BY <1>6
      <4> QED
        BY <4>1, ExitEffect
    <3> QED
      BY <1>1, <3>1
  <2>2. Conversation(child'[i].state, child'[i].seq, child'[i].packet,
                     Phase(i), Accepted(c), Traffic(a),
                     TrafficIn(queue', Child(i)), Len(File[c]))
    BY <2>1, TalkOver
  <2>3. child'[i].state # "UNBORN"
    BY <2>1
  <2> QED
    BY <1>0, <1>1, <1>2, <1>6, <2>1, <2>2, <2>3, ChildQuiet
<1>7. \A b : TrafficIn(queue, b) = Traffic(b)
  BY DEF Traffic
<1>8. CASE SendDataReadError(i) \/ WaitOnAckGiveUp(i) \/ ChildSendFails(i)
  <2>1. \E m \in {"read error", "no response", "sendto failed"} :
            ChildExit(i, m, queue)
    BY <1>8 DEF SendDataReadError, WaitOnAckGiveUp, ChildSendFails
  <2> QED
    BY <1>6, <1>7, <2>1
<1>9. CASE WaitOnEofAckGiveUp(i)
  <2>1. /\ s = "WAIT_ON_EOF_ACK" /\ queue' = queue
        /\ ChildGoto(i, "BLOCKED", last, n, MAX_TRIES + 1)
    BY <1>3, <1>9 DEF WaitOnEofAckGiveUp, ChildMoves, In
  <2>2. Conversation("BLOCKED", n, last, phase, exp, Traffic(a),
                     Traffic(Child(i)), len)
    BY <1>4, <2>1, TalkBlocks
  <2> QED
    BY <1>5, <1>7, <2>1, <2>2
<1>10. CASE \/ WaitOnAckTimeout(i) /\ ChildTimerEnds(i)
            \/ WaitOnEofAckTimeout(i) /\ ChildTimerEnds(i)
  <2>1. PICK s2 : s2 = IF s = "WAIT_ON_ACK" THEN "TIMEOUT_ON_ACK"
                                            ELSE "TIMEOUT_ON_EOF_ACK"
    OBVIOUS
  <2>2. /\ s \in {"WAIT_ON_ACK", "WAIT_ON_EOF_ACK"} /\ queue' = queue
        /\ ChildGoto(i, s2, last, n, Tries(i))
        /\ ChildTimerEnds(i)
    BY <1>3, <1>10, <2>1
       DEF WaitOnAckTimeout, WaitOnEofAckTimeout, ChildMoves, In
  <2>3. /\ queue[Child(i)] = <<>>
        /\ a \in DOMAIN queue =>
              \A k \in 1 .. Len(queue[a]) : queue[a][k].from # Child(i)
    BY <1>1, <2>2 DEF ChildTimerEnds, InTime
  <2>4. Len(Traffic(Child(i))) = 0
    BY <2>3, EmptySeq DEF Traffic, TrafficIn
  <2>5. Len(Traffic(a)) = 0
    <3>1. ASSUME NEW k \in 1 .. Len(Traffic(a)) PROVE FALSE
      <4>1. PICK j \in ChildId : Serves(j, a) /\ Traffic(a)[k].from = Child(j)
        BY <1>4, <3>1 DEF SocketInv, FromServing
      <4>2. j = i
        BY <1>0, <1>1, <4>1 DEF SocketInv, ServedOnce
      <4>3. a \in DOMAIN queue
        <5>1. CASE a \notin DOMAIN queue
          <6>1. Len(Traffic(a)) = 0
            BY <5>1, EmptySeq DEF Traffic, TrafficIn
          <6> QED
            BY <3>1, <6>1
        <5> QED
          BY <5>1
      <4> QED
        BY <2>3, <3>1, <4>1, <4>2, <4>3 DEF Traffic, TrafficIn
    <3>2. PICK x : x = Len(Traffic(a))
      OBVIOUS
    <3>3. x \in Nat /\ \A k \in 1 .. x : FALSE
      BY <1>4, <3>1, <3>2
    <3> QED
      BY <3>2, <3>3, EmptyRange
  <2>6. Conversation(s2, n, last, phase, exp, Traffic(a), Traffic(Child(i)), len)
    BY <1>4, <2>1, <2>2, <2>4, <2>5, TalkTimesOut
  <2>7. s # "DONE" /\ s2 # "UNBORN"
    BY <2>1, <2>2
  <2> QED
    BY <1>5, <1>7, <2>2, <2>6, <2>7
<1>11. ASSUME NEW k \in Arrivals(Child(i)), ChildReceives(i, k),
              s \in {"WAIT_ON_ACK", "WAIT_ON_EOF_ACK", "BLOCKED"}
       PROVE  TransferInv'
  <2> DEFINE q == safeRecvfrom(queue, Child(i), 1)
  <2>1. k = 1
    BY DEF InTime, Arrivals
  <2>2. PICK back : back = Traffic(Child(i))
    OBVIOUS
  <2>3. /\ queue[Child(i)] = back
        /\ 1 \in 1 .. Len(back) /\ Len(back) \in Nat
        /\ Taken(back, TrafficIn(q, Child(i)), 1)
        /\ \A b : b # Child(i) => TrafficIn(q, b) = Traffic(b)
    BY <1>3, <1>4, <1>11, <2>1, <2>2, ChildTakes
  <2>4. Len(back) > 0
    BY <2>3
  <2>5. /\ s = "WAIT_ON_ACK" => back[1].flag \in {"RR", "CRC_ERROR"}
        /\ s \in {"WAIT_ON_EOF_ACK", "BLOCKED"} =>
              /\ back[1].flag \in {"EOF_ACK", "CRC_ERROR"}
              /\ Finishing(c)
    BY <1>4, <2>2, <2>3, <2>4 DEF Conversation
  <2>6. CASE EofAck(i, k)
    <3>1. /\ s \in {"WAIT_ON_EOF_ACK", "BLOCKED"}
          /\ ChildExit(i, "complete successfully", q)
      BY <1>3, <1>11, <2>1, <2>6 DEF EofAck, EofAckReady, In
    <3>2. PICK m : m = "complete successfully"
      OBVIOUS
    <3>3. ChildExit(i, m, q)
      BY <3>1, <3>2
    <3> HIDE DEF q
    <3> QED
      BY <1>6, <2>3, <2>5, <3>1, <3>2, <3>3
  <2>7. ~ WaitOnAckOther(i, k) /\ ~ EofAckOther(i, k)
    BY <1>3, <2>1, <2>3, <2>5 DEF WaitOnAckOther, WaitOnAckReady, EofAckOther,
                                  EofAckReady, In
  <2>8. CASE WaitOnAckCorrupt(i, k) \/ WaitOnAckRR(i, k) \/ EofAckCorrupt(i, k)
    <3>1. PICK s2, t :
             /\ queue' = q
             /\ ChildGoto(i, s2, last, n, t)
             /\ \/ s = "WAIT_ON_ACK" /\ s2 \in {"WAIT_ON_ACK", "SEND_DATA"}
                \/ s \in {"WAIT_ON_EOF_ACK", "BLOCKED"} /\ s2 = "WAIT_ON_EOF_ACK"
      BY <1>3, <2>1, <2>8 DEF WaitOnAckCorrupt, WaitOnAckRR, EofAckCorrupt,
                      WaitOnAckReady, EofAckReady, ChildMoves, In
    <3> HIDE DEF q
    <3>2. Conversation(s2, n, last, phase, exp, Traffic(a),
                       TrafficIn(q, Child(i)), len)
      BY <1>4, <2>2, <2>3, <2>4, <3>1, TalkGoesOn
    <3>3. s # "DONE" /\ s2 # "UNBORN"
      BY <3>1
    <3> QED
      BY <1>5, <2>3, <3>1, <3>2, <3>3
  <2> QED
    BY <1>11, <2>6, <2>7, <2>8 DEF ChildReceives
<1> QED
  BY <1>3, <1>8, <1>9, <1>10, <1>11 DEF ChildStep

(* The main process of the server: a child is forked for a request, a      *)
(* request is dropped, or the process ends.                                *)
LEMMA ForkTransfer ==
    ASSUME Once, IInv, SocketInv, TransferInv, NEW i \in ChildId,
           NEW k \in Arrivals(Main), Fork(i, k), UNCHANGED rcopyVars
    PROVE  TransferInv'
<1> DEFINE q == safeRecvfrom(queue, Main, k)
<1>1. /\ queue[Main] = Traffic(Main)
      /\ k \in 1 .. Len(Traffic(Main))
      /\ \A b : b # Main => TrafficIn(q, b) = Traffic(b)
  BY MainTakes DEF Fork
<1>2. PICK a : a = Traffic(Main)[k].from
  OBVIOUS
<1>3. PICK c : c = a[1]
  OBVIOUS
<1>4. /\ queue' = q
      /\ cstate' = cstate /\ sock' = sock /\ said' = said /\ expected' = expected
      /\ child[i].state = "UNBORN"
      /\ child'[i].state = "FILENAME"
      /\ child'[i].remote = a
      /\ child'[i].seq = child[i].seq
      /\ child'[i].said = child[i].said
      /\ \A j \in ChildId \ {i} : child'[j] = child[j]
  BY <1>1, <1>2 DEF Fork, NextChild, rcopyVars, IInv, TypeOK, ChildRecord
<1> HIDE DEF q
<1>5. /\ a \in Clients \X Nat /\ c \in Clients
      /\ \A j \in ChildId : ~ Serves(j, a)
      /\ Main \notin Clients \X Nat
      /\ \A j \in ChildId : Child(j) # Main
  BY <1>1, <1>2, <1>3, Requests, Addresses DEF SocketInv, AskedOnce
<1>6. Len(Traffic(a)) = 0
  <2>1. PICK x : x = Len(Traffic(a))
    OBVIOUS
  <2>2. x \in Nat /\ \A m \in 1 .. x : FALSE
    BY <1>5, <2>1, TrafficType DEF SocketInv, FromServing, IInv
  <2> QED
    BY <2>1, <2>2, EmptyRange
<1>7. Talk(i)' /\ Verdict(i)' /\ Fresh(i)'
  <2>1. PICK phase : phase = IF a # Me(c) THEN "LEFT" ELSE ClientPhase(c)
    OBVIOUS
  <2>2. Phase(i)' = phase
    BY <1>3, <1>4, <2>1 DEF Phase, ClientOf, Me, ClientPhase, Finishing
  <2>3. Hears(phase) => phase = "FILENAME"
    <3>1. a = Me(c) => cstate[c] \notin {"FILE_OK", "RECV_DATA", "RR_SENT"}
      BY <1>5 DEF SocketInv, Answered
    <3> QED
      BY <2>1, <3>1 DEF Hears, ClientPhase
  <2>4. child[i].seq = 1
    BY <1>4 DEF TransferInv, Fresh, Born, START_SEQ_NUM
  <2>5. PICK last, to, back, exp, len :
            /\ last = child'[i].packet /\ to = TrafficIn(queue', a)
            /\ back = TrafficIn(queue', Child(i))
            /\ exp = Accepted(c) /\ len = Len(File[c])
    OBVIOUS
  <2>6. Len(to) = 0
    BY <1>1, <1>4, <1>5, <1>6, <2>5
  <2>7. Conversation("FILENAME", 1, last, phase, exp, to, back, len)
    BY <2>3, <2>6 DEF Conversation
  <2>8. Talk(i)'
    <3>1. child'[i].remote[1] = c
      BY <1>3, <1>4
    <3>2. Accepted(c)' = exp
      BY <1>4, <2>5 DEF Accepted
    <3> QED
      BY <1>4, <2>2, <2>4, <2>5, <2>7, <3>1, <3>2
         DEF Talk, Traffic, ClientOf, Child, Accepted
  <2>9. Verdict(i)' /\ Fresh(i)'
    BY <1>4 DEF TransferInv, Verdict, Fresh, Born
  <2> QED
    BY <2>8, <2>9
<1>8. ASSUME NEW j \in ChildId, j # i
      PROVE  Talk(j)' /\ Verdict(j)' /\ Fresh(j)'
  <2>1. child'[j] = child[j]
    BY <1>4, <1>8
  <2>2. Verdict(j)' /\ Fresh(j)'
    BY <1>4, <2>1 DEF TransferInv, Verdict, Fresh, Born, ClientOf,
        Finishing
  <2>3. ASSUME Born(j) PROVE Talk(j)'
    <3>1. PICK b : b = child[j].remote
      OBVIOUS
    <3>2. b \in Clients \X Nat
      BY <2>3, <3>1, Addresses
    <3>3. /\ TrafficIn(queue', b) = Traffic(b)
          /\ TrafficIn(queue', Child(j)) = Traffic(Child(j))
      BY <1>1, <1>4, <1>5, <3>2
    <3>4. Phase(j)' = Phase(j)
      BY <1>4, <2>1 DEF Phase, ClientOf, Me, ClientPhase, Finishing
    <3>5. Talk(j)
      BY DEF TransferInv
    <3> QED
      BY <1>4, <2>1, <3>1, <3>3, <3>4, <3>5
         DEF Talk, Born, ClientOf, Traffic, Child, Accepted
  <2> QED
    BY <2>1, <2>2, <2>3 DEF Talk, Born
<1>9. ASSUME NEW d \in Clients
      PROVE  NotAhead(d)' /\ Finished(d)' /\ cstate'[d] # "CRASHED"
  <2>1. Me(d)' = Me(d) /\ Me(d) # Main
    BY <1>4, Addresses DEF Me
  <2>2. TrafficIn(queue', Me(d)) = Traffic(Me(d))
    BY <1>1, <1>4, <2>1
  <2>3. NotAhead(d)'
    BY <1>4, <2>1, <2>2
       DEF TransferInv, NotAhead, Traffic, ClientPhase, Accepted, Finishing
  <2> QED
    BY <1>4, <2>3 DEF TransferInv, Finished, Finishing
<1> QED
  BY <1>7, <1>8, <1>9 DEF TransferInv

(* A step that is nobody's business: only the main port is concerned.      *)
LEMMA AsideTransfer ==
    ASSUME IInv, TransferInv, UNCHANGED rcopyVars, child' = child,
           \A b : b # Main => TrafficIn(queue', b) = Traffic(b)
    PROVE  TransferInv'
<1>1. cstate' = cstate /\ sock' = sock /\ said' = said /\ expected' = expected
  BY DEF rcopyVars
<1>2. ASSUME NEW j \in ChildId
      PROVE  Talk(j)' /\ Verdict(j)' /\ Fresh(j)'
  <2>1. child'[j] = child[j]
    OBVIOUS
  <2>2. Verdict(j)' /\ Fresh(j)'
    BY <1>1, <2>1 DEF TransferInv, Verdict, Fresh, Born, ClientOf,
        Finishing
  <2>3. ASSUME Born(j) PROVE Talk(j)'
    <3>1. PICK b : b = child[j].remote
      OBVIOUS
    <3>2. b # Main /\ Child(j) # Main
      BY <2>3, <3>1, Addresses
    <3>3. /\ TrafficIn(queue', b) = Traffic(b)
          /\ TrafficIn(queue', Child(j)) = Traffic(Child(j))
      BY <3>2
    <3>4. Phase(j)' = Phase(j)
      BY <1>1, <2>1 DEF Phase, ClientOf, Me, ClientPhase, Finishing
    <3>5. Talk(j)
      BY DEF TransferInv
    <3> QED
      BY <1>1, <2>1, <3>1, <3>3, <3>4, <3>5
         DEF Talk, Born, ClientOf, Traffic, Child, Accepted
  <2> QED
    BY <2>1, <2>2, <2>3 DEF Talk, Born
<1>3. ASSUME NEW d \in Clients
      PROVE  NotAhead(d)' /\ Finished(d)' /\ cstate'[d] # "CRASHED"
  <2>1. Me(d)' = Me(d) /\ Me(d) # Main
    BY <1>1, Addresses DEF Me
  <2>2. TrafficIn(queue', Me(d)) = Traffic(Me(d))
    BY <2>1
  <2>3. NotAhead(d)'
    BY <1>1, <2>1, <2>2
       DEF TransferInv, NotAhead, Traffic, ClientPhase, Accepted, Finishing
  <2> QED
    BY <1>1, <2>3 DEF TransferInv, Finished, Finishing
<1> QED
  BY <1>2, <1>3 DEF TransferInv

(* TransferInv is inductive, on top of the first two invariants.           *)
LEMMA NextTransferInv ==
    ASSUME InTime, IInv, SocketInv, TransferInv, [Next]_vars
    PROVE  TransferInv'
<1>1. ASSUME NEW c \in Clients, ClientStep(c), UNCHANGED serverVars
      PROVE  TransferInv'
  BY <1>1, ClientStepTransfer
<1>2. ASSUME MainStep, UNCHANGED rcopyVars
      PROVE  TransferInv'
  <2>1. PICK k \in Arrivals(Main) :
             \/ \E i \in ChildId : Fork(i, k)
             \/ ForkFails(k)
             \/ MainCorrupt(k)
    BY <1>2 DEF MainStep
  <2>2. CASE \E i \in ChildId : Fork(i, k)
    BY <1>2, <2>2, ForkTransfer DEF InTime
  <2>3. CASE ForkFails(k)
    <3>1. \A b : b # Main => TrafficIn(queue', b) = Traffic(b)
      BY <2>3, SocketTraffic DEF ForkFails, Traffic
    <3> QED
      BY <1>2, <2>3, <3>1, AsideTransfer DEF ForkFails
  <2>4. CASE MainCorrupt(k)
    <3>1. \A b : b # Main => TrafficIn(queue', b) = Traffic(b)
      BY <2>4, MainTakes DEF MainCorrupt
    <3> QED
      BY <1>2, <2>4, <3>1, AsideTransfer DEF MainCorrupt, serverVars
  <2> QED
    BY <2>1, <2>2, <2>3, <2>4
<1>3. ASSUME NEW i \in ChildId, ChildStep(i), UNCHANGED rcopyVars
      PROVE  TransferInv'
  BY <1>3, ChildSendsStep, ChildQuietStep
<1>4. CASE UNCHANGED vars
  <2>1. UNCHANGED rcopyVars /\ child' = child /\ queue' = queue
    BY <1>4 DEF vars, serverVars
  <2>2. \A b : TrafficIn(queue', b) = Traffic(b)
    BY <2>1 DEF Traffic
  <2> QED
    BY <2>1, <2>2, AsideTransfer
<1> QED
  BY <1>1, <1>2, <1>3, <1>4 DEF Next

(* The two ends of a transfer stay together, with prompt timers.           *)
THEOREM Together == ASSUME InTime PROVE Spec => []TransferInv
<1>1. Init => TransferInv
  BY InitTransferInv
<1>2. IInv /\ SocketInv /\ TransferInv /\ [Next]_vars => TransferInv'
  BY NextTransferInv
<1>3. Spec => []SocketInv
  BY Sockets DEF InTime
<1> QED
  BY <1>1, <1>2, <1>3, Invariance, PTL DEF Spec

-----------------------------------------------------------------------------
(* What follows.                                                           *)

(* With prompt timers a child never gets a packet that it does not expect: *)
(* "this should never happen" (server.c:222, 250) is never printed.        *)
THEOREM Expected == ASSUME InTime PROVE Spec => []NeverHappens
<1>1. TransferInv => NeverHappens
  BY DEF TransferInv, Verdict, NeverHappens
<1> QED
  BY <1>1, Together, PTL

(* With prompt timers a child is never more than one block ahead of what   *)
(* its client has written or is about to write (server.c:171-227,          *)
(* rcopy.c:215-220).                                                       *)
THEOREM OneAhead == ASSUME InTime PROVE Spec => []StopAndWait
<1>1. IInv /\ TransferInv => StopAndWait
  <2> SUFFICES ASSUME IInv, TransferInv, NEW c \in Clients, NEW i \in ChildId,
                      cstate[c] \in {"RECV_DATA", "RR_SENT"}, Awaits(c, i)
               PROVE  child[i].seq - 1 <= Len(Has[c]) + 1
    BY DEF StopAndWait
  <2>1. Serves(i, Me(c))
    BY DEF Awaits, Serves, Born
  <2>2. PICK s, n, p, exp, to, back, len :
            /\ s = child[i].state /\ n = child[i].seq /\ p = child[i].packet
            /\ exp = Accepted(c) /\ to = Traffic(Me(c))
            /\ back = Traffic(Child(i)) /\ len = Len(File[c])
    OBVIOUS
  <2>3. ClientPhase(c) = "RECV_DATA"
    BY DEF TransferInv, Finished, Finishing, ClientPhase
  <2>4. Conversation(s, n, p, "RECV_DATA", exp, to, back, len)
    BY <2>1, <2>2, <2>3, PhaseTalk
  <2>5. exp = Len(Has[c]) + 1 /\ exp \in Nat
    <3>1. expected[c] = Len(output[c]) + 1 /\ Len(output[c]) \in Nat
      BY HasType DEF IInv, ClientOK
    <3>2. CASE cstate[c] = "RR_SENT"
      BY <2>2, <3>1, <3>2, HasType DEF Accepted
    <3>3. CASE cstate[c] = "RECV_DATA"
      BY <2>2, <3>1, <3>3, HasType DEF Accepted
    <3> QED
      BY <3>2, <3>3
  <2>6. s \in ChildState \ {"UNBORN", "DONE"} /\ n \in Nat
    BY <2>2 DEF IInv, TypeOK, ChildRecord, Awaits
  <2>7. exp \in {n - 1, n}
    BY <2>4, <2>5, <2>6 DEF Conversation, Hears, ChildState
  <2>8. n - 1 <= exp
    BY <2>6, <2>7
  <2> QED
    BY <2>2, <2>5, <2>8
<1> QED
  BY <1>1, Together, Invariance, PTL

(* A prefix as long as the whole is the whole.                             *)
LEMMA WholePrefix ==
    ASSUME NEW S, NEW s \in Seq(S), NEW t \in Seq(S), IsPrefix(s, t),
           Len(s) = Len(t)
    PROVE  s = t
<1>1. SubSeq(s, 1, Len(s)) = SubSeq(t, 1, Len(s))
  BY DEF IsPrefix
<1>2. SubSeq(s, 1, Len(s)) = s /\ SubSeq(t, 1, Len(t)) = t
  BY SubSeqFull
<1> QED
  BY <1>1, <1>2

(* A client that has answered the end of the file has the whole file.      *)
LEMMA DoneIsComplete ==
    ASSUME IInv, TransferInv, NEW c \in Clients,
           Finishing(c)
    PROVE  output[c] = File[c]
<1>1. expected[c] = Len(File[c]) + 1
  BY DEF TransferInv, Finished
<1>2. /\ expected[c] = Len(output[c]) + 1
      /\ IsPrefix(output[c], File[c])
      /\ output[c] \in Seq(Block) /\ File[c] \in Seq(Block)
      /\ Len(output[c]) \in Nat /\ Len(File[c]) \in Nat
  BY FileAssumption, LenProperties DEF IInv, ClientOK, TypeOK
<1>3. Len(output[c]) = Len(File[c])
  BY <1>1, <1>2
<1> QED
  BY <1>2, <1>3, WholePrefix

(* With prompt timers the server prints "File tranfer complete             *)
(* successfully." (server.c:255) only when the client has the whole file.  *)
THEOREM Complete == ASSUME InTime PROVE Spec => []SuccessIsComplete
<1>1. IInv /\ TransferInv => SuccessIsComplete
  <2> SUFFICES ASSUME IInv, TransferInv, NEW i \in ChildId,
                      child[i].said = "complete successfully"
               PROVE  output[ClientOf(i)] = File[ClientOf(i)]
    BY DEF SuccessIsComplete, ClientOf
  <2>1. Born(i) /\ Finishing(ClientOf(i))
    BY DEF TransferInv, Verdict, Born
  <2> QED
    BY <2>1, DoneIsComplete, Addresses
<1> QED
  BY <1>1, Together, Invariance, PTL

(* With prompt timers no client is ended by the division by a window of no *)
(* slots (windows.c:52): none ever gets a block ahead of the one expected. *)
THEOREM NoCrash ==
    ASSUME InTime PROVE Spec => [](\A c \in Clients : cstate[c] # "CRASHED")
<1>1. TransferInv => \A c \in Clients : cstate[c] # "CRASHED"
  BY DEF TransferInv
<1> QED
  BY <1>1, Together, PTL

-----------------------------------------------------------------------------
(* The refinement of FileCopy.                                             *)

(* The clients that reported the end of the file.                          *)
Done == {c \in Clients : said[c] = "File done"}

(* The clients whose transfer the server reported complete.                *)
Succeeded(i) == child[i].said = "complete successfully"

Reported == {child[i].remote[1] : i \in {j \in ChildId : Succeeded(j)}}

(* FileCopy under the mapping, in the variables of the protocol.           *)
LEMMA CopyMapping ==
    /\ Transfer!Init <=> /\ output = [c \in Clients |-> <<>>]
                         /\ Done = {}
                         /\ Reported = {}
    /\ [Transfer!Next]_Transfer!vars <=>
         \/ \E c \in Clients :
              \/ /\ c \notin Done
                 /\ Len(output[c]) < Len(File[c])
                 /\ output' = [output EXCEPT ![c] =
                                   Append(@, File[c][Len(@) + 1])]
                 /\ UNCHANGED <<Done, Reported>>
              \/ /\ output[c] = File[c]
                 /\ Done' = Done \cup {c}
                 /\ UNCHANGED <<output, Reported>>
              \/ /\ output[c] = File[c]
                 /\ Reported' = Reported \cup {c}
                 /\ UNCHANGED <<output, Done>>
         \/ UNCHANGED <<output, Done, Reported>>
  BY DEF Transfer!Init, Transfer!Next, Transfer!Write, Transfer!Finish,
         Transfer!Report, Transfer!vars, Done, Reported, Succeeded

(* The initial states are mapped to the initial state of FileCopy.         *)
LEMMA InitCopy == Init => Transfer!Init
<1> SUFFICES ASSUME Init PROVE Transfer!Init
  OBVIOUS
<1>1. output = [c \in Clients |-> <<>>]
  BY DEF Init, RcopyInit
<1>2. Done = {}
  BY DEF Init, RcopyInit, Done
<1>3. Reported = {}
  BY DEF Init, ServerInit, Unborn, Reported, Succeeded
<1> QED
  BY <1>1, <1>2, <1>3, CopyMapping

(* A step after which the same files are there and the same ends were      *)
(* reported is a stutter.                                                  *)
LEMMA CopyStutters ==
    ASSUME output' = output,
           \A c \in Clients : said'[c] = "File done" <=> said[c] = "File done",
           \A i \in ChildId :
               /\ Succeeded(i)' <=> Succeeded(i)
               /\ Succeeded(i) => child'[i].remote = child[i].remote
    PROVE  [Transfer!Next]_Transfer!vars
<1>1. Done' = Done
  BY DEF Done
<1>2. Reported' = Reported
  BY DEF Reported
<1> QED
  BY <1>1, <1>2, CopyMapping

(* A step of a client that leaves its file alone and does not report its   *)
(* end.                                                                    *)
LEMMA CopyNotTouched ==
    ASSUME IInv, TransferInv, NEW c \in Clients, cstate[c] # "DONE",
           cstate[c] # "EOF_ACK_SENT", UNCHANGED serverVars, output' = output,
           \/ said' = said
           \/ \E m : m # "File done" /\ said' = [said EXCEPT ![c] = m]
    PROVE  [Transfer!Next]_Transfer!vars
<1>1. said \in [Clients -> ClientMessage] /\ said[c] # "File done"
  BY DEF IInv, TypeOK, TransferInv, Finished, Finishing
<1>2. \A d \in Clients : said'[d] = "File done" <=> said[d] = "File done"
  BY <1>1
<1>3. \A i \in ChildId : child'[i] = child[i]
  BY DEF serverVars
<1> QED
  BY <1>2, <1>3, CopyStutters DEF Succeeded

(* Every step of a client: WriteBlock writes the next block, FileDone      *)
(* reports the end, and the others are stutters.                           *)
LEMMA ClientCopies ==
    ASSUME InTime, IInv, SocketInv, TransferInv, TransferInv', NEW c \in Clients,
           ClientStep(c), UNCHANGED serverVars
    PROVE  [Transfer!Next]_Transfer!vars
<1>0. /\ output \in [Clients -> Seq(Block)]
      /\ expected[c] = Len(output[c]) + 1
      /\ Reported' = Reported
  BY DEF IInv, TypeOK, ClientOK, serverVars, Reported, Succeeded
<1>1. CASE \E o \in Outcome : StartState(c, o)
  <2>1. cstate[c] \notin {"DONE", "EOF_ACK_SENT"} /\ output' = output /\ said' = said
    BY <1>1 DEF StartState
  <2> QED
    BY <2>1, CopyNotTouched
<1>2. CASE \/ StartStateNoHost(c) \/ FilenameGiveUp(c)
           \/ FileOkFails(c) \/ RecvDataTimeout(c)
           \/ StartStateSendFails(c)
  <2>1. /\ cstate[c] \notin {"DONE", "EOF_ACK_SENT"} /\ output' = output
        /\ \E m \in {"no host", "no response", "open failed", "server gone",
                     "sendto failed"} :
               Exit(c, m, queue)
    BY <1>2 DEF StartStateNoHost, FilenameGiveUp, FileOkFails, RecvDataTimeout,
                StartStateSendFails
  <2>2. \E m : m # "File done" /\ said' = [said EXCEPT ![c] = m]
    BY <2>1 DEF Exit
  <2> QED
    BY <2>1, <2>2, CopyNotTouched
<1>3. CASE FilenameTimeout(c)
  <2>1. cstate[c] \notin {"DONE", "EOF_ACK_SENT"} /\ output' = output /\ said' = said
    BY <1>3 DEF FilenameTimeout
  <2> QED
    BY <2>1, CopyNotTouched
<1>4. CASE FileOk(c)
  <2>1. cstate[c] = "FILE_OK" /\ output' = [output EXCEPT ![c] = <<>>] /\ said' = said
    BY <1>4 DEF FileOk
  <2>2. output[c] = <<>>
    BY <2>1 DEF IInv, ClientOK
  <2>3. output' = output
    BY <1>0, <2>1, <2>2
  <2> QED
    BY <2>1, <2>3, CopyNotTouched
<1>5. ASSUME cstate[c] \in {"FILENAME", "RECV_DATA"}, NEW k \in Arrivals(Me(c)),
             ClientReceives(c, k)
      PROVE  [Transfer!Next]_Transfer!vars
  <2>1. CASE FilenameCorrupt(c, k) \/ FilenameOk(c, k) \/ RecvDataCorrupt(c, k)
    <3>1. output' = output /\ said' = said
      BY <2>1 DEF FilenameCorrupt, FilenameOk, FilenameReady, RecvDataCorrupt,
                  rcopyVars
    <3> QED
      BY <1>5, <3>1, CopyNotTouched
  <2>2. CASE FilenameBad(c, k) \/ RecvDataSendFails(c, k)
    <3>1. /\ output' = output
          /\ \E m \in {"not found", "sendto failed"} :
                 said' = [said EXCEPT ![c] = m]
      BY <2>2 DEF FilenameBad, FilenameReady, RecvDataSendFails, Exit
    <3>2. \E m : m # "File done" /\ said' = [said EXCEPT ![c] = m]
      BY <3>1
    <3> QED
      BY <1>5, <3>1, <3>2, CopyNotTouched
  <2>3. ASSUME NEW o \in Outcome, RecvData(c, k, o)
        PROVE  [Transfer!Next]_Transfer!vars
    <3>1. output' = output /\ said' = said
      BY <2>3 DEF RecvData, RecvEndOfFile, RecvOld, RecvExpected, RecvAhead,
                  NotEndOfFile
    <3> QED
      BY <1>5, <3>1, CopyNotTouched
  <2> QED
    BY <1>5, <2>1, <2>2, <2>3 DEF ClientReceives
<1>6. CASE WriteBlock(c)
  <2>1. /\ cstate[c] = "RR_SENT" /\ said' = said
        /\ output' = [output EXCEPT ![c] = Append(@, data_buf[c])]
    BY <1>6 DEF WriteBlock
  <2>2. expected[c] \in DOMAIN File[c] /\ data_buf[c] = File[c][expected[c]]
    BY <2>1 DEF IInv, ClientOK
  <2>3. /\ Len(output[c]) \in Nat /\ Len(File[c]) \in Nat
        /\ DOMAIN File[c] = 1 .. Len(File[c])
    BY <1>0, FileAssumption, LenProperties
  <2>4. /\ Len(output[c]) < Len(File[c])
        /\ output' = [output EXCEPT ![c] = Append(@, File[c][Len(@) + 1])]
    BY <1>0, <2>1, <2>2, <2>3
  <2>5. c \notin Done
    BY <2>1 DEF Done, TransferInv, Finished, Finishing
  <2>6. Done' = Done
    BY <2>1 DEF Done
  <2> QED
    BY <1>0, <2>4, <2>5, <2>6, CopyMapping
<1>7. CASE FileDone(c)
  <2>1. /\ cstate[c] = "EOF_ACK_SENT" /\ output' = output
        /\ said' = [said EXCEPT ![c] = "File done"]
    BY <1>7 DEF FileDone, Exit
  <2>2. output[c] = File[c]
    BY <2>1, DoneIsComplete DEF Finishing
  <2>3. said \in [Clients -> ClientMessage]
    BY DEF IInv, TypeOK
  <2>4. Done' = Done \cup {c}
    BY <2>1, <2>3 DEF Done
  <2> QED
    BY <1>0, <2>1, <2>2, <2>4, CopyMapping
<1> QED
  BY <1>1, <1>2, <1>3, <1>4, <1>5, <1>6, <1>7 DEF ClientStep

(* Every step of a child: one that reports success, when its client has    *)
(* the whole file, is a step of the abstract server, the others stutter.   *)
LEMMA ChildCopies ==
    ASSUME IInv, TransferInv, TransferInv', NEW i \in ChildId,
           ChildStep(i), UNCHANGED rcopyVars
    PROVE  [Transfer!Next]_Transfer!vars
<1>1. child[i].state \notin {"UNBORN", "DONE"}
  BY DEF ChildStep, ChildSends, ChildSendFails, ChildReceives, FilenameOpens, FilenameFails,
         SendBlock, SendEndOfFile, TimeoutOnAck, TimeoutOnEofAck,
         SendDataReadError, WaitOnAckGiveUp, WaitOnEofAckGiveUp,
         WaitOnAckTimeout, WaitOnEofAckTimeout, In
<1>2. \/ \E s, p, n, r : ChildGoto(i, s, p, n, r)
      \/ \E m, q : ChildExit(i, m, q)
  BY DEF ChildStep, ChildSends, ChildSendFails, ChildReceives, FilenameOpens, FilenameFails,
         SendBlock, SendEndOfFile, SendPacket, TimeoutOnAck, TimeoutOnEofAck,
         SendDataReadError, WaitOnAckGiveUp, WaitOnEofAckGiveUp,
         WaitOnAckTimeout, WaitOnEofAckTimeout, WaitOnAckCorrupt, WaitOnAckRR,
         WaitOnAckOther, EofAckCorrupt, EofAck, EofAckOther, ChildMoves
<1>3. /\ child'[i].remote = child[i].remote
      /\ \A j \in ChildId \ {i} : child'[j] = child[j]
  <2>1. ASSUME NEW s, NEW p, NEW n, NEW r, ChildGoto(i, s, p, n, r)
        PROVE  /\ child'[i].remote = child[i].remote
               /\ \A j \in ChildId \ {i} : child'[j] = child[j]
    BY <2>1, GotoEffect
  <2>2. ASSUME NEW m, NEW q, ChildExit(i, m, q)
        PROVE  /\ child'[i].remote = child[i].remote
               /\ \A j \in ChildId \ {i} : child'[j] = child[j]
    BY <2>2, ExitEffect
  <2> QED
    BY <1>2, <2>1, <2>2
<1>4. /\ ~ Succeeded(i)
      /\ \A j \in ChildId \ {i} : Succeeded(j)' <=> Succeeded(j)
  BY <1>1, <1>3 DEF TransferInv, Verdict, Succeeded
<1>5. UNCHANGED <<output, said, Done>>
  BY DEF rcopyVars, Done
<1>6. CASE Succeeded(i)'
  <2>1. Finishing(ClientOf(i))
    <3>1. Verdict(i)'
      BY DEF TransferInv
    <3>2. cstate' = cstate
      BY DEF rcopyVars
    <3> QED
      BY <1>3, <1>5, <1>6, <3>1, <3>2 DEF Verdict, Finishing, Succeeded, ClientOf
  <2>2. ClientOf(i) \in Clients
    BY <1>1, Addresses DEF Born
  <2>3. output[ClientOf(i)] = File[ClientOf(i)]
    BY <2>1, <2>2, DoneIsComplete
  <2>4. Reported' = Reported \cup {ClientOf(i)}
    BY <1>3, <1>4, <1>6 DEF Reported, ClientOf
  <2> QED
    BY <1>5, <2>2, <2>3, <2>4, CopyMapping
<1>7. CASE ~ Succeeded(i)'
  BY <1>3, <1>4, <1>5, <1>7, CopyStutters
<1> QED
  BY <1>6, <1>7

(* Every step of the main process is a stutter.                            *)
LEMMA MainCopies ==
    ASSUME IInv, TransferInv, MainStep, UNCHANGED rcopyVars
    PROVE  [Transfer!Next]_Transfer!vars
<1>1. ASSUME NEW i \in ChildId, NEW k, Fork(i, k)
      PROVE  \A j \in ChildId :
                 /\ Succeeded(j)' <=> Succeeded(j)
                 /\ Succeeded(j) => child'[j].remote = child[j].remote
  <2>1. /\ child[i].state = "UNBORN"
        /\ child'[i].said = child[i].said
        /\ \A j \in ChildId \ {i} : child'[j] = child[j]
    BY <1>1 DEF Fork, NextChild, IInv, TypeOK, ChildRecord
  <2>2. ~ Succeeded(i)
    BY <2>1 DEF TransferInv, Verdict, Succeeded
  <2> QED
    BY <2>1, <2>2 DEF Succeeded
<1>2. ASSUME child' = child
      PROVE  \A j \in ChildId :
                 /\ Succeeded(j)' <=> Succeeded(j)
                 /\ Succeeded(j) => child'[j].remote = child[j].remote
  BY <1>2 DEF Succeeded
<1>3. \A j \in ChildId :
          /\ Succeeded(j)' <=> Succeeded(j)
          /\ Succeeded(j) => child'[j].remote = child[j].remote
  BY <1>1, <1>2 DEF MainStep, ForkFails, MainCorrupt, serverVars
<1> QED
  BY <1>3, CopyStutters DEF rcopyVars

(* With prompt timers the protocol implements a file transfer: an output   *)
(* file grows block by block into the file that was asked for, and neither *)
(* "File done" (rcopy.c:201) nor the server's success (server.c:255) is    *)
(* printed before it is all there.                                         *)
THEOREM Implements == ASSUME InTime PROVE Spec => IsFileCopy
<1>1. Init => Transfer!Init
  BY InitCopy
<1>2. IInv /\ SocketInv /\ TransferInv /\ TransferInv' /\ [Next]_vars =>
          [Transfer!Next]_Transfer!vars
  <2> SUFFICES ASSUME IInv, SocketInv, TransferInv, TransferInv', [Next]_vars
               PROVE  [Transfer!Next]_Transfer!vars
    OBVIOUS
  <2>1. CASE UNCHANGED vars
    BY <2>1, CopyStutters DEF vars, rcopyVars, serverVars, Succeeded
  <2> QED
    BY <2>1, ClientCopies, ChildCopies, MainCopies DEF Next
<1>3. Spec => []SocketInv
  BY Sockets DEF InTime
<1> QED
  BY <1>1, <1>2, <1>3, Invariance, Together, PTL DEF Spec, IsFileCopy, Transfer!Spec
=============================================================================
