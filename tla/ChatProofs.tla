----------------------------- MODULE ChatProofs -----------------------------
(***************************************************************************)
(* Chat, for any number of clients, names, descriptors and PDUs on a       *)
(* connection: the list of the server names open sockets of different      *)
(* clients with different names, the first answer of a client is that to   *)
(* its name, a client that was refused stays out, and, as long as nobody   *)
(* leaves, everybody hears what ChatRoom says: once, in order, and only    *)
(* from members.                                                           *)
(***************************************************************************)
EXTENDS Chat, NumberLemmas, SequenceTheorems

(* The PDU with which c registers.                                         *)
Hello(c) == HandlePDU("HELLO", name[c])

(* What clients send.                                                      *)
Asked == {"HELLO", "BROADCAST", "MESSAGE", "EXIT", "LIST"}

Unlisted(c) == \A i \in DOMAIN list : fds[list[i].data] # c

NotSentTo(c) == \A i \in DOMAIN outbox : fds[outbox[i].socket] # c

(* A connection is in the backlog or behind one descriptor, not both.      *)
Connected ==
    /\ fds[ServerSocket] = NoClient
    /\ \A s, t \in FD : fds[s] = fds[t] /\ fds[s] # NoClient => s = t
    /\ \A i, j \in DOMAIN backlog : backlog[i] = backlog[j] => i = j
    /\ \A i \in DOMAIN backlog : \A s \in FD : fds[s] # backlog[i]

(* What the server is about to do concerns open sockets, and it closes     *)
(* none that is in the list.                                               *)
OutboxIsOpen ==
    \A i \in DOMAIN outbox :
        /\ fds[outbox[i].socket] # NoClient
        /\ outbox[i].op = "close" =>
              /\ i = Len(outbox)
              /\ \A j \in DOMAIN list : list[j].data # outbox[i].socket

(* A client that has not started is not known to the server.               *)
Starts(c) ==
    cstate[c] = "START" =>
        /\ \A s \in FD : fds[s] # c
        /\ \A i \in DOMAIN backlog : backlog[i] # c
        /\ up[c] = <<>> /\ down[c] = <<>> /\ cout[c] = <<>>

(* A name is sent once, before anything else, by a client that is not in   *)
(* the list.                                                               *)
Registers(c) ==
    /\ \A i \in DOMAIN cout[c] : cout[c][i].flag \in Asked
    /\ \A i \in DOMAIN up[c] : up[c][i].flag \in Asked
    /\ (\E i \in DOMAIN cout[c] : cout[c][i].flag = "HELLO") =>
          /\ cout[c] = <<Hello(c)>>
          /\ cstate[c] = "CONF"
          /\ up[c] = <<>> /\ down[c] = <<>>
          /\ Unlisted(c)
    /\ (\E i \in DOMAIN up[c] : up[c][i].flag = "HELLO") =>
          /\ up[c] = <<Hello(c)>>
          /\ cstate[c] \notin {"POLL", "LIST", "DEAF", "in use"}
          /\ cout[c] = <<>>
          /\ Unlisted(c)

(* A client that waits for the answer to its name: it has it, is still to  *)
(* be asked for the name, or the answer is what the server sends next.     *)
Answered(c) ==
    /\ up[c] = <<>> /\ cout[c] = <<>>
    /\ Head(down[c]).flag \in {"OK", "IN_USE"}
    /\ Head(down[c]).flag = "IN_USE" => Unlisted(c)

Fresh(c) ==
    /\ \/ cout[c] = <<Hello(c)>> /\ up[c] = <<>>
       \/ cout[c] = <<>> /\ up[c] = <<Hello(c)>>
    /\ Unlisted(c)
    /\ NotSentTo(c)

Served(c) ==
    /\ up[c] = <<>> /\ cout[c] = <<>>
    /\ \E s \in FD :
          /\ fds[s] = c
          /\ \/ outbox = <<Send(s, Command("OK"))>>
             \/ outbox = <<Send(s, Command("IN_USE")), Close(s)>> /\ Unlisted(c)

Waits(c) ==
    cstate[c] = "CONF" =>
        /\ down[c] # <<>> => Answered(c)
        /\ server = "RUNNING" /\ down[c] = <<>> =>
              link[c] = "up" /\ (Fresh(c) \/ Served(c))

(* A client that was refused has said all it had to say.                   *)
Refused(c) ==
    /\ cstate[c] \in {"START", "CONF", "in use"} => screen[c] = <<>>
    /\ cstate[c] = "in use" => up[c] = <<>> /\ cout[c] = <<>> /\ Unlisted(c)

ClientInv(c) == Starts(c) /\ Registers(c) /\ Waits(c) /\ Refused(c)

ServerInv == Connected /\ HandlesDiffer /\ NodesAreOpen /\ OutboxIsOpen

IInv ==
    /\ TypeOK
    /\ ServerInv
    /\ \A c \in Clients : ClientInv(c)

-----------------------------------------------------------------------------
(* The empty sequence.                                                     *)
LEMMA Nil == DOMAIN <<>> = {} /\ \A S : <<>> \in Seq(S)
  BY SMT

-----------------------------------------------------------------------------
(* The operators of the server on its list.                                *)

(* getClientHandle finds a client of that handle, or there is none.        *)
LEMMA Found ==
    ASSUME list \in Seq(Node(FD, Handle)), NEW h
    PROVE  LET i == getClientHandle(list, h)
           IN  /\ i = NULL => \A j \in DOMAIN list : list[j].handle # h
               /\ i # NULL => i \in DOMAIN list /\ list[i].handle = h
<1> DEFINE I == {i \in 1 .. Len(list) : list[i].handle = h}
           i == getClientHandle(list, h)
<1>1. i = IF I # {} THEN Min(I) ELSE 0
  BY DEF getClientHandle, SelectInSeq
<1>2. DOMAIN list = 1 .. Len(list) /\ Len(list) \in Nat
  BY SMT
<1>3. I \in SUBSET Nat
  BY SMT, <1>2
<1>4. CASE I = {}
  <2>1. i = NULL
    BY <1>1, <1>4 DEF NULL
  <2> QED BY <1>2, <1>4, <2>1
<1>5. CASE I # {}
  <2>1. i \in I
    BY <1>1, <1>3, <1>5, Least
  <2>2. i # NULL
    BY SMT, <1>2, <2>1 DEF NULL
  <2> QED BY <1>2, <2>1, <2>2
<1> QED BY <1>4, <1>5

(* getClientSocket finds a client on that socket, or there is none.        *)
LEMMA FoundSocket ==
    ASSUME list \in Seq(Node(FD, Handle)), NEW s
    PROVE  LET i == getClientSocket(list, s)
           IN  /\ i = NULL => \A j \in DOMAIN list : list[j].data # s
               /\ i # NULL => i \in DOMAIN list /\ list[i].data = s
<1> DEFINE I == {i \in 1 .. Len(list) : list[i].data = s}
           i == getClientSocket(list, s)
<1>1. i = IF I # {} THEN Min(I) ELSE 0
  BY DEF getClientSocket, SelectInSeq
<1>2. DOMAIN list = 1 .. Len(list) /\ Len(list) \in Nat
  BY SMT
<1>3. I \in SUBSET Nat
  BY SMT, <1>2
<1>4. CASE I = {}
  <2>1. i = NULL
    BY <1>1, <1>4 DEF NULL
  <2> QED BY <1>2, <1>4, <2>1
<1>5. CASE I # {}
  <2>1. i \in I
    BY <1>1, <1>3, <1>5, Least
  <2>2. i # NULL
    BY SMT, <1>2, <2>1 DEF NULL
  <2> QED BY <1>2, <2>1, <2>2
<1> QED BY <1>4, <1>5

(* F[i]: what is sent for the first i nodes.                               *)
Copies(F, p, n) ==
    F = [i \in 0 .. n |->
            IF i = 0 THEN <<>>
            ELSE IF list[i].handle = p.handle THEN F[i - 1]
            ELSE Append(F[i - 1], Send(list[i].data, p))]

(* The list is told one node after the other.                              *)
LEMMA Broadcasts ==
    ASSUME list \in Seq(Node(FD, Handle)), NEW p
    PROVE  \E F : Copies(F, p, Len(list)) /\ recAndSendBroadCast(p) = F[Len(list)]
<1> DEFINE next(F, i) == IF i = 0 THEN <<>>
                         ELSE IF list[i].handle = p.handle THEN F[i - 1]
                         ELSE Append(F[i - 1], Send(list[i].data, p))
           Fits(F, n) == F = [i \in 0 .. n |-> next(F, i)]
           N == Len(list)
<1>1. N \in Nat /\ DOMAIN list = 1 .. N
  BY SMT
<1>2. \E F : Fits(F, N)
  <2> DEFINE S == {n \in 0 .. N : \E F : Fits(F, n)}
  <2>1. 0 \in S
    <3> DEFINE F == [i \in 0 .. 0 |-> <<>>]
    <3>1. 0 .. 0 = {0} /\ 0 \in 0 .. N
      BY SMT, <1>1
    <3>2. Fits(F, 0)
      BY <3>1
    <3> QED BY <3>1, <3>2
  <2>2. ASSUME NEW n \in 0 .. N - 1, n \in S
        PROVE  n + 1 \in S
    <3>1. PICK F : Fits(F, n)
      BY <2>2
    <3> DEFINE G == [i \in 0 .. n + 1 |-> IF i = n + 1 THEN next(F, i) ELSE F[i]]
    <3>2. /\ n + 1 \in 0 .. N /\ n \in Nat /\ (n + 1) - 1 = n /\ n \in 0 .. n /\ n + 1 # n
          /\ \A i \in 0 .. n : i \in 0 .. n + 1 /\ i # n + 1
          /\ \A i \in 0 .. n + 1 : i # n + 1 => i \in 0 .. n
          /\ \A i \in 0 .. n : i # 0 => i - 1 \in 0 .. n
          /\ n + 1 # 0
      BY SMT, <1>1
    <3>3. \A i \in 0 .. n : G[i] = F[i]
      BY <3>2
    <3>4. \A i \in 0 .. n + 1 : G[i] = next(G, i)
      <4> SUFFICES ASSUME NEW i \in 0 .. n + 1 PROVE G[i] = next(G, i)
        OBVIOUS
      <4>1. CASE i = n + 1
        <5>1. G[i] = next(F, i) /\ G[i - 1] = F[i - 1]
          BY <3>2, <3>3, <4>1
        <5> HIDE DEF G
        <5> QED BY <5>1
      <4>2. CASE i # n + 1
        <5>1. i \in 0 .. n /\ G[i] = F[i] /\ F[i] = next(F, i)
          BY <3>1, <3>2, <3>3, <4>2
        <5>2. i # 0 => G[i - 1] = F[i - 1]
          BY <3>2, <3>3, <5>1
        <5> HIDE DEF G
        <5> QED BY <5>1, <5>2
      <4> QED BY <4>1, <4>2
    <3>5. Fits(G, n + 1)
      <4> HIDE DEF next
      <4>1. G = [i \in 0 .. n + 1 |-> G[i]]
        OBVIOUS
      <4> HIDE DEF G
      <4> QED BY <3>4, <4>1
    <3> HIDE DEF G, Fits
    <3> QED BY <3>2, <3>5
  <2> HIDE DEF Fits
  <2>3. S = 0 .. N
    <3>1. S \in SUBSET (0 .. N)
      OBVIOUS
    <3> HIDE DEF S
    <3> QED BY <1>1, <2>1, <2>2, <3>1, UpTo
  <2>4. N \in 0 .. N
    BY SMT, <1>1
  <2> QED BY <2>3, <2>4
<1> DEFINE sends == CHOOSE F : Fits(F, N)
<1>3. Fits(sends, N)
  <2> HIDE DEF Fits
  <2> QED BY <1>2
<1>4. recAndSendBroadCast(p) = sends[N]
  BY DEF recAndSendBroadCast
<1> HIDE DEF sends
<1> QED BY <1>3, <1>4 DEF Copies

(* A broadcast is sent to sockets of the list only.                        *)
LEMMA BroadcastToListed ==
    ASSUME list \in Seq(Node(FD, Handle)), NEW p
    PROVE  recAndSendBroadCast(p) \in Seq({Send(list[i].data, p) : i \in DOMAIN list})
<1> DEFINE T == {Send(list[i].data, p) : i \in DOMAIN list}
           N == Len(list)
<1>1. N \in Nat /\ DOMAIN list = 1 .. N
  BY SMT
<1>2. PICK sends : Copies(sends, p, N) /\ recAndSendBroadCast(p) = sends[N]
  BY Broadcasts
<1>3. sends = [i \in 0 .. N |->
                 IF i = 0 THEN <<>>
                 ELSE IF list[i].handle = p.handle THEN sends[i - 1]
                 ELSE Append(sends[i - 1], Send(list[i].data, p))]
  BY <1>2 DEF Copies
<1>4. recAndSendBroadCast(p) = sends[N]
  BY <1>2
<1>5. \A i \in 0 .. N : sends[i] \in Seq(T)
  <2> DEFINE S == {i \in 0 .. N : sends[i] \in Seq(T)}
  <2>1. 0 \in S
    <3>1. 0 \in 0 .. N /\ <<>> \in Seq(T)
      BY SMT, <1>1
    <3>2. sends[0] = <<>>
      BY <1>3, <3>1
    <3> QED BY <3>1, <3>2
  <2>2. ASSUME NEW n \in 0 .. N - 1, n \in S
        PROVE  n + 1 \in S
    <3>1. n + 1 \in 1 .. N /\ n + 1 \in 0 .. N /\ n + 1 # 0 /\ (n + 1) - 1 = n
      BY SMT, <1>1
    <3> DEFINE a == Send(list[n + 1].data, p)
    <3>2. a \in T
      BY <1>1, <3>1
    <3>3. sends[n + 1] \in {sends[n], Append(sends[n], a)}
      BY <1>3, <3>1
    <3>4. sends[n] \in Seq(T)
      BY <2>2
    <3>5. Append(sends[n], a) \in Seq(T)
      <4> HIDE DEF a, T
      <4> QED BY <3>2, <3>4, AppendProperties
    <3> QED BY <3>1, <3>3, <3>4, <3>5
  <2>3. S = 0 .. N
    <3>1. S \in SUBSET (0 .. N)
      OBVIOUS
    <3> HIDE DEF S
    <3> QED BY <1>1, <2>1, <2>2, <3>1, UpTo
  <2> QED BY <2>3
<1>6. N \in 0 .. N
  BY SMT, <1>1
<1> QED BY <1>4, <1>5, <1>6

(* What is left of the list when the node of a socket goes.                *)
LEMMA Removed ==
    ASSUME list \in Seq(Node(FD, Handle)), NEW s
    PROVE  LET rest == removeList(list, s)
           IN  /\ rest \in Seq(Node(FD, Handle))
               /\ \E f \in [DOMAIN rest -> DOMAIN list] :
                     /\ \A k \in DOMAIN rest : rest[k] = list[f[k]]
                     /\ \A k, l \in DOMAIN rest : f[k] = f[l] => k = l
                     /\ \A k \in DOMAIN rest : f[k] # getClientSocket(list, s)
<1> DEFINE N == Len(list)
           i == getClientSocket(list, s)
           rest == removeList(list, s)
           S == Node(FD, Handle)
<1>1. N \in Nat /\ DOMAIN list = 1 .. N
  BY LenProperties
<1>2. CASE i = NULL
  <2>1. rest = list
    BY <1>2 DEF removeList
  <2>2. \A k \in DOMAIN list : k # i
    BY SMT, <1>1, <1>2 DEF NULL
  <2> DEFINE f == [k \in DOMAIN list |-> k]
  <2>3. f \in [DOMAIN list -> DOMAIN list]
    OBVIOUS
  <2> HIDE DEF i, rest
  <2>4. \E g \in [DOMAIN rest -> DOMAIN list] :
           /\ \A k \in DOMAIN rest : rest[k] = list[g[k]]
           /\ \A k, l \in DOMAIN rest : g[k] = g[l] => k = l
           /\ \A k \in DOMAIN rest : g[k] # i
    BY <2>1, <2>2, <2>3
  <2> QED BY <2>1, <2>4 DEF i, rest
<1>3. CASE i # NULL
  <2>1. i \in 1 .. N
    BY <1>1, <1>3, FoundSocket
  <2> DEFINE front == SubSeq(list, 1, i - 1)
             back == SubSeq(list, i + 1, N)
  <2>2. rest = front \o back
    BY <1>3 DEF removeList, RemoveAt
  <2> HIDE DEF i, rest, S
  <2>3. /\ front \in Seq(S) /\ Len(front) = i - 1
        /\ \A k \in 1 .. i - 1 : front[k] = list[k]
        /\ back \in Seq(S) /\ Len(back) = N - i
        /\ \A k \in 1 .. N - i : back[k] = list[i + k]
    <3>1. list \in Seq(S)
      BY DEF S
    <3>2. /\ 1 \in 1 .. N + 1 /\ i - 1 \in 1 - 1 .. N
          /\ i + 1 \in 1 .. N + 1 /\ N \in (i + 1) - 1 .. N
          /\ (i - 1) - 1 + 1 = i - 1 /\ N - (i + 1) + 1 = N - i
          /\ \A k \in 1 .. i - 1 : 1 + k - 1 = k
          /\ \A k \in 1 .. N - i : (i + 1) + k - 1 = i + k
      BY SMT, <1>1, <2>1
    <3>3. /\ front \in Seq(S) /\ Len(front) = (i - 1) - 1 + 1
          /\ \A k \in 1 .. (i - 1) - 1 + 1 : front[k] = list[1 + k - 1]
      BY <3>1, <3>2, SubSeqProperties
    <3>4. /\ back \in Seq(S) /\ Len(back) = N - (i + 1) + 1
          /\ \A k \in 1 .. N - (i + 1) + 1 : back[k] = list[(i + 1) + k - 1]
      BY <3>1, <3>2, SubSeqProperties
    <3> HIDE DEF front, back
    <3> QED BY <3>2, <3>3, <3>4
  <2> HIDE DEF front, back
  <2>4. /\ rest \in Seq(S) /\ Len(rest) = N - 1
        /\ \A k \in 1 .. N - 1 : rest[k] = IF k < i THEN list[k] ELSE list[k + 1]
    <3>1. /\ rest \in Seq(S) /\ Len(rest) = (i - 1) + (N - i)
          /\ \A k \in 1 .. (i - 1) + (N - i) :
                rest[k] = IF k <= i - 1 THEN front[k] ELSE back[k - (i - 1)]
      <4>1. /\ front \o back \in Seq(S) /\ Len(front \o back) = Len(front) + Len(back)
            /\ \A k \in 1 .. Len(front) + Len(back) :
                  (front \o back)[k] = IF k <= Len(front) THEN front[k]
                                       ELSE back[k - Len(front)]
        BY <2>3, ConcatProperties
      <4> QED BY <2>2, <2>3, <4>1
    <3>2. (i - 1) + (N - i) = N - 1
      BY SMT, <1>1, <2>1
    <3>3. ASSUME NEW k \in 1 .. N - 1
          PROVE  rest[k] = IF k < i THEN list[k] ELSE list[k + 1]
      <4>1. CASE k < i
        <5>1. k <= i - 1 /\ k \in 1 .. i - 1
          BY SMT, <1>1, <2>1, <4>1
        <5> QED BY <2>3, <3>1, <3>2, <4>1, <5>1
      <4>2. CASE ~ (k < i)
        <5>1. ~ (k <= i - 1) /\ k - (i - 1) \in 1 .. N - i /\ i + (k - (i - 1)) = k + 1
          BY SMT, <1>1, <2>1, <4>2
        <5> QED BY <2>3, <3>1, <3>2, <4>2, <5>1
      <4> QED BY <4>1, <4>2
    <3> QED BY <3>1, <3>2, <3>3
  <2>5. DOMAIN rest = 1 .. N - 1
    BY <2>4, LenProperties
  <2> DEFINE f == [k \in 1 .. N - 1 |-> IF k < i THEN k ELSE k + 1]
  <2>6. f \in [1 .. N - 1 -> 1 .. N]
    BY SMT, <1>1, <2>1
  <2>7. \A k, l \in 1 .. N - 1 : f[k] = f[l] => k = l
    BY SMT, <1>1, <2>1
  <2>8. \A k \in 1 .. N - 1 : f[k] # i
    BY SMT, <1>1, <2>1
  <2>9. \A k \in 1 .. N - 1 : rest[k] = list[f[k]]
    BY <2>4
  <2> HIDE DEF f
  <2>10. \E g \in [DOMAIN rest -> DOMAIN list] :
            /\ \A k \in DOMAIN rest : rest[k] = list[g[k]]
            /\ \A k, l \in DOMAIN rest : g[k] = g[l] => k = l
            /\ \A k \in DOMAIN rest : g[k] # i
    BY <1>1, <2>5, <2>6, <2>7, <2>8, <2>9
  <2> QED BY <2>4, <2>10 DEF i, rest, S
<1> QED BY <1>2, <1>3

-----------------------------------------------------------------------------
(* PDUs and what a handler does.                                           *)

(* What the PDUs the programs build consist of.                            *)
LEMMA PDUTypes ==
    /\ \A flag \in FLAG : Command(flag) \in PDU /\ Command(flag).flag = flag
    /\ \A flag \in FLAG, h \in Handle :
          /\ HandlePDU(flag, h) \in PDU
          /\ HandlePDU(flag, h).flag = flag
          /\ HandlePDU(flag, h).handle = h
    /\ \A flag \in FLAG, h \in Handle, to \in Seq(Handle), text \in Text :
          /\ TextPDU(flag, h, to, text) \in PDU
          /\ TextPDU(flag, h, to, text).flag = flag
<1>1. NoText \in Text /\ <<>> \in Seq(Handle)
  BY SMT DEF NoText, Text
<1>2. \A flag \in FLAG : Command(flag) \in PDU /\ Command(flag).flag = flag
  BY <1>1 DEF Command, PDU
<1>3. \A flag \in FLAG, h \in Handle :
         /\ HandlePDU(flag, h) \in PDU
         /\ HandlePDU(flag, h).flag = flag
         /\ HandlePDU(flag, h).handle = h
  BY <1>1 DEF Command, HandlePDU, PDU
<1>4. \A flag \in FLAG, h \in Handle, to \in Seq(Handle), text \in Text :
         /\ TextPDU(flag, h, to, text) \in PDU
         /\ TextPDU(flag, h, to, text).flag = flag
  BY DEF TextPDU, PDU
<1> QED BY <1>2, <1>3, <1>4

(* The first PDU of a client names it.                                     *)
LEMMA HelloType ==
    ASSUME NEW c \in Clients
    PROVE  Hello(c) \in PDU /\ Hello(c).flag = "HELLO" /\ Hello(c).handle = name[c]
  BY PDUTypes, NameAssumption DEF Hello, FLAG

(* The descriptors are numbers.                                            *)
LEMMA FDTypes == FD \subseteq Nat /\ ServerSocket \in FD
  BY SMT, MaxFDAssumption DEF FD, ServerSocket

(* What a send and a close of the server consist of.                       *)
LEMMA SendTypes ==
    ASSUME NEW s \in FD, NEW p \in PDU
    PROVE  /\ Send(s, p) \in Action /\ Send(s, p).op = "send"
           /\ Send(s, p).socket = s /\ Send(s, p).pdu = p
           /\ Close(s) \in Action /\ Close(s).op = "close" /\ Close(s).socket = s
<1>1. NoPDU \in PDU
  BY PDUTypes DEF NoPDU, FLAG
<1> QED BY <1>1 DEF Send, Close, Action

(* A handler sends to its own client and to clients of the list.           *)
Within(s) ==
    {a \in Action : a.op = "send" /\ (a.socket = s \/ \E i \in DOMAIN list : a.socket = list[i].data)}

(* What a client asks for is answered by sending, and closes no socket.    *)
LEMMA HandlerSends ==
    ASSUME list \in Seq(Node(FD, Handle)), NEW s \in FD, NEW p \in PDU,
           p.flag \in Asked \ {"HELLO"}
    PROVE  Handler(s, p) \in Seq(Within(s))
<1>1. \A i \in DOMAIN list : list[i] \in Node(FD, Handle)
  BY ElementOfSeq, LenProperties
<1>2. \A i \in DOMAIN list : list[i].data \in FD /\ list[i].handle \in Handle
  BY <1>1 DEF Node
<1>3. \A q \in PDU : Send(s, q) \in Within(s)
  BY SendTypes DEF Within
<1>4. \A i \in DOMAIN list, q \in PDU : Send(list[i].data, q) \in Within(s)
  BY <1>2, SendTypes DEF Within
<1>5. CASE p.flag = "BROADCAST"
  <2> DEFINE T == {Send(list[i].data, p) : i \in DOMAIN list}
  <2>1. recAndSendBroadCast(p) \in Seq(T)
    BY BroadcastToListed
  <2>2. T \subseteq Within(s)
    BY <1>4
  <2>3. \A t \in Seq(T) : t \in Seq(Within(s))
    <3> HIDE DEF T
    <3> QED BY SMT, <2>2
  <2> QED BY <1>5, <2>1, <2>3 DEF Handler
<1>6. CASE p.flag = "MESSAGE"
  <2>1. p.to \in Seq(Handle) /\ p.to = [i \in 1 .. Len(p.to) |-> p.to[i]]
        /\ Len(p.to) \in Nat /\ DOMAIN p.to = 1 .. Len(p.to)
    BY SMT DEF PDU
  <2> DEFINE e(i) == LET client == getClientHandle(list, p.to[i])
                     IN  IF client = NULL THEN Send(s, HandlePDU("UNKNOWN", p.to[i]))
                         ELSE Send(list[client].data, p)
  <2>2. \A i \in 1 .. Len(p.to) : e(i) \in Within(s)
    <3> SUFFICES ASSUME NEW i \in 1 .. Len(p.to) PROVE e(i) \in Within(s)
      OBVIOUS
    <3>1. p.to[i] \in Handle
      BY <2>1, ElementOfSeq
    <3>2. HandlePDU("UNKNOWN", p.to[i]) \in PDU
      BY <3>1, PDUTypes DEF FLAG
    <3> DEFINE client == getClientHandle(list, p.to[i])
    <3>3. client # NULL => client \in DOMAIN list
      BY Found
    <3> HIDE DEF client
    <3>4. e(i) = IF client = NULL THEN Send(s, HandlePDU("UNKNOWN", p.to[i]))
                 ELSE Send(list[client].data, p)
      BY DEF client
    <3> QED BY <1>3, <1>4, <3>2, <3>3, <3>4
  <2>3. recAndSendMess(s, p) = [i \in 1 .. Len(p.to) |-> e(i)]
    BY <2>1 DEF recAndSendMess
  <2> HIDE DEF e
  <2>4. [i \in 1 .. Len(p.to) |-> e(i)] \in Seq(Within(s))
    BY SMT, <2>1, <2>2
  <2> QED BY <1>6, <2>3, <2>4 DEF Handler
<1>7. CASE p.flag = "EXIT"
  <2>1. Send(s, Command("EXIT")) \in Within(s)
    BY <1>3, PDUTypes DEF FLAG
  <2>2. <<Send(s, Command("EXIT"))>> \in Seq(Within(s))
    BY SMT, <2>1
  <2> QED BY <1>7, <2>2 DEF Handler
<1>8. CASE p.flag = "LIST"
  <2> DEFINE a == Send(s, Command("NUMBER"))
             b(i) == Send(s, HandlePDU("HANDLE", list[i].handle))
             c == Send(s, Command("END"))
             body == [i \in DOMAIN list |-> b(i)]
             W == Within(s)
  <2>1. a \in W /\ c \in W
    BY <1>3, PDUTypes DEF FLAG
  <2>2. \A i \in DOMAIN list : b(i) \in W
    BY <1>2, <1>3, PDUTypes DEF FLAG
  <2>3. DOMAIN list = 1 .. Len(list) /\ Len(list) \in Nat
    BY LenProperties
  <2> HIDE DEF a, b, c, W
  <2>4. body \in Seq(W)
    BY SMT, <2>2, <2>3
  <2>5. <<a>> \in Seq(W) /\ <<c>> \in Seq(W)
    BY SMT, <2>1
  <2> HIDE DEF body
  <2>6. (<<a>> \o body) \o <<c>> \in Seq(W)
    BY <2>4, <2>5, ConcatProperties
  <2>7. sendList(s) = (<<a>> \o body) \o <<c>>
    BY DEF sendList, a, b, c, body
  <2> QED BY <1>8, <2>6, <2>7 DEF Handler, W
<1> QED BY <1>5, <1>6, <1>7, <1>8 DEF Asked

-----------------------------------------------------------------------------
(* The initial states satisfy the inductive invariant.                     *)
LEMMA InitIInv == Init => IInv
<1> SUFFICES ASSUME Init PROVE IInv
  OBVIOUS
<1> USE DEF Init, StreamInit, ServerInit, ClientInit
<1>1. /\ DOMAIN <<>> = {} /\ \A S : <<>> \in Seq(S)
  BY Nil
<1>2. TypeOK
  <2>1. NoPDU \in PDU /\ {ServerSocket} \subseteq FD /\ 0 \in Nat
    BY PDUTypes, FDTypes DEF NoPDU, FLAG
  <2> QED BY <1>1, <2>1 DEF TypeOK, LinkState, ClientState
<1>3. ServerInv
  BY <1>1, FDTypes DEF ServerInv, Connected, HandlesDiffer, NodesAreOpen, OutboxIsOpen
<1>4. ASSUME NEW c \in Clients PROVE ClientInv(c)
  <2>1. cstate[c] = "START" /\ up[c] = <<>> /\ down[c] = <<>> /\ cout[c] = <<>> /\ screen[c] = <<>>
    OBVIOUS
  <2>2. \A s \in FD : fds[s] # c
    BY NoneAssumption
  <2> QED BY <1>1, <2>1, <2>2 DEF ClientInv, Starts, Registers, Waits, Refused
<1> QED BY <1>2, <1>3, <1>4 DEF IInv

(* A client that a step leaves alone.                                      *)
LEMMA ClientKept ==
    ASSUME NEW c \in Clients, ClientInv(c),
           cstate'[c] = cstate[c], up'[c] = up[c], down'[c] = down[c],
           cout'[c] = cout[c], screen'[c] = screen[c],
           cstate[c] = "START" => /\ \A s \in FD : fds'[s] # c
                                  /\ \A i \in DOMAIN backlog' : backlog'[i] # c,
           Unlisted(c) => Unlisted(c)',
           \/ server' = "DEAD"
           \/ cstate[c] = "CONF" => down[c] # <<>>
           \/ /\ server' = server /\ link'[c] = link[c]
              /\ Fresh(c) => NotSentTo(c)'
              /\ Served(c) /\ down[c] = <<>> => Served(c)'
    PROVE  ClientInv(c)'
<1>1. Starts(c)'
  BY DEF ClientInv, Starts
<1>2. Registers(c)'
  BY DEF ClientInv, Registers
<1>3. Refused(c)'
  BY DEF ClientInv, Refused
<1>4. Answered(c) => Answered(c)'
  BY DEF Answered
<1>5. Waits(c)'
  <2>1. CASE server' = "DEAD"
    BY <1>4, <2>1 DEF ClientInv, Waits
  <2>2. CASE cstate[c] = "CONF" => down[c] # <<>>
    BY <1>4, <2>2 DEF ClientInv, Waits
  <2>3. CASE server' # "DEAD" /\ ~ (cstate[c] = "CONF" => down[c] # <<>>)
    <3>1. Fresh(c) => Fresh(c)'
      BY <2>3 DEF Fresh
    <3> QED BY <1>4, <2>3, <3>1 DEF ClientInv, Waits
  <2> QED BY <2>1, <2>2, <2>3
<1> QED BY <1>1, <1>2, <1>3, <1>5 DEF ClientInv

-----------------------------------------------------------------------------
(* The steps of the clients.                                               *)

(* A step of client c that leaves the server and the other clients alone.  *)
Own(c) ==
    /\ UNCHANGED serverVars
    /\ TypeOK'
    /\ \A d \in Clients \ {c} :
          /\ link'[d] = link[d] /\ up'[d] = up[d] /\ down'[d] = down[d]
          /\ cstate'[d] = cstate[d] /\ cout'[d] = cout[d] /\ screen'[d] = screen[d]

(* A step of a client that leaves the server and the other clients alone   *)
(* need only be looked at for that client.                                 *)
LEMMA OwnStep ==
    ASSUME IInv, NEW c \in Clients, Own(c), ClientInv(c)'
    PROVE  IInv'
<1> USE DEF serverVars
<1>2. ServerInv'
  BY DEF IInv, ServerInv, Connected, HandlesDiffer, NodesAreOpen, OutboxIsOpen, Own
<1>3. ASSUME NEW d \in Clients, d # c PROVE ClientInv(d)'
  <2>1. /\ cstate'[d] = cstate[d] /\ up'[d] = up[d] /\ down'[d] = down[d]
        /\ cout'[d] = cout[d] /\ screen'[d] = screen[d] /\ link'[d] = link[d]
    BY <1>3 DEF Own
  <2>2. UNCHANGED serverVars
    BY DEF Own
  <2>3. ClientInv(d)
    BY DEF IInv
  <2>4. /\ Unlisted(d)' <=> Unlisted(d)
        /\ NotSentTo(d)' <=> NotSentTo(d)
    BY <2>2 DEF Unlisted, NotSentTo
  <2>5. Served(d) => Served(d)'
    BY <2>1, <2>2, <2>4 DEF Served
  <2>6. Fresh(d) => NotSentTo(d)
    BY DEF Fresh
  <2>7. cstate[d] = "START" => /\ \A s \in FD : fds'[s] # d
                               /\ \A i \in DOMAIN backlog' : backlog'[i] # d
    BY <2>2, <2>3 DEF ClientInv, Starts
  <2> QED BY <2>1, <2>2, <2>3, <2>4, <2>5, <2>6, <2>7, ClientKept
<1> QED BY <1>2, <1>3 DEF IInv, Own

(* A client past its registration, which sends anything but its name.      *)
LEMMA Talks ==
    ASSUME NEW c \in Clients, cstate'[c] \in {"POLL", "LIST", "DEAF"},
           \A i \in DOMAIN cout'[c] : cout'[c][i].flag \in Asked \ {"HELLO"},
           \A i \in DOMAIN up'[c] : up'[c][i].flag \in Asked \ {"HELLO"}
    PROVE  ClientInv(c)'
  BY DEF ClientInv, Starts, Registers, Waits, Refused

(* A client that is past its registration has nothing on its way that      *)
(* would register it again.                                                *)
LEMMA TalksOnly ==
    ASSUME NEW c \in Clients, ClientInv(c), cstate[c] \in {"POLL", "LIST", "DEAF"}
    PROVE  /\ \A i \in DOMAIN cout[c] : cout[c][i].flag \in Asked \ {"HELLO"}
           /\ \A i \in DOMAIN up[c] : up[c][i].flag \in Asked \ {"HELLO"}
  BY DEF ClientInv, Registers

(* A client that ends.                                                     *)
LEMMA Stops ==
    ASSUME NEW c \in Clients, ClientInv(c), UNCHANGED serverVars,
           cstate'[c] \in {"in use", "not answered", "terminated", "exit",
                           "no server", "killed"},
           cstate'[c] = "in use" => up[c] = <<>> /\ Unlisted(c) /\ screen[c] = <<>>,
           cout'[c] = <<>>, up'[c] = up[c], screen'[c] = screen[c]
    PROVE  ClientInv(c)'
<1>1. Unlisted(c)' <=> Unlisted(c)
  BY DEF Unlisted, serverVars
<1>2. DOMAIN <<>> = {}
  BY Nil
<1>3. Registers(c)'
  BY <1>1, <1>2 DEF ClientInv, Registers
<1> QED BY <1>1, <1>3 DEF ClientInv, Starts, Waits, Refused

(* The first element of a queue is taken.                                  *)
LEMMA Taken ==
    ASSUME NEW S, NEW q \in Seq(S), q # <<>>
    PROVE  /\ Head(q) \in S /\ Head(q) = q[1] /\ 1 \in DOMAIN q
           /\ Tail(q) \in Seq(S)
           /\ \A i \in DOMAIN Tail(q) : i + 1 \in DOMAIN q /\ Tail(q)[i] = q[i + 1]
  BY SMT, HeadTailProperties

(* An element is added to a queue.                                         *)
LEMMA Added ==
    ASSUME NEW S, NEW q \in Seq(S), NEW e \in S
    PROVE  /\ Append(q, e) \in Seq(S) /\ Append(q, e) # <<>>
           /\ \A i \in DOMAIN Append(q, e) :
                 \/ i \in DOMAIN q /\ Append(q, e)[i] = q[i]
                 \/ Append(q, e)[i] = e
           /\ \A i \in DOMAIN q : i \in DOMAIN Append(q, e) /\ Append(q, e)[i] = q[i]
           /\ Head(Append(q, e)) = IF q = <<>> THEN e ELSE Head(q)
  BY SMT, AppendProperties

(* The types of the variables of one client.                               *)
LEMMA TypesOf ==
    ASSUME TypeOK, NEW c \in Clients
    PROVE  /\ link[c] \in LinkState /\ up[c] \in Seq(PDU) /\ down[c] \in Seq(PDU)
           /\ cstate[c] \in ClientState /\ cout[c] \in Seq(PDU) /\ typed[c] \in Nat
           /\ screen[c] \in Seq(Text) /\ leaving[c] \in BOOLEAN
  BY DEF TypeOK

(* A sequence stays without repetitions when a new element is added.       *)
LEMMA AddedApart ==
    ASSUME NEW S, NEW q \in Seq(S), NEW e,
           \A i, j \in DOMAIN q : q[i] = q[j] => i = j,
           \A i \in DOMAIN q : q[i] # e
    PROVE  \A i, j \in DOMAIN Append(q, e) :
              Append(q, e)[i] = Append(q, e)[j] => i = j
  BY SMT

(* The types of a node of the list.                                        *)
LEMMA NodeTypes ==
    ASSUME TypeOK, NEW i \in DOMAIN list
    PROVE  list[i] \in Node(FD, Handle) /\ list[i].data \in FD /\ list[i].handle \in Handle
<1>1. list \in Seq(Node(FD, Handle))
  BY DEF TypeOK
<1>2. list[i] \in Node(FD, Handle)
  BY <1>1, ElementOfSeq, LenProperties
<1> QED BY <1>2 DEF Node

(* The types of what the server has still to send.                         *)
LEMMA OutboxTypes ==
    ASSUME TypeOK, NEW i \in DOMAIN outbox
    PROVE  outbox[i] \in Action /\ outbox[i].socket \in FD /\ outbox[i].pdu \in PDU
<1>1. outbox \in Seq(Action)
  BY DEF TypeOK
<1>2. outbox[i] \in Action
  BY <1>1, ElementOfSeq, LenProperties
<1> QED BY <1>2 DEF Action

(* A client sends the next PDU of what it has to send.                     *)
LEMMA SendNextStep ==
    ASSUME IInv, NEW c \in Clients, SendNext(c), UNCHANGED serverVars
    PROVE  IInv'
<1> DEFINE p == Head(cout[c])
           rest == Tail(cout[c])
<1>1. TypeOK /\ ClientInv(c)
  BY DEF IInv
<1>2. /\ p \in PDU /\ p = cout[c][1] /\ 1 \in DOMAIN cout[c]
      /\ rest \in Seq(PDU)
      /\ \A i \in DOMAIN rest : i + 1 \in DOMAIN cout[c] /\ rest[i] = cout[c][i + 1]
  BY <1>1, TypesOf, Taken DEF SendNext
<1>3. /\ Append(up[c], p) \in Seq(PDU)
      /\ \A i \in DOMAIN Append(up[c], p) :
            \/ i \in DOMAIN up[c] /\ Append(up[c], p)[i] = up[c][i]
            \/ Append(up[c], p)[i] = p
  BY <1>1, <1>2, TypesOf, Added
<1> HIDE DEF p, rest
<1>4. /\ cout' = [cout EXCEPT ![c] = rest]
      /\ \/ link[c] = "up" /\ up' = [up EXCEPT ![c] = Append(up[c], p)]
         \/ link[c] \in {"cut", "aborted"} /\ up' = up
      /\ UNCHANGED <<link, down, cstate, typed, screen, leaving>>
  BY DEF SendNext, SendUp, p, rest
<1>5. Own(c)
  <2>1. cout' \in [Clients -> Seq(PDU)] /\ \A d \in Clients \ {c} : cout'[d] = cout[d]
    BY <1>1, <1>2, <1>4 DEF TypeOK
  <2>2. up' \in [Clients -> Seq(PDU)] /\ \A d \in Clients \ {c} : up'[d] = up[d]
    BY <1>1, <1>3, <1>4 DEF TypeOK
  <2>3. TypeOK'
    BY <1>1, <1>4, <2>1, <2>2 DEF TypeOK, serverVars
  <2> QED BY <1>4, <2>1, <2>2, <2>3 DEF Own
<1>6. cout'[c] = rest /\ (up'[c] = Append(up[c], p) \/ up'[c] = up[c])
  BY <1>1, <1>4 DEF TypeOK
<1>7. Unlisted(c)' <=> Unlisted(c)
  BY DEF Unlisted, serverVars
<1>8. NotSentTo(c)' <=> NotSentTo(c)
  BY DEF NotSentTo, serverVars
<1>9. DOMAIN <<>> = {} /\ \A e : Tail(<<e>>) = <<>> /\ Head(<<e>>) = e /\ Append(<<>>, e) = <<e>> /\ <<e>> # <<>>
  BY SMT
<1>10. cout[c] # <<>>
  BY DEF SendNext
<1>11. ClientInv(c)'
  <2>1. CASE p.flag = "HELLO"
    <3>1. /\ cout[c] = <<Hello(c)>> /\ cstate[c] = "CONF" /\ up[c] = <<>>
          /\ down[c] = <<>> /\ Unlisted(c)
      BY <1>1, <1>2, <2>1 DEF ClientInv, Registers
    <3>2. rest = <<>> /\ p = Hello(c)
      BY <1>9, <3>1 DEF p, rest
    <3>3. \/ up'[c] = <<Hello(c)>>
          \/ link[c] \in {"cut", "aborted"} /\ up'[c] = <<>>
      BY <1>1, <1>4, <1>9, <3>1, <3>2 DEF TypeOK
    <3>4. Starts(c)' /\ Refused(c)'
      BY <1>1, <1>4, <3>1 DEF Starts, Refused, ClientInv
    <3>5. \A i \in DOMAIN up'[c] : up'[c][i].flag \in Asked
      <4>1. "HELLO" \in Asked /\ (up'[c])[1] = (up'[c])[1]
        BY DEF Asked
      <4> QED BY <1>1, <1>2, <1>3, <1>6, <2>1, <4>1 DEF ClientInv, Registers
    <3>6. Registers(c)'
      BY <1>4, <1>6, <1>7, <1>9, <3>1, <3>2, <3>3, <3>5 DEF Registers
    <3>7. server = "RUNNING" => link[c] = "up" /\ (Fresh(c) \/ Served(c))
      BY <1>1, <3>1 DEF ClientInv, Waits
    <3>8. Served(c) => cout[c] = <<>>
      BY DEF Served
    <3>9. server = "RUNNING" => link[c] = "up" /\ NotSentTo(c)
      BY <1>10, <3>7, <3>8 DEF Fresh
    <3>10. link[c] = "up" /\ NotSentTo(c) => Fresh(c)'
      BY <1>6, <1>7, <1>8, <3>1, <3>2, <3>3 DEF Fresh
    <3>11. Waits(c)'
      BY <1>4, <3>1, <3>9, <3>10 DEF Waits, serverVars
    <3> QED BY <3>4, <3>6, <3>11 DEF ClientInv
  <2>2. CASE p.flag # "HELLO"
    <3>1. \A i \in DOMAIN cout[c] : cout[c][i].flag # "HELLO"
      <4> SUFFICES ASSUME NEW i \in DOMAIN cout[c], cout[c][i].flag = "HELLO" PROVE FALSE
        OBVIOUS
      <4>1. cout[c] = <<Hello(c)>>
        BY <1>1 DEF ClientInv, Registers
      <4> QED BY <1>9, <2>2, <4>1, HelloType DEF p
    <3>2. \A i \in DOMAIN up[c] : up[c][i].flag # "HELLO"
      BY <1>1, <1>10 DEF ClientInv, Registers
    <3>3. \A i \in DOMAIN cout'[c] : cout'[c][i].flag \in Asked \ {"HELLO"}
      BY <1>1, <1>2, <1>6, <3>1 DEF ClientInv, Registers
    <3>4. p.flag \in Asked \ {"HELLO"}
      BY <1>1, <1>2, <3>1 DEF ClientInv, Registers
    <3>5. \A i \in DOMAIN up'[c] : up'[c][i].flag \in Asked \ {"HELLO"}
      BY <1>1, <1>3, <1>6, <3>2, <3>4 DEF ClientInv, Registers
    <3>6. Registers(c)'
      BY <3>3, <3>5 DEF Registers
    <3>7. cstate[c] \notin {"START", "in use"}
      BY <1>1, <1>10 DEF ClientInv, Starts, Refused
    <3>8. Starts(c)' /\ Refused(c)'
      BY <1>1, <1>4, <3>7 DEF Starts, Refused, ClientInv
    <3>9. cout[c] # <<Hello(c)>>
      BY <1>9, <2>2, HelloType DEF p
    <3>10. ~ Answered(c) /\ ~ Fresh(c) /\ ~ Served(c)
      BY <1>10, <3>9 DEF Answered, Fresh, Served
    <3>11. Waits(c)'
      BY <1>1, <1>4, <3>10 DEF Waits, ClientInv, serverVars
    <3> QED BY <3>6, <3>8, <3>11 DEF ClientInv
  <2> QED BY <2>1, <2>2
<1> QED BY <1>5, <1>11, OwnStep

(* Ends closes the connection, whatever it holds.                          *)
LEMMA EndsTypes ==
    ASSUME TypeOK, NEW c \in Clients, CloseUp(c)
    PROVE  /\ link' \in [Clients -> LinkState]
           /\ down' \in [Clients -> Seq(PDU)]
           /\ up' = up
           /\ \A d \in Clients \ {c} : link'[d] = link[d] /\ down'[d] = down[d]
<1>1. <<>> \in Seq(PDU)
  BY SMT
<1>2. PICK l \in {"fin", "reset", "bounced"} :
         link' = [link EXCEPT ![c] = IF @ = "up" THEN l ELSE @]
  BY DEF CloseUp
<1>3. {"fin", "reset", "bounced"} \subseteq LinkState
  BY DEF LinkState
<1> QED BY <1>1, <1>2, <1>3 DEF CloseUp, TypeOK

(* A client ends; if it was refused, it has sent and shown nothing.        *)
LEMMA EndsStep ==
    ASSUME IInv, NEW c \in Clients, UNCHANGED serverVars,
           NEW how \in {"in use", "not answered", "terminated", "exit", "killed"},
           Ends(c, how),
           how = "in use" => up[c] = <<>> /\ Unlisted(c) /\ screen[c] = <<>>
    PROVE  IInv'
<1>1. TypeOK /\ ClientInv(c)
  BY DEF IInv
<1>2. <<>> \in Seq(PDU) /\ how \in ClientState
  BY Nil DEF ClientState
<1>3. Own(c)
  BY <1>1, <1>2, EndsTypes DEF Own, TypeOK, serverVars, Ends, Goto
<1>4. cstate'[c] = how /\ cout'[c] = <<>> /\ up'[c] = up[c] /\ screen'[c] = screen[c]
  BY <1>1, EndsTypes DEF TypeOK, Ends, Goto
<1>5. ClientInv(c)'
  BY <1>1, <1>4, Stops
<1> QED BY <1>3, <1>5, OwnStep

(* A client is told that its handle is good.                               *)
LEMMA ConfOkStep ==
    ASSUME IInv, NEW c \in Clients, ConfOk(c), UNCHANGED serverVars
    PROVE  IInv'
<1>1. TypeOK /\ ClientInv(c)
  BY DEF IInv
<1>2. Tail(down[c]) \in Seq(PDU) /\ "POLL" \in ClientState /\ DOMAIN <<>> = {}
  BY <1>1, TypesOf, Taken, Nil DEF ConfOk, Reads, ClientState
<1>3. Own(c)
  BY <1>1, <1>2 DEF Own, TypeOK, serverVars, ConfOk, RecvDown, Goto
<1>4. up[c] = <<>> /\ cout[c] = <<>>
  BY <1>1 DEF ConfOk, Reads, ClientInv, Waits, Answered
<1>5. cstate'[c] = "POLL" /\ up'[c] = <<>> /\ cout'[c] = <<>>
  BY <1>1, <1>4 DEF ConfOk, TypeOK, Goto, RecvDown
<1>6. ClientInv(c)'
  BY <1>2, <1>5, Talks
<1> QED BY <1>3, <1>6, OwnStep

(* A client is told that its handle is in use.                             *)
LEMMA ConfNotStep ==
    ASSUME IInv, NEW c \in Clients, ConfNot(c), UNCHANGED serverVars
    PROVE  IInv'
<1> DEFINE how == IF Head(down[c]).flag = "IN_USE" THEN "in use" ELSE "not answered"
<1>1. ClientInv(c) /\ cstate[c] = "CONF" /\ down[c] # <<>>
  BY DEF IInv, ConfNot, Reads
<1>2. how = "in use" => up[c] = <<>> /\ Unlisted(c) /\ screen[c] = <<>>
  BY <1>1 DEF ClientInv, Waits, Answered, Refused
<1>3. Ends(c, how) /\ how \in {"in use", "not answered", "terminated", "exit", "killed"}
  BY DEF ConfNot
<1> HIDE DEF how
<1> QED BY <1>2, <1>3, EndsStep

(* What a client displays.                                                 *)
LEMMA DisplaysTypes ==
    ASSUME TypeOK, NEW c \in Clients, down[c] # <<>>, Displays(c, Head(down[c]))
    PROVE  /\ screen' \in [Clients -> Seq(Text)]
           /\ \A d \in Clients \ {c} : screen'[d] = screen[d]
           /\ Tail(down[c]) \in Seq(PDU)
<1>1. Head(down[c]) \in PDU /\ Tail(down[c]) \in Seq(PDU) /\ screen[c] \in Seq(Text)
  BY TypesOf, Taken
<1>2. Head(down[c]).text \in Text
  BY <1>1 DEF PDU
<1>3. Append(screen[c], Head(down[c]).text) \in Seq(Text)
  BY <1>1, <1>2, Added
<1> QED BY <1>1, <1>3 DEF Displays, TypeOK

(* A client reads a text or a part of the list of handles.                 *)
LEMMA ReadsStep ==
    ASSUME IInv, NEW c \in Clients, PollReads(c) \/ ListReads(c), UNCHANGED serverVars
    PROVE  IInv'
<1>1. TypeOK /\ ClientInv(c)
  BY DEF IInv
<1>2. down[c] # <<>> /\ Displays(c, Head(down[c])) /\ RecvDown(c) /\ cstate[c] \in {"POLL", "LIST"}
  BY DEF PollReads, ListReads, Reads
<1>3. \E s \in {"POLL", "LIST"} : cstate' = [cstate EXCEPT ![c] = s]
  BY <1>1 DEF PollReads, ListReads, Reads, Goto, TypeOK
<1>4. UNCHANGED <<cout, typed, leaving>>
  BY DEF PollReads, ListReads
<1>5. Own(c)
  <2>1. {"POLL", "LIST"} \subseteq ClientState
    BY DEF ClientState
  <2> QED BY <1>1, <1>2, <1>3, <1>4, <2>1, DisplaysTypes DEF Own, TypeOK, serverVars, RecvDown
<1>6. cstate'[c] \in {"POLL", "LIST"} /\ up' = up
  BY <1>1, <1>2, <1>3 DEF TypeOK, RecvDown
<1>7. ClientInv(c)'
  BY <1>1, <1>2, <1>4, <1>6, Talks, TalksOnly
<1> QED BY <1>5, <1>7, OwnStep

(* A client is told that it may leave.                                     *)
LEMMA PollReadsExitStep ==
    ASSUME IInv, NEW c \in Clients, PollReadsExit(c), UNCHANGED serverVars
    PROVE  IInv'
<1>1. TypeOK /\ cout[c] = <<>>
  BY DEF IInv, PollReadsExit, Reads
<1>2. cout = [cout EXCEPT ![c] = <<>>]
  BY <1>1 DEF TypeOK
<1>3. Ends(c, "exit")
  BY <1>2 DEF PollReadsExit, Ends
<1> QED BY <1>3, EndsStep

(* A line of the user: what is sent is not a name.                         *)
LEMMA LineStep ==
    ASSUME IInv, NEW c \in Clients, UNCHANGED serverVars, Line(c),
           NEW o \in Seq(PDU), Sends(c, o),
           \A i \in DOMAIN o : o[i].flag \in Asked \ {"HELLO"},
           NEW s \in {"POLL", "LIST"}, Goto(c, s), Counted(c) \/ UNCHANGED typed,
           leaving' \in [Clients -> BOOLEAN]
    PROVE  IInv'
<1>1. TypeOK /\ ClientInv(c) /\ cstate[c] = "POLL"
  BY DEF IInv, Line
<1>2. typed' \in [Clients -> Nat]
  <2>1. typed[c] + 1 \in Nat
    BY SMT, <1>1, TypesOf
  <2> QED BY <1>1, <2>1 DEF TypeOK, Counted
<1>3. Own(c)
  <2>1. s \in ClientState
    BY DEF ClientState
  <2> QED BY <1>1, <1>2, <2>1 DEF Own, TypeOK, serverVars, streamVars, Line, Goto, Sends
<1>4. cstate'[c] = s /\ cout'[c] = o /\ up' = up
  BY <1>1 DEF TypeOK, Goto, Sends, Line, streamVars
<1>5. ClientInv(c)'
  BY <1>1, <1>4, Talks, TalksOnly
<1> QED BY <1>3, <1>5, OwnStep

(* A command of one PDU.                                                   *)
LEMMA OnePDU ==
    ASSUME NEW flag \in {"EXIT", "LIST"}
    PROVE  /\ <<Command(flag)>> \in Seq(PDU)
           /\ \A i \in DOMAIN <<Command(flag)>> : <<Command(flag)>>[i].flag = flag
<1>1. Command(flag) \in PDU /\ Command(flag).flag = flag
  BY PDUTypes DEF FLAG
<1> DEFINE p == Command(flag)
<1> HIDE DEF p
<1>2. p \in PDU /\ p.flag = flag
  BY <1>1 DEF p
<1>3. <<p>> \in Seq(PDU) /\ DOMAIN <<p>> = {1} /\ <<p>>[1] = p
  BY SMT, <1>2
<1>4. \A i \in DOMAIN <<p>> : <<p>>[i].flag = flag
  BY <1>2, <1>3
<1> QED BY <1>3, <1>4 DEF p

AllOf(o, flag) == o \in Seq(PDU) /\ \A i \in DOMAIN o : o[i].flag = flag

(* The pieces of a text that is typed are all of the same flag.            *)
LEMMA PieceTypes ==
    ASSUME TypeOK, NEW c \in Clients, NEW flag \in {"BROADCAST", "MESSAGE"},
           NEW to \in Seq(Handle), NEW k \in Nat
    PROVE  AllOf(Pieces(c, flag, to, k), flag)
<1> DEFINE text(i) == [by |-> c, no |-> typed[c], piece |-> i]
           p(i) == TextPDU(flag, name[c], to, text(i))
<1>1. \A i \in 1 .. k : text(i) \in Text
  <2>1. typed[c] \in Nat /\ 1 .. k \subseteq Nat
    BY SMT, TypesOf
  <2> QED BY <2>1 DEF Text
<1>2. name[c] \in Handle /\ flag \in FLAG
  BY NameAssumption DEF FLAG
<1> HIDE DEF text
<1>3. \A i \in 1 .. k : p(i) \in PDU /\ p(i).flag = flag
  BY <1>1, <1>2, PDUTypes
<1>4. Pieces(c, flag, to, k) = [i \in 1 .. k |-> p(i)]
  BY DEF Pieces, text
<1> HIDE DEF p
<1>5. [i \in 1 .. k |-> p(i)] \in Seq(PDU)
  BY SMT, <1>3
<1> QED BY <1>3, <1>4, <1>5 DEF AllOf

(* The user types a command.                                               *)
LEMMA TypesStep ==
    ASSUME IInv, NEW c \in Clients, Types(c), UNCHANGED serverVars
    PROVE  IInv'
<1>1. TypeOK
  BY DEF IInv
<1>2. {"EXIT", "LIST", "BROADCAST", "MESSAGE"} \subseteq Asked \ {"HELLO"}
  BY DEF Asked
<1>3. cstate = [cstate EXCEPT ![c] = cstate[c]] /\ typed[c] \in Nat
  BY <1>1 DEF TypeOK
<1>4. CASE LineExit(c)
  <2>1. /\ Line(c) /\ Sends(c, <<Command("EXIT")>>) /\ Goto(c, "POLL")
        /\ Counted(c) \/ UNCHANGED typed
    BY <1>3, <1>4 DEF LineExit, Line, Goto, NotAMessage
  <2>2. leaving' \in [Clients -> BOOLEAN]
    <3>1. leaving' = [leaving EXCEPT ![c] = ~ @]
      BY <1>4 DEF LineExit
    <3> QED BY <1>1, <3>1 DEF TypeOK
  <2> QED BY <1>2, <2>1, <2>2, LineStep, OnePDU
<1>5. CASE LineList(c)
  <2>1. /\ Line(c) /\ Sends(c, <<Command("LIST")>>) /\ Goto(c, "LIST")
        /\ Counted(c) \/ UNCHANGED typed
        /\ leaving' \in [Clients -> BOOLEAN]
    BY <1>1, <1>5 DEF LineList, NotAMessage, Stays, TypeOK
  <2> QED BY <1>2, <2>1, LineStep, OnePDU
<1>6. ASSUME NEW k \in 1 .. MaxPieces, brodcast(c, k)
      PROVE  IInv'
  <2>1. /\ Line(c) /\ Sends(c, Pieces(c, "BROADCAST", <<>>, k)) /\ Goto(c, "POLL")
        /\ Counted(c)
        /\ leaving' \in [Clients -> BOOLEAN]
    BY <1>1, <1>3, <1>6 DEF brodcast, MessageLine, Stays, Line, Goto, TypeOK
  <2>2. k \in Nat
    BY SMT, BoundsAssumption
  <2>3. <<>> \in Seq(Handle)
    BY Nil
  <2> DEFINE o == Pieces(c, "BROADCAST", <<>>, k)
  <2>4. o \in Seq(PDU) /\ \A i \in DOMAIN o : o[i].flag \in Asked \ {"HELLO"}
    <3>1. o \in Seq(PDU) /\ \A i \in DOMAIN o : o[i].flag = "BROADCAST"
      <4>1. AllOf(Pieces(c, "BROADCAST", <<>>, k), "BROADCAST")
        BY <1>1, <2>2, <2>3, PieceTypes
      <4> QED BY <4>1 DEF AllOf
    <3>2. "BROADCAST" \in Asked \ {"HELLO"}
      BY <1>2
    <3> QED BY <3>1, <3>2
  <2> HIDE DEF o
  <2>5. /\ Line(c) /\ Sends(c, o) /\ Goto(c, "POLL") /\ Counted(c)
        /\ leaving' \in [Clients -> BOOLEAN]
    BY <2>1 DEF o
  <2> QED BY <2>4, <2>5, LineStep
<1>7. ASSUME NEW k \in 1 .. MaxPieces, NEW to \in To, messageSend(c, to, k)
      PROVE  IInv'
  <2>1. /\ Line(c) /\ Sends(c, Pieces(c, "MESSAGE", to, k)) /\ Goto(c, "POLL")
        /\ Counted(c)
        /\ leaving' \in [Clients -> BOOLEAN]
    BY <1>1, <1>3, <1>7 DEF messageSend, MessageLine, Stays, Line, Goto, TypeOK
  <2>2. k \in Nat
    BY SMT, BoundsAssumption
  <2>3. to \in Seq(Handle)
    BY ToAssumption
  <2> DEFINE o == Pieces(c, "MESSAGE", to, k)
  <2>4. o \in Seq(PDU) /\ \A i \in DOMAIN o : o[i].flag \in Asked \ {"HELLO"}
    <3>1. o \in Seq(PDU) /\ \A i \in DOMAIN o : o[i].flag = "MESSAGE"
      <4>1. AllOf(Pieces(c, "MESSAGE", to, k), "MESSAGE")
        BY <1>1, <2>2, <2>3, PieceTypes
      <4> QED BY <4>1 DEF AllOf
    <3>2. "MESSAGE" \in Asked \ {"HELLO"}
      BY <1>2
    <3> QED BY <3>1, <3>2
  <2> HIDE DEF o
  <2>5. /\ Line(c) /\ Sends(c, o) /\ Goto(c, "POLL") /\ Counted(c)
        /\ leaving' \in [Clients -> BOOLEAN]
    BY <2>1 DEF o
  <2> QED BY <2>4, <2>5, LineStep
<1> QED BY <1>4, <1>5, <1>6, <1>7 DEF Types

(* Every step of the client program.                                       *)
LEMMA ClientStepKeeps ==
    ASSUME IInv, NEW c \in Clients, ClientStep(c), UNCHANGED serverVars
    PROVE  IInv'
<1>1. CASE SendNext(c)
  BY <1>1, SendNextStep
<1>2. CASE SendNextFails(c) \/ ServerGone(c)
  BY <1>2, EndsStep DEF SendNextFails, ServerGone
<1>3. CASE ConfOk(c)
  BY <1>3, ConfOkStep
<1>4. CASE ConfNot(c)
  BY <1>4, ConfNotStep
<1>5. CASE PollReads(c) \/ ListReads(c)
  BY <1>5, ReadsStep
<1>6. CASE PollReadsExit(c)
  BY <1>6, PollReadsExitStep
<1> QED BY <1>1, <1>2, <1>3, <1>4, <1>5, <1>6 DEF ClientStep, Receives

(* The user's input ends, or the server cannot be reached.                 *)
LEMMA GotoStep ==
    ASSUME IInv, NEW c \in Clients, StdinEnds(c) \/ ConnectFails(c), UNCHANGED serverVars
    PROVE  IInv'
<1>1. TypeOK /\ ClientInv(c)
  BY DEF IInv
<1>2. PICK s \in {"DEAF", "no server"} :
         /\ cstate' = [cstate EXCEPT ![c] = s]
         /\ IF s = "DEAF" THEN cstate[c] = "POLL" ELSE cstate[c] = "START"
  BY DEF StdinEnds, ConnectFails, Goto
<1>3. UNCHANGED <<cout, typed, screen, leaving, link, up, down>>
  BY DEF StdinEnds, ConnectFails, streamVars
<1>4. Own(c)
  <2>1. s \in ClientState
    BY DEF ClientState
  <2> QED BY <1>1, <1>2, <1>3, <2>1 DEF Own, TypeOK, serverVars
<1>5. cstate'[c] = s
  BY <1>1, <1>2 DEF TypeOK
<1>6. CASE s = "DEAF"
  BY <1>1, <1>2, <1>3, <1>5, <1>6, Talks, TalksOnly, <1>4, OwnStep
<1>7. CASE s = "no server"
  <2>1. cout[c] = <<>>
    BY <1>1, <1>2, <1>7 DEF ClientInv, Starts
  <2> QED BY <1>1, <1>3, <1>4, <1>5, <1>7, <2>1, Stops, OwnStep
<1> QED BY <1>2, <1>6, <1>7

(* Every step of a client, of its user and of its host.                    *)
LEMMA ClientsStep ==
    ASSUME IInv, UNCHANGED serverVars, NEW c \in Clients,
           \/ ClientStep(c)
           \/ Types(c)
           \/ ConnectFails(c)
           \/ Interrupt(c)
           \/ StdinEnds(c)
    PROVE  IInv'
<1>1. CASE Interrupt(c)
  BY <1>1, EndsStep DEF Interrupt
<1> QED BY <1>1, ClientStepKeeps, TypesStep, GotoStep

-----------------------------------------------------------------------------
(* connect.                                                                *)

(* A connection is accepted by the host of the server.                     *)
LEMMA ArriveStep ==
    ASSUME IInv, NEW c \in Clients, Arrive(c)
    PROVE  IInv'
<1>1. TypeOK /\ ServerInv /\ ClientInv(c)
  BY DEF IInv
<1>2. /\ cstate[c] = "START"
      /\ cstate' = [cstate EXCEPT ![c] = "CONF"]
      /\ cout' = [cout EXCEPT ![c] = <<Hello(c)>>]
      /\ link' = [link EXCEPT ![c] = "up"]
      /\ UNCHANGED <<typed, screen, leaving, up, down>>
      /\ backlog' = Append(backlog, c)
      /\ UNCHANGED <<server, fds, pollSet, list, outbox, buf>>
  BY DEF Arrive, Connect, Goto, Hello
<1>3. /\ \A s \in FD : fds[s] # c
      /\ \A i \in DOMAIN backlog : backlog[i] # c
      /\ up[c] = <<>> /\ down[c] = <<>> /\ cout[c] = <<>> /\ screen[c] = <<>>
  BY <1>1, <1>2 DEF ClientInv, Starts, Refused
<1>4. /\ backlog' \in Seq(Clients)
      /\ \A i \in DOMAIN backlog' :
            \/ i \in DOMAIN backlog /\ backlog'[i] = backlog[i]
            \/ backlog'[i] = c
  <2>1. backlog \in Seq(Clients)
    BY <1>1 DEF TypeOK
  <2> QED BY <1>2, <2>1, Added
<1>5. \A i, j \in DOMAIN backlog' : backlog'[i] = backlog'[j] => i = j
  <2>1. backlog \in Seq(Clients)
    BY <1>1 DEF TypeOK
  <2>2. \A i, j \in DOMAIN backlog : backlog[i] = backlog[j] => i = j
    BY <1>1 DEF ServerInv, Connected
  <2> QED BY <1>2, <1>3, <2>1, <2>2, AddedApart
<1>6. \A e : /\ DOMAIN <<e>> = {1} /\ <<e>>[1] = e /\ <<e>> # <<>>
             /\ \A S : e \in S => <<e>> \in Seq(S)
  BY SMT
<1>7. Hello(c) \in PDU /\ Hello(c).flag = "HELLO"
  BY HelloType
<1>8. TypeOK'
  <2>1. "CONF" \in ClientState /\ "up" \in LinkState /\ <<Hello(c)>> \in Seq(PDU)
    BY <1>6, <1>7 DEF ClientState, LinkState
  <2> QED BY <1>1, <1>2, <1>4, <2>1 DEF TypeOK
<1>9. ServerInv'
  <2>1. Connected'
    BY <1>1, <1>2, <1>3, <1>4, <1>5 DEF ServerInv, Connected
  <2>2. HandlesDiffer' /\ NodesAreOpen' /\ OutboxIsOpen'
    BY <1>1, <1>2 DEF ServerInv, HandlesDiffer, NodesAreOpen, OutboxIsOpen
  <2> QED BY <2>1, <2>2 DEF ServerInv
<1>10. \A i \in DOMAIN list : list[i].data \in FD
  BY <1>1, NodeTypes
<1>11. \A i \in DOMAIN outbox : outbox[i].socket \in FD
  BY <1>1, OutboxTypes
<1>12. ClientInv(c)'
  <2>1. /\ cstate'[c] = "CONF" /\ cout'[c] = <<Hello(c)>> /\ link'[c] = "up"
        /\ up'[c] = <<>> /\ down'[c] = <<>> /\ screen'[c] = <<>>
    BY <1>1, <1>2, <1>3 DEF TypeOK
  <2>2. Unlisted(c)' /\ NotSentTo(c)'
    BY <1>2, <1>3, <1>10, <1>11 DEF Unlisted, NotSentTo
  <2>3. Registers(c)'
    <3>1. "HELLO" \in Asked /\ DOMAIN <<>> = {}
      BY Nil DEF Asked
    <3>2. \A i \in DOMAIN cout'[c] : cout'[c][i].flag = "HELLO"
      BY <1>6, <1>7, <2>1
    <3>3. DOMAIN up'[c] = {}
      BY <2>1, <3>1
    <3> QED BY <2>1, <2>2, <3>1, <3>2, <3>3 DEF Registers
  <2>4. Fresh(c)'
    BY <2>1, <2>2 DEF Fresh
  <2> QED BY <2>1, <2>3, <2>4 DEF ClientInv, Starts, Waits, Refused
<1>13. ASSUME NEW d \in Clients, d # c PROVE ClientInv(d)'
  <2>1. /\ cstate'[d] = cstate[d] /\ up'[d] = up[d] /\ down'[d] = down[d]
        /\ cout'[d] = cout[d] /\ screen'[d] = screen[d] /\ link'[d] = link[d]
    BY <1>1, <1>2, <1>13 DEF TypeOK
  <2>2. ClientInv(d)
    BY DEF IInv
  <2>3. /\ Unlisted(d)' <=> Unlisted(d)
        /\ NotSentTo(d)' <=> NotSentTo(d)
    BY <1>2 DEF Unlisted, NotSentTo
  <2>4. Served(d) => Served(d)'
    BY <1>2, <2>1, <2>3 DEF Served
  <2>5. Fresh(d) => NotSentTo(d)
    BY DEF Fresh
  <2>6. cstate[d] = "START" => /\ \A s \in FD : fds'[s] # d
                               /\ \A i \in DOMAIN backlog' : backlog'[i] # d
    BY <1>2, <1>4, <1>13, <2>2 DEF ClientInv, Starts
  <2> QED BY <1>2, <2>1, <2>2, <2>3, <2>4, <2>5, <2>6, ClientKept
<1> QED BY <1>8, <1>9, <1>12, <1>13 DEF IInv

-----------------------------------------------------------------------------
(* The steps of the server.                                                *)

(* The server ends: what is left of it stays as it was.                    *)
LEMMA DiesStep ==
    ASSUME IInv, ServerDies, UNCHANGED clientVars,
           UNCHANGED <<backlog, fds, pollSet, list, buf, up, down>>
    PROVE  IInv'
<1> USE DEF clientVars
<1>1. TypeOK /\ ServerInv
  BY DEF IInv
<1>2. server' = "DEAD" /\ outbox' = <<>> /\ link' \in [Clients -> LinkState]
  <2>1. {"cut", "aborted"} \subseteq LinkState
    BY DEF LinkState
  <2> QED BY <1>1, <2>1 DEF ServerDies, CloseDown, TypeOK
<1>3. DOMAIN <<>> = {} /\ <<>> \in Seq(Action)
  BY Nil
<1>4. TypeOK'
  BY <1>1, <1>2, <1>3 DEF TypeOK
<1>5. ServerInv'
  BY <1>1, <1>2, <1>3 DEF ServerInv, Connected, HandlesDiffer, NodesAreOpen, OutboxIsOpen
<1>6. ASSUME NEW c \in Clients PROVE ClientInv(c)'
  <2>1. ClientInv(c)
    BY DEF IInv
  <2>2. Unlisted(c) => Unlisted(c)'
    BY DEF Unlisted
  <2> QED BY <1>2, <2>1, <2>2, ClientKept DEF ClientInv, Starts
<1> QED BY <1>4, <1>5, <1>6 DEF IInv

(* The lowest free descriptor.                                             *)
LEMMA Free ==
    ASSUME FreeFD # {}
    PROVE  Min(FreeFD) \in FD /\ Min(FreeFD) # ServerSocket /\ fds[Min(FreeFD)] = NoClient
<1>1. FreeFD \in SUBSET Nat
  BY FDTypes DEF FreeFD
<1>2. Min(FreeFD) \in FreeFD
  BY <1>1, Least
<1> QED BY <1>2 DEF FreeFD

(* accept: the new socket was nobody's.                                    *)
LEMMA AcceptStep ==
    ASSUME IInv, addNewClient, UNCHANGED clientVars
    PROVE  IInv'
<1> USE DEF clientVars
<1> DEFINE s == Min(FreeFD)
           c == Head(backlog)
<1>1. TypeOK /\ Connected /\ HandlesDiffer /\ NodesAreOpen
  BY DEF IInv, ServerInv
<1>2. s \in FD /\ s # ServerSocket /\ fds[s] = NoClient
  BY Free DEF addNewClient
<1>3. backlog # <<>> /\ outbox = <<>>
  BY DEF addNewClient, pollCall, Ready
<1>4. /\ c \in Clients /\ c = backlog[1] /\ 1 \in DOMAIN backlog
      /\ Tail(backlog) \in Seq(Clients)
      /\ \A i \in DOMAIN Tail(backlog) :
            i + 1 \in DOMAIN backlog /\ Tail(backlog)[i] = backlog[i + 1]
  <2>1. backlog \in Seq(Clients)
    BY <1>1 DEF TypeOK
  <2> QED BY <1>3, <2>1, Taken
<1> HIDE DEF s, c
<1>5. /\ fds' = [fds EXCEPT ![s] = c]
      /\ pollSet' = pollSet \cup {s}
      /\ backlog' = Tail(backlog)
      /\ UNCHANGED <<server, list, outbox, buf, link, up, down>>
  BY DEF addNewClient, streamVars, s, c
<1>6. TypeOK'
  BY <1>1, <1>2, <1>4, <1>5 DEF TypeOK
<1>7. \A i \in DOMAIN Tail(backlog) : i \in Nat /\ i + 1 # 1
  <2>1. DOMAIN Tail(backlog) \subseteq Nat \ {0}
    BY SMT, <1>4
  <2> QED BY SMT, <2>1
<1>8. \A t \in FD : fds'[t] = IF t = s THEN c ELSE fds[t]
  BY <1>1, <1>5 DEF TypeOK
<1>9. Connected'
  <2>1. \A i, j \in DOMAIN backlog' : backlog'[i] = backlog'[j] => i = j
    <3> SUFFICES ASSUME NEW i \in DOMAIN backlog', NEW j \in DOMAIN backlog',
                        backlog'[i] = backlog'[j]
                 PROVE  i = j
      OBVIOUS
    <3>1. i + 1 = j + 1
      BY <1>1, <1>4, <1>5 DEF Connected
    <3>2. i \in Nat /\ j \in Nat
      BY <1>5, <1>7
    <3> QED BY SMT, <3>1, <3>2
  <2>2. \A i \in DOMAIN backlog' : backlog'[i] # c /\ \A t \in FD : fds[t] # backlog'[i]
    BY <1>1, <1>4, <1>5, <1>7 DEF Connected
  <2>3. \A t \in FD : fds[t] # c
    BY <1>1, <1>4 DEF Connected
  <2> QED BY <1>1, <1>2, <1>8, <2>1, <2>2, <2>3, FDTypes DEF Connected
<1>10. \A i \in DOMAIN list : list[i].data # s /\ list[i].data \in FD
  BY <1>1, <1>2, NodeTypes DEF NodesAreOpen
<1>11. HandlesDiffer' /\ NodesAreOpen'
  BY <1>1, <1>5, <1>8, <1>10 DEF HandlesDiffer, NodesAreOpen
<1>12. DOMAIN outbox' = {} /\ outbox' = <<>>
  BY <1>3, <1>5, Nil
<1>13. ServerInv'
  BY <1>9, <1>11, <1>12 DEF ServerInv, OutboxIsOpen
<1>14. ASSUME NEW d \in Clients PROVE ClientInv(d)'
  <2>1. ClientInv(d)
    BY DEF IInv
  <2>2. Unlisted(d) => Unlisted(d)'
    BY <1>5, <1>8, <1>10 DEF Unlisted
  <2>3. NotSentTo(d)'
    BY <1>12 DEF NotSentTo
  <2>4. ~ Served(d)
    BY <1>3 DEF Served
  <2>5. cstate[d] = "START" => /\ \A t \in FD : fds'[t] # d
                               /\ \A i \in DOMAIN backlog' : backlog'[i] # d
    BY <1>4, <1>5, <1>8, <2>1 DEF ClientInv, Starts
  <2> QED BY <1>5, <2>1, <2>2, <2>3, <2>4, <2>5, ClientKept
<1> QED BY <1>6, <1>13, <1>14 DEF IInv

(* What pollCall found.                                                    *)
LEMMA Polled ==
    ASSUME IInv, NEW s \in FD, s # ServerSocket, pollCall(s)
    PROVE  /\ fds[s] \in Clients /\ s \in pollSet
           /\ server = "RUNNING" /\ outbox = <<>>
           /\ \A c \in Clients : NotSentTo(c) /\ ~ Served(c)
<1>1. fds[s] \in Clients /\ s \in pollSet /\ server = "RUNNING" /\ outbox = <<>>
  BY DEF pollCall, Ready, IInv, TypeOK
<1>2. DOMAIN outbox = {}
  BY <1>1, Nil
<1> QED BY <1>1, <1>2 DEF NotSentTo, Served

(* The clients, when the server reads from s and leaves the others alone.  *)
LEMMA OthersKept ==
    ASSUME IInv, NEW s \in FD, s # ServerSocket, pollCall(s), UNCHANGED clientVars,
           UNCHANGED <<server, backlog, fds, down>>,
           NEW c \in Clients, c # fds[s], link'[c] = link[c], up'[c] = up[c],
           \A i \in DOMAIN list' :
              \/ fds[list'[i].data] = fds[s]
              \/ \E j \in DOMAIN list : list'[i].data = list[j].data,
           \A i \in DOMAIN outbox' :
              \/ fds[outbox'[i].socket] = fds[s]
              \/ \E j \in DOMAIN list : outbox'[i].socket = list[j].data
    PROVE  ClientInv(c)'
<1>1. ClientInv(c)
  BY DEF IInv
<1>2. Unlisted(c) => Unlisted(c)'
  BY DEF Unlisted
<1>3. Fresh(c) => NotSentTo(c)'
  BY DEF Fresh, Unlisted, NotSentTo
<1>4. ~ Served(c)
  BY Polled
<1>5. /\ cstate'[c] = cstate[c] /\ down'[c] = down[c]
      /\ cout'[c] = cout[c] /\ screen'[c] = screen[c]
  BY DEF clientVars
<1>6. cstate[c] = "START" => /\ \A t \in FD : fds'[t] # c
                             /\ \A i \in DOMAIN backlog' : backlog'[i] # c
  BY <1>1 DEF ClientInv, Starts
<1> QED BY <1>1, <1>2, <1>3, <1>4, <1>5, <1>6, ClientKept

(* connectClient: a name is entered once, for a client that has none.      *)
LEMMA RegistersStep ==
    ASSUME IInv, NEW s \in FD, processClient(s), UNCHANGED clientVars,
           Head(up[fds[s]]).flag = "HELLO"
    PROVE  IInv'
<1> USE DEF clientVars
<1>0. PICK c \in Clients : c = fds[s]
  BY Polled DEF processClient
<1> DEFINE p == Head(up[c])
           free == getClientHandle(list, p.handle) = NULL
           node == [data |-> s, handle |-> p.handle]
           ok == Send(s, Command("OK"))
           no == Send(s, Command("IN_USE"))
<1>1. TypeOK /\ Connected /\ HandlesDiffer /\ NodesAreOpen
  BY DEF IInv, ServerInv
<1>2. /\ c \in Clients /\ s \in pollSet /\ server = "RUNNING" /\ outbox = <<>>
      /\ s # ServerSocket /\ pollCall(s) /\ ~ Served(c)
  BY <1>0, Polled DEF processClient
<1>3. ClientInv(c)
  BY <1>2 DEF IInv
<1>4. /\ up[c] # <<>> /\ buf' = p
      /\ up' = [up EXCEPT ![c] = Tail(up[c])]
      /\ UNCHANGED <<server, backlog, fds, pollSet, link, down>>
      /\ IF free THEN list' = Append(list, node) /\ outbox' = <<ok>>
         ELSE outbox' = <<no, Close(s)>> /\ UNCHANGED list
  BY <1>0 DEF processClient, RecvUp, connectClient, insertList
<1>5. /\ p \in PDU /\ p = up[c][1] /\ 1 \in DOMAIN up[c] /\ Tail(up[c]) \in Seq(PDU)
  BY <1>1, <1>2, <1>4, TypesOf, Taken
<1>6. /\ up[c] = <<Hello(c)>> /\ cout[c] = <<>> /\ Unlisted(c)
      /\ cstate[c] \notin {"POLL", "LIST", "DEAF", "in use"}
  BY <1>0, <1>3, <1>5 DEF ClientInv, Registers
<1>7. p = Hello(c) /\ Tail(up[c]) = <<>>
  <2>1. \A e : Head(<<e>>) = e /\ Tail(<<e>>) = <<>>
    BY SMT
  <2> QED BY <1>6, <2>1
<1>8. p.handle = name[c] /\ p.handle \in Handle
  BY <1>2, <1>7, HelloType, NameAssumption
<1>9. node \in Node(FD, Handle) /\ node.data = s /\ node.handle = name[c]
  BY <1>8 DEF Node
<1>10. /\ ok \in Action /\ ok.op = "send" /\ ok.socket = s
       /\ no \in Action /\ no.op = "send" /\ no.socket = s
       /\ Close(s) \in Action /\ Close(s).op = "close" /\ Close(s).socket = s
  BY SendTypes, PDUTypes DEF FLAG
<1>11. free => \A i \in DOMAIN list : list[i].handle # p.handle
  BY <1>1, Found DEF TypeOK
<1> HIDE DEF p, free, node, ok, no
<1>12. /\ Append(list, node) \in Seq(Node(FD, Handle))
       /\ \A i \in DOMAIN Append(list, node) :
             \/ i \in DOMAIN list /\ Append(list, node)[i] = list[i]
             \/ Append(list, node)[i] = node
       /\ \A i \in DOMAIN list : i \in DOMAIN Append(list, node)
  <2>1. list \in Seq(Node(FD, Handle))
    BY <1>1 DEF TypeOK
  <2> QED BY <1>9, <2>1, Added
<1>13. \A e, f : /\ DOMAIN <<e>> = {1} /\ <<e>>[1] = e
                 /\ DOMAIN <<e, f>> = {1, 2} /\ <<e, f>>[1] = e /\ <<e, f>>[2] = f
                 /\ Len(<<e, f>>) = 2 /\ 1 # 2
                 /\ \A S : e \in S /\ f \in S => <<e>> \in Seq(S) /\ <<e, f>> \in Seq(S)
  BY SMT
<1>14. /\ outbox' \in Seq(Action)
       /\ \A i \in DOMAIN outbox' :
             /\ outbox'[i].socket = s
             /\ outbox'[i].op = "close" => i = Len(outbox') /\ ~ free
  <2>1. CASE free
    <3>1. outbox' = <<ok>>
      BY <1>4, <2>1
    <3>2. <<ok>> \in Seq(Action) /\ \A i \in DOMAIN <<ok>> : <<ok>>[i] = ok
      BY SMT, <1>10
    <3> QED BY <1>10, <3>1, <3>2
  <2>2. CASE ~ free
    <3> DEFINE end == Close(s)
    <3>1. outbox' = <<no, end>> /\ end \in Action /\ end.socket = s
      BY <1>4, <1>10, <2>2
    <3> HIDE DEF end
    <3>2. /\ <<no, end>> \in Seq(Action)
          /\ \A i \in DOMAIN <<no, end>> :
                <<no, end>>[i] = IF i = Len(<<no, end>>) THEN end ELSE no
      BY SMT, <1>10, <3>1
    <3> QED BY <1>10, <2>2, <3>1, <3>2
  <2> QED BY <2>1, <2>2
<1>15. TypeOK'
  BY <1>1, <1>2, <1>4, <1>5, <1>12, <1>14 DEF TypeOK
<1>16. \A i \in DOMAIN list : list[i].data # s
  BY <1>0, <1>6 DEF Unlisted
<1>17. HandlesDiffer' /\ NodesAreOpen'
  <2>1. CASE free
    <3>1. \A i \in DOMAIN list' :
             \/ i \in DOMAIN list /\ list'[i] = list[i]
             \/ list'[i] = node
      BY <1>4, <1>12, <2>1
    <3>2. \A i, j \in DOMAIN list' : list'[i] = node /\ list'[j] = node => i = j
      <4>1. list \in Seq(Node(FD, Handle))
        BY <1>1 DEF TypeOK
      <4>2. \A i \in DOMAIN list : list[i] # node
        BY <1>9, <1>16
      <4>3. list' = Append(list, node)
        BY <1>4, <2>1
      <4> QED BY SMT, <4>1, <4>2, <4>3
    <3>3. \A i \in DOMAIN list : list[i].handle # node.handle
      BY <1>8, <1>9, <1>11, <2>1
    <3>4. HandlesDiffer'
      BY <1>1, <3>1, <3>2, <3>3 DEF HandlesDiffer
    <3>5. NodesAreOpen'
      BY <1>0, <1>1, <1>2, <1>4, <1>9, <1>16, <3>1, <3>2, NoneAssumption DEF NodesAreOpen
    <3> QED BY <3>4, <3>5
  <2>2. CASE ~ free
    BY <1>1, <1>4, <2>2 DEF HandlesDiffer, NodesAreOpen
  <2> QED BY <2>1, <2>2
<1>18. OutboxIsOpen'
  BY <1>0, <1>2, <1>4, <1>14, <1>16, NoneAssumption DEF OutboxIsOpen
<1>19. ServerInv'
  BY <1>1, <1>4, <1>17, <1>18 DEF ServerInv, Connected
<1>20. ClientInv(c)'
  <2>1. /\ up'[c] = <<>> /\ cout'[c] = <<>> /\ down'[c] = down[c] /\ link'[c] = link[c]
        /\ cstate'[c] = cstate[c] /\ screen'[c] = screen[c] /\ fds' = fds
    BY <1>1, <1>2, <1>4, <1>6, <1>7 DEF TypeOK
  <2>2. cstate[c] # "START" /\ cstate[c] # "in use"
    BY <1>3, <1>4, <1>6 DEF ClientInv, Starts
  <2>3. Registers(c)'
    BY <2>1, Nil DEF Registers
  <2>4. cstate[c] = "CONF" => down[c] = <<>> /\ link[c] = "up"
    <3>1. ~ Answered(c)
      BY <1>4 DEF Answered
    <3> QED BY <1>2, <1>3, <3>1 DEF ClientInv, Waits
  <2>5. ~ free => Unlisted(c)'
    BY <1>4, <1>6 DEF Unlisted
  <2>6. Served(c)'
    <3>1. fds'[s] = c
      BY <1>0, <2>1
    <3> QED BY <1>4, <2>1, <2>5, <3>1 DEF Served, ok, no
  <2>7. Refused(c)'
    BY <1>3, <2>1, <2>2 DEF ClientInv, Refused
  <2> QED BY <2>1, <2>2, <2>3, <2>4, <2>6, <2>7 DEF ClientInv, Starts, Waits
<1>21. ASSUME NEW d \in Clients, d # c PROVE ClientInv(d)'
  <2>1. link'[d] = link[d] /\ up'[d] = up[d]
    BY <1>1, <1>2, <1>4, <1>21 DEF TypeOK
  <2>2. \A i \in DOMAIN list' :
           \/ fds[list'[i].data] = fds[s]
           \/ \E j \in DOMAIN list : list'[i].data = list[j].data
    BY <1>4, <1>9, <1>12
  <2>3. \A i \in DOMAIN outbox' : fds[outbox'[i].socket] = fds[s]
    BY <1>14
  <2> QED BY <1>2, <1>4, <1>21, <2>1, <2>2, <2>3, <1>0, OthersKept
<1> QED BY <1>15, <1>19, <1>20, <1>21 DEF IInv

(* A PDU that is not a name: the answers go to its client and to the list. *)
LEMMA HandlesStep ==
    ASSUME IInv, NEW s \in FD, processClient(s), UNCHANGED clientVars,
           Head(up[fds[s]]).flag # "HELLO"
    PROVE  IInv'
<1> USE DEF clientVars
<1>0. PICK c \in Clients : c = fds[s]
  BY Polled DEF processClient
<1> DEFINE p == Head(up[c])
           rest == Tail(up[c])
<1>1. TypeOK /\ Connected /\ HandlesDiffer /\ NodesAreOpen
  BY DEF IInv, ServerInv
<1>2. /\ c \in Clients /\ s \in pollSet /\ server = "RUNNING" /\ outbox = <<>>
      /\ s # ServerSocket /\ pollCall(s) /\ ~ Served(c)
  BY <1>0, Polled DEF processClient
<1>3. ClientInv(c)
  BY <1>2 DEF IInv
<1>4. /\ up[c] # <<>> /\ buf' = p
      /\ up' = [up EXCEPT ![c] = rest]
      /\ UNCHANGED <<server, backlog, fds, pollSet, link, down, list>>
      /\ outbox' = Handler(s, p)
  BY <1>0 DEF processClient, RecvUp
<1>5. /\ p \in PDU /\ p = up[c][1] /\ 1 \in DOMAIN up[c] /\ rest \in Seq(PDU)
      /\ \A i \in DOMAIN rest : i + 1 \in DOMAIN up[c] /\ rest[i] = up[c][i + 1]
  BY <1>1, <1>2, <1>4, TypesOf, Taken
<1>6. p.flag \in Asked \ {"HELLO"}
  BY <1>0, <1>3, <1>5 DEF ClientInv, Registers
<1> HIDE DEF p, rest
<1>7. outbox' \in Seq(Within(s))
  BY <1>1, <1>4, <1>5, <1>6, HandlerSends DEF TypeOK
<1>8. \A i \in DOMAIN outbox' : outbox'[i] \in Within(s)
  BY <1>7, ElementOfSeq, LenProperties
<1>9. /\ outbox' \in Seq(Action)
      /\ \A i \in DOMAIN outbox' :
            /\ outbox'[i].op = "send"
            /\ \/ outbox'[i].socket = s
               \/ \E j \in DOMAIN list : outbox'[i].socket = list[j].data
  <2>1. \A t \in Seq(Within(s)) : t \in Seq(Action)
    <3>1. Within(s) \subseteq Action
      BY DEF Within
    <3> QED BY SMT, <3>1
  <2> QED BY <1>7, <1>8, <2>1 DEF Within
<1>10. TypeOK'
  BY <1>1, <1>2, <1>4, <1>5, <1>9 DEF TypeOK
<1>11. OutboxIsOpen'
  BY <1>0, <1>1, <1>2, <1>4, <1>9, NoneAssumption DEF OutboxIsOpen, NodesAreOpen
<1>12. ServerInv'
  BY <1>1, <1>4, <1>11 DEF ServerInv, Connected, HandlesDiffer, NodesAreOpen
<1>13. ClientInv(c)'
  <2>1. /\ up'[c] = rest /\ cout'[c] = cout[c] /\ down'[c] = down[c] /\ link'[c] = link[c]
        /\ cstate'[c] = cstate[c] /\ screen'[c] = screen[c] /\ fds' = fds
    BY <1>1, <1>2, <1>4 DEF TypeOK
  <2>2. cstate[c] \notin {"START", "in use"}
    BY <1>3, <1>4 DEF ClientInv, Starts, Refused
  <2>3. \A i \in DOMAIN up[c] : up[c][i].flag # "HELLO"
    <3> SUFFICES ASSUME NEW i \in DOMAIN up[c], up[c][i].flag = "HELLO" PROVE FALSE
      OBVIOUS
    <3>1. up[c] = <<Hello(c)>>
      BY <1>3 DEF ClientInv, Registers
    <3>2. p = Hello(c)
      BY <3>1 DEF p
    <3> QED BY <1>2, <1>6, <3>2, HelloType
  <2>4. \A i \in DOMAIN cout[c] : cout[c][i].flag # "HELLO"
    BY <1>3, <1>4 DEF ClientInv, Registers
  <2>5. Registers(c)'
    <3>1. \A i \in DOMAIN up'[c] : up'[c][i].flag \in Asked \ {"HELLO"}
      BY <1>3, <1>5, <2>1, <2>3 DEF ClientInv, Registers
    <3> QED BY <1>3, <2>1, <2>4, <3>1 DEF ClientInv, Registers
  <2>6. cstate[c] # "CONF"
    <3>1. up[c] # <<Hello(c)>>
      <4>1. \A e : 1 \in DOMAIN <<e>> /\ <<e>>[1] = e
        BY SMT
      <4> QED BY <1>2, <2>3, <4>1, HelloType
    <3>2. ~ Answered(c) /\ ~ Fresh(c)
      BY <1>4, <3>1 DEF Answered, Fresh
    <3> QED BY <1>2, <1>3, <3>2 DEF ClientInv, Waits
  <2> QED BY <2>1, <2>2, <2>5, <2>6 DEF ClientInv, Starts, Waits, Refused
<1>14. ASSUME NEW d \in Clients, d # c PROVE ClientInv(d)'
  <2>1. link'[d] = link[d] /\ up'[d] = up[d]
    BY <1>1, <1>2, <1>4, <1>14 DEF TypeOK
  <2>2. \A i \in DOMAIN outbox' :
           \/ fds[outbox'[i].socket] = fds[s]
           \/ \E j \in DOMAIN list : outbox'[i].socket = list[j].data
    BY <1>9
  <2> QED BY <1>2, <1>4, <1>14, <2>1, <2>2, <1>0, OthersKept
<1> QED BY <1>10, <1>12, <1>13, <1>14 DEF IInv

(* recv fails, and the PDU that is left in the buffer is handled again.    *)
LEMMA RecvFailsStep ==
    ASSUME IInv, NEW s \in FD, RecvFailsGoesOn(s), UNCHANGED clientVars
    PROVE  IInv'
<1> USE DEF clientVars
<1>0. PICK c \in Clients : c = fds[s]
  BY Polled DEF RecvFailsGoesOn, RecvFails, AtEnd
<1>1. TypeOK /\ Connected /\ HandlesDiffer /\ NodesAreOpen
  BY DEF IInv, ServerInv
<1>2. /\ c \in Clients /\ server = "RUNNING" /\ outbox = <<>>
      /\ s # ServerSocket /\ pollCall(s) /\ ~ Served(c) /\ NotSentTo(c)
  BY <1>0, Polled DEF RecvFailsGoesOn, RecvFails, AtEnd
<1>3. ClientInv(c)
  BY <1>2 DEF IInv
<1>4. /\ link[c] = "reset"
      /\ link' = [link EXCEPT ![c] = "bounced"]
      /\ UNCHANGED <<server, backlog, fds, pollSet, list, buf, up, down>>
      /\ \/ outbox' = <<>>
         \/ buf.flag \in {"BROADCAST", "MESSAGE"} /\ outbox' = Handler(s, buf)
  BY <1>0 DEF RecvFailsGoesOn, RecvFails
<1>5. outbox' \in Seq(Within(s))
  <2>1. buf \in PDU /\ list \in Seq(Node(FD, Handle))
    BY <1>1 DEF TypeOK
  <2>2. {"BROADCAST", "MESSAGE"} \subseteq Asked \ {"HELLO"}
    BY DEF Asked
  <2> QED BY <1>4, <2>1, <2>2, HandlerSends, Nil
<1>6. \A i \in DOMAIN outbox' : outbox'[i] \in Within(s)
  BY <1>5, ElementOfSeq, LenProperties
<1>7. /\ outbox' \in Seq(Action)
      /\ \A i \in DOMAIN outbox' :
            /\ outbox'[i].op = "send"
            /\ \/ outbox'[i].socket = s
               \/ \E j \in DOMAIN list : outbox'[i].socket = list[j].data
  <2>1. \A t \in Seq(Within(s)) : t \in Seq(Action)
    <3>1. Within(s) \subseteq Action
      BY DEF Within
    <3> QED BY SMT, <3>1
  <2> QED BY <1>5, <1>6, <2>1 DEF Within
<1>8. TypeOK'
  <2>1. "bounced" \in LinkState
    BY DEF LinkState
  <2> QED BY <1>1, <1>4, <1>7, <2>1 DEF TypeOK
<1>9. OutboxIsOpen'
  BY <1>0, <1>1, <1>2, <1>4, <1>7, NoneAssumption DEF OutboxIsOpen, NodesAreOpen
<1>10. ServerInv'
  BY <1>1, <1>4, <1>9 DEF ServerInv, Connected, HandlesDiffer, NodesAreOpen
<1>11. ClientInv(c)'
  <2>1. cstate[c] = "CONF" => down[c] # <<>>
    BY <1>2, <1>3, <1>4 DEF ClientInv, Waits
  <2>2. Unlisted(c) => Unlisted(c)'
    BY <1>4 DEF Unlisted
  <2>3. cstate[c] = "START" => /\ \A t \in FD : fds'[t] # c
                               /\ \A i \in DOMAIN backlog' : backlog'[i] # c
    BY <1>3, <1>4 DEF ClientInv, Starts
  <2> QED BY <1>2, <1>3, <1>4, <2>1, <2>2, <2>3, ClientKept
<1>12. ASSUME NEW d \in Clients, d # c PROVE ClientInv(d)'
  <2>1. link'[d] = link[d] /\ up'[d] = up[d]
    BY <1>1, <1>2, <1>4, <1>12 DEF TypeOK
  <2>2. \A i \in DOMAIN outbox' :
           \/ fds[outbox'[i].socket] = fds[s]
           \/ \E j \in DOMAIN list : outbox'[i].socket = list[j].data
    BY <1>7
  <2> QED BY <1>2, <1>4, <1>12, <2>1, <2>2, <1>0, OthersKept
<1> QED BY <1>8, <1>10, <1>11, <1>12 DEF IInv

(* The node of a client that has gone is its only one, and goes with it.   *)
LEMMA GoneStep ==
    ASSUME IInv, NEW s \in FD, ClientGone(s), UNCHANGED clientVars
    PROVE  IInv'
<1> USE DEF clientVars
<1>1. TypeOK /\ Connected /\ HandlesDiffer /\ NodesAreOpen
  BY DEF IInv, ServerInv
<1>2. server = "RUNNING" /\ outbox = <<>> /\ s # ServerSocket
  BY Polled DEF ClientGone, AtEnd
<1>3. /\ list' = removeList(list, s)
      /\ fds' = [fds EXCEPT ![s] = NoClient]
      /\ pollSet' = pollSet \ {s}
      /\ UNCHANGED <<server, backlog, outbox, buf, link, up, down>>
  BY DEF ClientGone, streamVars
<1>4. list \in Seq(Node(FD, Handle))
  BY <1>1 DEF TypeOK
<1>5. PICK f \in [DOMAIN list' -> DOMAIN list] :
         /\ \A k \in DOMAIN list' : list'[k] = list[f[k]]
         /\ \A k, l \in DOMAIN list' : f[k] = f[l] => k = l
         /\ \A k \in DOMAIN list' : f[k] # getClientSocket(list, s)
  BY <1>3, <1>4, Removed
<1>6. \A k \in DOMAIN list' : list'[k].data # s
  <2> DEFINE i == getClientSocket(list, s)
  <2>1. /\ i = NULL => \A j \in DOMAIN list : list[j].data # s
        /\ i # NULL => i \in DOMAIN list /\ list[i].data = s
    BY <1>4, FoundSocket
  <2>2. \A k \in DOMAIN list' : f[k] \in DOMAIN list /\ f[k] # i
    BY <1>5
  <2> HIDE DEF i
  <2> QED BY <1>1, <1>5, <2>1, <2>2 DEF NodesAreOpen
<1>7. \A t \in FD : fds'[t] = IF t = s THEN NoClient ELSE fds[t]
  BY <1>1, <1>3 DEF TypeOK
<1>8. \A k \in DOMAIN list' : f[k] \in DOMAIN list /\ list'[k].data \in FD
  BY <1>1, <1>5, NodeTypes
<1>9. list' \in Seq(Node(FD, Handle))
  BY <1>3, <1>4, Removed
<1>10. TypeOK'
  BY <1>1, <1>3, <1>9 DEF TypeOK
<1>11. DOMAIN outbox' = {} /\ outbox' = <<>>
  BY <1>2, <1>3, Nil
<1>12. Connected'
  BY <1>1, <1>2, <1>3, <1>7, FDTypes, NoneAssumption DEF Connected, TypeOK
<1>13. HandlesDiffer'
  BY <1>1, <1>5, <1>8 DEF HandlesDiffer
<1>14. NodesAreOpen'
  BY <1>1, <1>3, <1>5, <1>6, <1>7, <1>8 DEF NodesAreOpen
<1>15. ServerInv'
  BY <1>11, <1>12, <1>13, <1>14 DEF ServerInv, OutboxIsOpen
<1>16. ASSUME NEW c \in Clients PROVE ClientInv(c)'
  <2>1. ClientInv(c)
    BY DEF IInv
  <2>2. Unlisted(c) => Unlisted(c)'
    BY <1>5, <1>6, <1>7, <1>8 DEF Unlisted
  <2>3. NotSentTo(c)'
    BY <1>11 DEF NotSentTo
  <2>4. ~ Served(c)
    BY <1>2 DEF Served
  <2>5. cstate[c] = "START" => /\ \A t \in FD : fds'[t] # c
                               /\ \A i \in DOMAIN backlog' : backlog'[i] # c
    BY <1>3, <1>7, <2>1, NoneAssumption DEF ClientInv, Starts
  <2> QED BY <1>3, <2>1, <2>2, <2>3, <2>4, <2>5, ClientKept
<1> QED BY <1>10, <1>15, <1>16 DEF IInv

(* What is sent to a client that waits for the answer to its name is that  *)
(* answer.                                                                 *)
LEMMA SendsStep ==
    ASSUME IInv, SendTo, UNCHANGED clientVars
    PROVE  IInv'
<1> USE DEF clientVars
<1> DEFINE a == Head(outbox)
           rest == Tail(outbox)
<1>1. TypeOK /\ ServerInv
  BY DEF IInv
<1>2. /\ server = "RUNNING" /\ outbox # <<>> /\ a.op = "send"
      /\ outbox' = rest
      /\ UNCHANGED <<server, backlog, fds, pollSet, list, buf, up>>
  BY DEF SendTo, Sending, SendDown
<1>3. PICK c : c = fds[a.socket] /\ c # NoClient /\ SendDown(c, a.pdu)
  BY DEF SendTo
<1>4. outbox \in Seq(Action)
  BY <1>1 DEF TypeOK
<1>5. /\ a \in Action /\ a = outbox[1] /\ 1 \in DOMAIN outbox /\ rest \in Seq(Action)
      /\ \A i \in DOMAIN rest : i + 1 \in DOMAIN outbox /\ rest[i] = outbox[i + 1]
  BY <1>2, <1>4, Taken
<1>6. Len(outbox) = Len(rest) + 1 /\ Len(rest) \in Nat /\ DOMAIN rest \subseteq Nat
  BY SMT, <1>2, <1>4
<1>7. a.socket \in FD /\ a.pdu \in PDU
  BY <1>5 DEF Action
<1>8. c \in Clients
  BY <1>1, <1>3, <1>7 DEF TypeOK
<1> DEFINE p == a.pdu
<1>9. /\ Append(down[c], p) \in Seq(PDU) /\ Append(down[c], p) # <<>>
      /\ Head(Append(down[c], p)) = IF down[c] = <<>> THEN p ELSE Head(down[c])
  BY <1>1, <1>7, <1>8, TypesOf, Added
<1> HIDE DEF a, rest
<1>10. \/ /\ link[c] = "up" /\ link' = link
          /\ down' = [down EXCEPT ![c] = Append(down[c], p)]
       \/ /\ link[c] = "fin" /\ down' = down
          /\ \E l \in {"fin", "bounced"} : link' = [link EXCEPT ![c] = l]
  BY <1>3 DEF SendDown
<1> HIDE DEF p
<1>11. TypeOK'
  <2>1. {"fin", "bounced"} \subseteq LinkState
    BY DEF LinkState
  <2> QED BY <1>1, <1>2, <1>5, <1>8, <1>9, <1>10, <2>1 DEF TypeOK
<1>12. OutboxIsOpen'
  <2> SUFFICES ASSUME NEW i \in DOMAIN outbox'
               PROVE  /\ fds'[outbox'[i].socket] # NoClient
                      /\ outbox'[i].op = "close" =>
                            /\ i = Len(outbox')
                            /\ \A j \in DOMAIN list' : list'[j].data # outbox'[i].socket
    BY DEF OutboxIsOpen
  <2>1. i + 1 \in DOMAIN outbox /\ outbox'[i] = outbox[i + 1]
    BY <1>2, <1>5
  <2>2. i + 1 = Len(outbox) => i = Len(outbox')
    BY SMT, <1>2, <1>6
  <2> QED BY <1>1, <1>2, <2>1, <2>2 DEF ServerInv, OutboxIsOpen
<1>13. ServerInv'
  BY <1>1, <1>2, <1>12 DEF ServerInv, Connected, HandlesDiffer, NodesAreOpen
<1>14. \A e, f : /\ Head(<<e>>) = e /\ Head(<<e, f>>) = e
  BY SMT
<1>15. ClientInv(c)'
  <2>1. ClientInv(c)
    BY <1>8 DEF IInv
  <2>2. ~ NotSentTo(c)
    BY <1>3, <1>5 DEF NotSentTo
  <2>3. ~ Fresh(c)
    BY <2>2 DEF Fresh
  <2>4. Unlisted(c)' <=> Unlisted(c)
    BY <1>2 DEF Unlisted
  <2>5. cstate[c] # "START"
    BY <1>3, <1>7, <2>1 DEF ClientInv, Starts
  <2>6. \A i \in DOMAIN cout[c] : cout[c][i].flag # "HELLO"
    <3> SUFFICES ASSUME NEW i \in DOMAIN cout[c], cout[c][i].flag = "HELLO" PROVE FALSE
      OBVIOUS
    <3>1. cstate[c] = "CONF" /\ down[c] = <<>> /\ cout[c] = <<Hello(c)>>
      BY <2>1 DEF ClientInv, Registers
    <3>2. Served(c)
      BY <1>2, <2>1, <2>3, <3>1 DEF ClientInv, Waits
    <3>3. cout[c] = <<>>
      BY <3>2 DEF Served
    <3> QED BY <3>3, Nil
  <2>7. Registers(c)'
    BY <1>2, <2>1, <2>4, <2>6 DEF ClientInv, Registers
  <2>8. Refused(c)'
    BY <1>2, <2>1, <2>4 DEF ClientInv, Refused
  <2>9. ASSUME cstate[c] = "CONF" PROVE down'[c] # <<>> /\ Answered(c)'
    <3>1. CASE down[c] # <<>>
      <4>1. Answered(c)
        BY <2>1, <2>9, <3>1 DEF ClientInv, Waits
      <4>2. down'[c] # <<>> /\ Head(down'[c]) = Head(down[c])
        BY <1>1, <1>8, <1>9, <1>10, <3>1 DEF TypeOK
      <4> QED BY <1>2, <2>4, <4>1, <4>2 DEF Answered
    <3>2. CASE down[c] = <<>>
      <4>1. link[c] = "up" /\ Served(c)
        BY <1>2, <2>1, <2>3, <2>9, <3>2 DEF ClientInv, Waits
      <4>2. down'[c] # <<>> /\ Head(down'[c]) = p
        BY <1>1, <1>8, <1>9, <1>10, <3>2, <4>1 DEF TypeOK
      <4>3. PICK s \in FD :
               \/ outbox = <<Send(s, Command("OK"))>>
               \/ outbox = <<Send(s, Command("IN_USE")), Close(s)>> /\ Unlisted(c)
        BY <4>1 DEF Served
      <4>4. \/ p = Command("OK")
            \/ p = Command("IN_USE") /\ Unlisted(c)
        <5>1. \/ a = Send(s, Command("OK"))
              \/ a = Send(s, Command("IN_USE")) /\ Unlisted(c)
          BY <1>14, <4>3 DEF a
        <5> QED BY <5>1 DEF Send, p
      <4>5. \/ p.flag = "OK"
            \/ p.flag = "IN_USE" /\ Unlisted(c)
        BY <4>4, PDUTypes DEF FLAG
      <4>6. up[c] = <<>> /\ cout[c] = <<>>
        BY <4>1 DEF Served
      <4> QED BY <1>2, <2>4, <4>2, <4>5, <4>6 DEF Answered
    <3> QED BY <3>1, <3>2
  <2>10. Waits(c)'
    BY <2>9 DEF Waits
  <2> QED BY <2>5, <2>7, <2>8, <2>10 DEF ClientInv, Starts
<1>16. ASSUME NEW d \in Clients, d # c PROVE ClientInv(d)'
  <2>1. ClientInv(d)
    BY DEF IInv
  <2>2. link'[d] = link[d] /\ down'[d] = down[d]
    BY <1>1, <1>8, <1>10, <1>16 DEF TypeOK
  <2>3. Unlisted(d) => Unlisted(d)'
    BY <1>2 DEF Unlisted
  <2>4. NotSentTo(d) => NotSentTo(d)'
    BY <1>2, <1>5 DEF NotSentTo
  <2>5. ~ Served(d)
    <3> SUFFICES ASSUME Served(d) PROVE FALSE
      OBVIOUS
    <3>1. PICK s \in FD :
             /\ fds[s] = d
             /\ \/ outbox = <<Send(s, Command("OK"))>>
                \/ outbox = <<Send(s, Command("IN_USE")), Close(s)>>
      BY DEF Served
    <3>2. a = Send(s, Command("OK")) \/ a = Send(s, Command("IN_USE"))
      BY <1>14, <3>1 DEF a
    <3>3. a.socket = s
      BY <3>2 DEF Send
    <3> QED BY <1>3, <1>16, <3>1, <3>3
  <2>6. cstate[d] = "START" => /\ \A t \in FD : fds'[t] # d
                               /\ \A i \in DOMAIN backlog' : backlog'[i] # d
    BY <1>2, <2>1 DEF ClientInv, Starts
  <2>7. Fresh(d) => NotSentTo(d)
    BY DEF Fresh
  <2> QED BY <1>2, <2>1, <2>2, <2>3, <2>4, <2>5, <2>6, <2>7, ClientKept
<1> QED BY <1>11, <1>13, <1>15, <1>16 DEF IInv

(* The socket of a client that was refused is closed; no node has it.      *)
LEMMA ClosesStep ==
    ASSUME IInv, CloseSocket, UNCHANGED clientVars
    PROVE  IInv'
<1> USE DEF clientVars
<1>1. TypeOK /\ ServerInv
  BY DEF IInv
<1>2. outbox \in Seq(Action) /\ outbox # <<>> /\ Head(outbox).op = "close"
  BY <1>1 DEF TypeOK, CloseSocket, Sending
<1>3. PICK s : s = Head(outbox).socket
  OBVIOUS
<1>4. /\ pollSet' = pollSet \ {s}
      /\ CloseDown({fds[s]}, {})
      /\ fds' = [fds EXCEPT ![s] = NoClient]
      /\ outbox' = Tail(outbox)
      /\ UNCHANGED <<server, backlog, list, buf, up, down>>
  BY <1>3 DEF CloseSocket
<1>5. Head(outbox) = outbox[1] /\ 1 \in DOMAIN outbox /\ Head(outbox) \in Action
  BY <1>2, Taken
<1>6. s \in FD
  BY <1>3, <1>5 DEF Action
<1>7. Len(outbox) = 1 /\ \A j \in DOMAIN list : list[j].data # s
  BY <1>1, <1>2, <1>3, <1>5 DEF ServerInv, OutboxIsOpen
<1>8. outbox' = <<>> /\ DOMAIN outbox' = {} /\ outbox' \in Seq(Action)
  <2>1. Tail(outbox) \in Seq(Action) /\ Len(Tail(outbox)) = 0
    BY SMT, <1>2, <1>7, HeadTailProperties
  <2>2. Tail(outbox) = <<>>
    BY <2>1, EmptySeq
  <2> QED BY <1>4, <2>2, Nil
<1>9. link' \in [Clients -> LinkState]
      /\ \A d \in Clients : d # fds[s] => link'[d] = link[d]
  <2>1. {"cut", "aborted"} \subseteq LinkState
    BY DEF LinkState
  <2> QED BY <1>1, <1>4, <2>1 DEF CloseDown, TypeOK
<1>10. TypeOK'
  BY <1>1, <1>4, <1>8, <1>9 DEF TypeOK
<1>11. \A t \in FD : fds'[t] = IF t = s THEN NoClient ELSE fds[t]
  BY <1>1, <1>4 DEF TypeOK
<1>12. \A i \in DOMAIN list : list[i].data \in FD /\ list[i].data # s
  BY <1>1, <1>7, NodeTypes
<1>13. ServerInv'
  <2>1. Connected'
    BY <1>1, <1>4, <1>11, FDTypes, NoneAssumption DEF ServerInv, Connected, TypeOK
  <2>2. HandlesDiffer' /\ NodesAreOpen'
    BY <1>1, <1>4, <1>11, <1>12 DEF ServerInv, HandlesDiffer, NodesAreOpen
  <2> QED BY <1>8, <2>1, <2>2 DEF ServerInv, OutboxIsOpen
<1>14. ASSUME NEW c \in Clients PROVE ClientInv(c)'
  <2>1. ClientInv(c)
    BY DEF IInv
  <2>2. Unlisted(c) => Unlisted(c)'
    BY <1>4, <1>11, <1>12 DEF Unlisted
  <2>3. NotSentTo(c)'
    BY <1>8 DEF NotSentTo
  <2>4. ~ Served(c)
    <3> SUFFICES ASSUME Served(c) PROVE FALSE
      OBVIOUS
    <3>1. PICK t \in FD :
             \/ outbox = <<Send(t, Command("OK"))>>
             \/ outbox = <<Send(t, Command("IN_USE")), Close(t)>>
      BY DEF Served
    <3>2. \A e, f : /\ Head(<<e>>) = e /\ Head(<<e, f>>) = e
      BY SMT
    <3>3. Head(outbox) = Send(t, Command("OK")) \/ Head(outbox) = Send(t, Command("IN_USE"))
      BY <3>1, <3>2
    <3>4. Head(outbox).op = "send"
      BY <3>3 DEF Send
    <3> QED BY <1>2, <3>4
  <2>5. cstate[c] = "START" => /\ \A t \in FD : fds'[t] # c
                               /\ \A i \in DOMAIN backlog' : backlog'[i] # c
    BY <1>4, <1>11, <2>1, NoneAssumption DEF ClientInv, Starts
  <2>6. CASE c # fds[s]
    BY <1>4, <1>9, <2>1, <2>2, <2>3, <2>4, <2>5, <2>6, ClientKept
  <2>7. CASE c = fds[s]
    <3>1. ~ NotSentTo(c)
      BY <1>3, <1>5, <2>7 DEF NotSentTo
    <3>2. ~ Fresh(c)
      BY <3>1 DEF Fresh
    <3>3. cstate[c] = "CONF" => down[c] # <<>>
      BY <2>1, <2>4, <3>2 DEF ClientInv, Waits, CloseSocket, Sending
    <3> QED BY <1>4, <2>1, <2>2, <2>5, <3>3, ClientKept
  <2> QED BY <2>6, <2>7
<1> QED BY <1>10, <1>13, <1>14 DEF IInv

(* Every step of the server.                                               *)
LEMMA ServerKeeps ==
    ASSUME IInv, ServerStep, UNCHANGED clientVars
    PROVE  IInv'
<1>1. CASE addNewClient
  BY <1>1, AcceptStep
<1>2. CASE AcceptFails
  BY <1>2, DiesStep DEF AcceptFails
<1>3. CASE \E s \in FD : processClient(s)
  BY <1>3, RegistersStep, HandlesStep
<1>4. CASE \E s \in FD : ClientGone(s)
  BY <1>4, GoneStep
<1>5. CASE \E s \in FD : StrangerGone(s) \/ RecvFailsEnds(s)
  BY <1>5, DiesStep DEF StrangerGone, RecvFailsEnds
<1>6. CASE \E s \in FD : RecvFailsGoesOn(s)
  BY <1>6, RecvFailsStep
<1>7. CASE SendTo
  BY <1>7, SendsStep
<1>8. CASE SendToFails
  BY <1>8, DiesStep DEF SendToFails
<1>9. CASE CloseSocket
  BY <1>9, ClosesStep
<1> QED BY <1>1, <1>2, <1>3, <1>4, <1>5, <1>6, <1>7, <1>8, <1>9 DEF ServerStep

-----------------------------------------------------------------------------
(* The theorems.                                                           *)

(* The inductive invariant is inductive.                                   *)
LEMMA StepKeeps == IInv /\ [Next]_vars => IInv'
<1> SUFFICES ASSUME IInv, [Next]_vars PROVE IInv'
  OBVIOUS
<1>1. CASE ServerStep /\ UNCHANGED clientVars
  BY <1>1, ServerKeeps
<1>2. CASE \E c \in Clients : Arrive(c)
  BY <1>2, ArriveStep
<1>3. ASSUME NEW c \in Clients, UNCHANGED serverVars,
             \/ ClientStep(c)
             \/ Types(c)
             \/ server = "DEAD" /\ ConnectFails(c)
             \/ MayStop /\ Interrupt(c)
             \/ MayHangUp /\ StdinEnds(c)
      PROVE  IInv'
  BY <1>3, ClientsStep
<1>4. CASE UNCHANGED vars
  <2> USE <1>4 DEF vars, streamVars, serverVars, clientVars
  <2>1. TypeOK'
    BY DEF IInv, TypeOK
  <2>2. ServerInv'
    BY DEF IInv, ServerInv, Connected, HandlesDiffer, NodesAreOpen, OutboxIsOpen
  <2>3. ASSUME NEW c \in Clients PROVE ClientInv(c)'
    <3>1. ClientInv(c)
      BY DEF IInv
    <3>2. /\ Unlisted(c) => Unlisted(c)'
          /\ NotSentTo(c) => NotSentTo(c)'
      BY DEF Unlisted, NotSentTo
    <3>3. Served(c) => Served(c)'
      BY <3>2 DEF Served
    <3>4. Fresh(c) => NotSentTo(c)'
      BY <3>2 DEF Fresh
    <3> QED BY <3>1, <3>2, <3>3, <3>4, ClientKept DEF ClientInv, Starts
  <2> QED BY <2>1, <2>2, <2>3 DEF IInv
<1> QED BY <1>1, <1>2, <1>3, <1>4 DEF Next

(* Whatever clients, users and the network do, in any order: a PDU with a  *)
(* name is sent once, before all others; what the server is about to send  *)
(* goes to open sockets; and a client that waits in recvConf gets the      *)
(* answer to its name and nothing else (myServer.c:73-212,                 *)
(* myClient.c:230-255).                                                    *)
THEOREM Invariance == Spec => []IInv
<1>1. Init => IInv
  BY InitIInv
<1>2. IInv /\ [Next]_vars => IInv'
  BY StepKeeps
<1> QED BY <1>1, <1>2, PTL DEF Spec

(* Every variable of the server, the clients and the connections keeps its *)
(* type.                                                                   *)
THEOREM Typed == Spec => []TypeOK
<1>1. IInv => TypeOK
  BY DEF IInv
<1> QED BY <1>1, Invariance, PTL

(* connectClient (myServer.c:198-212) lists no name twice.                 *)
THEOREM Names == Spec => []HandlesDiffer
<1>1. IInv => HandlesDiffer
  BY DEF IInv, ServerInv
<1> QED BY <1>1, Invariance, PTL

(* The server (myServer.c:73-134) keeps in its list only open, polled      *)
(* sockets, each once and under the name of the client at its other end,   *)
(* though accept uses descriptors again.                                   *)
THEOREM Nodes == Spec => []NodesAreOpen
<1>1. IInv => NodesAreOpen
  BY DEF IInv, ServerInv
<1> QED BY <1>1, Invariance, PTL

(* recvConf (myClient.c:242-255) meets no PDU but the answer to its name.   *)
THEOREM Answers == Spec => []AnswerComesFirst
<1>1. IInv => AnswerComesFirst
  BY DEF IInv, ClientInv, Waits, Answered, AnswerComesFirst
<1> QED BY <1>1, Invariance, PTL

(* A client whose name was in use is never listed and displays nothing.    *)
THEOREM Refusals == Spec => []RefusedIsOut
<1>1. IInv => RefusedIsOut
  BY DEF IInv, ClientInv, Refused, Unlisted, RefusedIsOut
<1> QED BY <1>1, Invariance, PTL
-----------------------------------------------------------------------------
(* Sequences of sequences, joined (FlattenSeq).                            *)

(* Joined[i] is the first i of them.                                       *)
Joins(joined, parts, n) ==
    joined = [i \in 1 .. n |-> IF i = 1 THEN parts[i] ELSE joined[i - 1] \o parts[i]]

(* They can be joined one by one, ...                                      *)
LEMMA JoinedOnce ==
    ASSUME NEW parts, NEW n \in Nat
    PROVE  \E joined : Joins(joined, parts, n)
<1> DEFINE S == {k \in 0 .. n : \E joined : Joins(joined, parts, k)}
<1>1. 0 \in S
  <2> DEFINE f == [i \in 1 .. 0 |-> parts[i]]
  <2>1. 0 \in 0 .. n /\ \A i \in 1 .. 0 : FALSE
    BY SMT
  <2>2. Joins(f, parts, 0)
    BY <2>1 DEF Joins
  <2> HIDE DEF f
  <2> QED BY <2>1, <2>2
<1>2. ASSUME NEW k \in 0 .. n - 1, k \in S
      PROVE  k + 1 \in S
  <2>1. PICK f : Joins(f, parts, k)
    BY <1>2
  <2> DEFINE next(h, i) == IF i = 1 THEN parts[i] ELSE h[i - 1] \o parts[i]
             g == [i \in 1 .. k + 1 |-> IF i = k + 1 THEN next(f, i) ELSE f[i]]
  <2>2. /\ k + 1 \in 0 .. n /\ k + 1 \in 1 .. k + 1 /\ (k + 1) - 1 = k
        /\ \A i \in 1 .. k + 1 : i # k + 1 => i \in 1 .. k
        /\ \A i \in 1 .. k + 1 : i # 1 => i - 1 \in 1 .. k + 1 /\ i - 1 # k + 1
    BY SMT
  <2>3. ASSUME NEW i \in 1 .. k + 1 PROVE g[i] = next(g, i)
    <3>1. i # 1 => g[i - 1] = f[i - 1]
      BY <2>2
    <3>2. next(g, i) = next(f, i)
      <4> HIDE DEF g
      <4> QED BY <3>1
    <3>3. CASE i = k + 1
      <4>1. g[i] = next(f, i)
        BY <3>3
      <4> HIDE DEF g, next
      <4> QED BY <3>2, <4>1
    <3>4. CASE i # k + 1
      <4>1. i \in 1 .. k /\ g[i] = f[i]
        BY <2>2, <3>4
      <4>2. f[i] = next(f, i)
        BY <2>1, <4>1 DEF Joins
      <4> HIDE DEF g, next
      <4> QED BY <3>2, <4>1, <4>2
    <3> QED BY <3>3, <3>4
  <2>4. g = [i \in 1 .. k + 1 |-> g[i]]
    OBVIOUS
  <2>5. Joins(g, parts, k + 1)
    <3> HIDE DEF g
    <3>1. g = [i \in 1 .. k + 1 |-> next(g, i)]
      <4> HIDE DEF next
      <4> QED BY <2>3, <2>4
    <3> QED BY <3>1 DEF Joins
  <2> HIDE DEF g
  <2> QED BY <2>2, <2>5
<1>3. S = 0 .. n
  <2>1. S \in SUBSET (0 .. n)
    OBVIOUS
  <2> HIDE DEF S
  <2> QED BY <1>1, <1>2, <2>1, UpTo
<1>4. n \in S
  <2>1. n \in 0 .. n
    BY SMT
  <2> HIDE DEF S
  <2> QED BY <1>3, <2>1
<1> QED BY <1>4

(* ... and in one way.                                                     *)
LEMMA JoinedAlike ==
    ASSUME NEW f, NEW g, NEW p, NEW q, NEW n \in Nat, NEW m \in Nat, n <= m,
           Joins(f, p, n), Joins(g, q, m), \A i \in 1 .. n : p[i] = q[i]
    PROVE  \A i \in 1 .. n : f[i] = g[i]
<1> DEFINE S == {k \in 0 .. n : k # 0 => f[k] = g[k]}
<1>1. 0 \in S
  BY SMT
<1>2. ASSUME NEW k \in 0 .. n - 1, k \in S
      PROVE  k + 1 \in S
  <2>1. PICK j : j = k + 1
    OBVIOUS
  <2>2. j \in 0 .. n /\ j \in 1 .. n /\ j \in 1 .. m /\ j - 1 = k /\ (j # 1 => k # 0)
    BY SMT, <2>1
  <2>3. f[j] = IF j = 1 THEN p[j] ELSE f[j - 1] \o p[j]
    BY <2>2 DEF Joins
  <2>4. g[j] = IF j = 1 THEN q[j] ELSE g[j - 1] \o q[j]
    BY <2>2 DEF Joins
  <2>5. j # 1 => f[k] = g[k]
    BY <1>2, <2>2
  <2>6. f[j] = g[j]
    BY <2>2, <2>3, <2>4, <2>5
  <2> QED BY <2>1, <2>2, <2>6
<1>3. S = 0 .. n
  <2>1. S \in SUBSET (0 .. n)
    OBVIOUS
  <2> HIDE DEF S
  <2> QED BY <1>1, <1>2, <2>1, UpTo
<1>4. \A i \in 1 .. n : i \in 0 .. n /\ i # 0
  BY SMT
<1> QED BY <1>3, <1>4

(* What is joined of sequences.                                            *)
LEMMA JoinedTypes ==
    ASSUME NEW S, NEW parts \in Seq(Seq(S)), NEW f, Joins(f, parts, Len(parts))
    PROVE  /\ \A i \in 1 .. Len(parts) : f[i] \in Seq(S)
           /\ FlattenSeq(parts) = IF Len(parts) = 0 THEN <<>> ELSE f[Len(parts)]
<1>1. PICK n : n = Len(parts)
  OBVIOUS
<1>2. n \in Nat /\ \A i \in 1 .. n : parts[i] \in Seq(S)
  BY <1>1, LenProperties, ElementOfSeq
<1> DEFINE T == {k \in 0 .. n : k # 0 => f[k] \in Seq(S)}
<1>3. 0 \in T
  BY SMT, <1>2
<1>4. ASSUME NEW k \in 0 .. n - 1, k \in T
      PROVE  k + 1 \in T
  <2>1. PICK j : j = k + 1
    OBVIOUS
  <2>2. j \in 0 .. n /\ j \in 1 .. n /\ j - 1 = k /\ (j # 1 => k # 0)
    BY SMT, <1>2, <2>1
  <2>3. f[j] = IF j = 1 THEN parts[j] ELSE f[j - 1] \o parts[j]
    BY <1>1, <2>2 DEF Joins
  <2>4. j # 1 => f[k] \in Seq(S)
    BY <1>4, <2>2
  <2>5. j # 1 => f[k] \o parts[j] \in Seq(S)
    BY <1>2, <2>2, <2>4, ConcatProperties
  <2>6. f[j] \in Seq(S)
    BY <1>2, <2>2, <2>3, <2>5
  <2> QED BY <2>1, <2>2, <2>6
<1>5. T = 0 .. n
  <2>1. T \in SUBSET (0 .. n)
    OBVIOUS
  <2> HIDE DEF T
  <2> QED BY <1>2, <1>3, <1>4, <2>1, UpTo
<1>6. \A i \in 1 .. n : i \in 0 .. n /\ i # 0
  BY SMT, <1>2
<1>7. \A i \in 1 .. n : f[i] \in Seq(S)
  BY <1>5, <1>6
<1>8. CASE n = 0
  <2>1. parts = <<>>
    BY <1>1, <1>8, EmptySeq
  <2> QED BY <1>1, <1>7, <1>8, <2>1 DEF FlattenSeq
<1>9. CASE n # 0
  <2> DEFINE h == CHOOSE h : Joins(h, parts, n)
  <2>1. FlattenSeq(parts) = h[n]
    BY <1>1, <1>9 DEF FlattenSeq, Joins
  <2>2. Joins(h, parts, n)
    BY <1>1
  <2> HIDE DEF h
  <2>3. \A i \in 1 .. n : h[i] = f[i]
    <3>1. n <= n
      BY SMT, <1>2
    <3> QED BY <1>1, <1>2, <2>2, <3>1, JoinedAlike
  <2>4. n \in 1 .. n
    BY SMT, <1>2, <1>9
  <2> QED BY <1>1, <1>7, <1>9, <2>1, <2>3, <2>4
<1> QED BY <1>8, <1>9

(* Joined sequences make a sequence of the same elements.                  *)
LEMMA JoinedType ==
    ASSUME NEW S, NEW parts \in Seq(Seq(S))
    PROVE  FlattenSeq(parts) \in Seq(S)
<1>1. PICK n : n = Len(parts)
  OBVIOUS
<1>2. n \in Nat
  BY <1>1, LenProperties
<1>3. PICK f : Joins(f, parts, n)
  BY <1>2, JoinedOnce
<1>4. /\ \A i \in 1 .. n : f[i] \in Seq(S)
      /\ FlattenSeq(parts) = IF n = 0 THEN <<>> ELSE f[n]
  BY <1>1, <1>3, JoinedTypes
<1>5. n # 0 => n \in 1 .. n
  BY SMT, <1>2
<1>6. <<>> \in Seq(S)
  BY Nil
<1> QED BY <1>4, <1>5, <1>6

(* Joining one sequence more appends it.                                   *)
LEMMA JoinedAppend ==
    ASSUME NEW S, NEW parts \in Seq(Seq(S)), NEW e \in Seq(S)
    PROVE  FlattenSeq(Append(parts, e)) = FlattenSeq(parts) \o e
<1>1. PICK n, q : n = Len(parts) /\ q = Append(parts, e)
  OBVIOUS
<1>2. n \in Nat
  BY <1>1, LenProperties
<1>3. /\ q \in Seq(Seq(S)) /\ Len(q) = n + 1 /\ q[n + 1] = e
      /\ \A i \in 1 .. n : q[i] = parts[i]
  BY SMT, <1>1
<1>4. n + 1 \in Nat /\ n <= n + 1 /\ n + 1 # 0 /\ n + 1 \in 1 .. n + 1 /\ (n + 1) - 1 = n
  BY SMT, <1>2
<1>5. PICK f : Joins(f, parts, n)
  BY <1>2, JoinedOnce
<1>6. PICK g : Joins(g, q, n + 1)
  BY <1>4, JoinedOnce
<1>7. \A i \in 1 .. n : f[i] = g[i]
  <2>1. \A i \in 1 .. n : parts[i] = q[i]
    BY <1>3
  <2>2. n \in Nat /\ n + 1 \in Nat /\ n <= n + 1
    BY <1>2, <1>4
  <2> QED BY ONLY <1>5, <1>6, <2>1, <2>2, JoinedAlike
<1>8. FlattenSeq(parts) = IF n = 0 THEN <<>> ELSE f[n]
  BY <1>1, <1>5, JoinedTypes
<1>9. FlattenSeq(q) = g[n + 1]
  <2>1. Joins(g, q, Len(q))
    BY <1>3, <1>6
  <2>2. FlattenSeq(q) = IF Len(q) = 0 THEN <<>> ELSE g[Len(q)]
    BY <1>3, <2>1, JoinedTypes
  <2> QED BY <1>3, <1>4, <2>2
<1>10. g[n + 1] = IF n + 1 = 1 THEN q[n + 1] ELSE g[(n + 1) - 1] \o q[n + 1]
  BY <1>4, <1>6 DEF Joins
<1>11. CASE n = 0
  <2>1. n + 1 = 1
    BY SMT, <1>11
  <2>2. <<>> \o e = e
    BY ConcatEmptySeq
  <2> QED BY <1>1, <1>3, <1>8, <1>9, <1>10, <1>11, <2>1, <2>2
<1>12. CASE n # 0
  <2>1. n + 1 # 1 /\ n \in 1 .. n
    BY SMT, <1>2, <1>12
  <2> QED BY <1>1, <1>3, <1>4, <1>7, <1>8, <1>9, <1>10, <1>12, <2>1
<1> QED BY <1>11, <1>12

(* If a is first and then b, a and then c is first and then b and c.       *)
LEMMA Follows ==
    ASSUME NEW S, NEW first \in Seq(S), NEW a, NEW b, NEW c, NEW d,
           a = first \o b, b \in Seq(S), c \in Seq(S), d = b \o c
    PROVE  a \o c = first \o d
<1>1. a \o c = (first \o b) \o c
  OBVIOUS
<1>2. (first \o b) \o c = first \o (b \o c)
  <2>1. b \in Seq(S) /\ c \in Seq(S)
    OBVIOUS
  <2> QED BY ONLY SMT, <2>1
<1> QED BY <1>1, <1>2

Whole(joined, n) == IF n = 0 THEN <<>> ELSE joined[n]

(* After the first come the others.                                        *)
Follow(parts, first, others, n) ==
    parts[1] = first /\ \A i \in 1 .. n : others[i] = parts[i + 1]

(* Joining all is joining the first to the others joined.                  *)
LEMMA JoinedLater ==
    ASSUME NEW S, NEW n \in Nat, NEW m, m = n + 1, NEW parts, NEW q, NEW f, NEW g,
           Joins(f, parts, m), Joins(g, q, n),
           NEW first \in Seq(S), Follow(parts, first, q, n),
           \A i \in 1 .. n : q[i] \in Seq(S),
           \A i \in 1 .. n : g[i] \in Seq(S)
    PROVE  f[m] = first \o Whole(g, n)
<1> DEFINE T == {k \in 0 .. n : f[k + 1] = first \o (IF k = 0 THEN <<>> ELSE g[k])}
<1>1. first \o <<>> = first
  BY ConcatEmptySeq
<1>2. 0 \in T
  <2>1. 0 \in 0 .. n /\ 0 + 1 = 1 /\ 1 \in 1 .. n + 1
    BY SMT
  <2>2. f[1] = first
    BY <2>1 DEF Joins, Follow
  <2> QED BY <1>1, <2>1, <2>2
<1>3. ASSUME NEW k \in 0 .. n - 1, k \in T
      PROVE  k + 1 \in T
  <2>1. PICK j : j = k + 1
    OBVIOUS
  <2>2. /\ j \in 0 .. n /\ j \in 1 .. n /\ j - 1 = k /\ (j # 1 => k # 0 /\ k \in 1 .. n)
        /\ (j = 1 => k = 0)
        /\ j + 1 \in 1 .. n + 1 /\ j + 1 # 1 /\ (j + 1) - 1 = j /\ j # 0
    BY SMT, <2>1
  <2>3. f[j + 1] = f[j] \o q[j]
    <3>1. \A i \in 1 .. m : f[i] = IF i = 1 THEN parts[i] ELSE f[i - 1] \o parts[i]
      BY DEF Joins
    <3>2. q[j] = parts[j + 1]
      BY <2>2 DEF Follow
    <3>3. PICK x : x = j + 1
      OBVIOUS
    <3>4. x \in 1 .. m /\ x # 1 /\ x - 1 = j
      BY <2>2, <3>3
    <3>5. f[x] = f[x - 1] \o parts[x]
      BY <3>1, <3>4
    <3> QED BY <3>2, <3>3, <3>4, <3>5
  <2>4. g[j] = IF j = 1 THEN q[j] ELSE g[k] \o q[j]
    BY <2>2 DEF Joins
  <2>5. f[j] = first \o (IF k = 0 THEN <<>> ELSE g[k])
    BY <1>3, <2>1
  <2>6. f[j + 1] = first \o g[j]
    <3>1. CASE j = 1
      BY <1>1, <2>2, <2>3, <2>4, <2>5, <3>1
    <3>2. CASE j # 1
      <4>1. f[j] = first \o g[k]
        BY <2>2, <2>5, <3>2
      <4>2. g[j] = g[k] \o q[j]
        BY <2>4, <3>2
      <4>3. g[k] \in Seq(S) /\ q[j] \in Seq(S)
        BY <2>2, <3>2
      <4>4. f[j] \o q[j] = first \o g[j]
        <5>1. PICK a, b, c, d : a = f[j] /\ b = g[k] /\ c = q[j] /\ d = g[j]
          OBVIOUS
        <5>2. a = first \o b
          BY <4>1, <5>1
        <5>3. d = b \o c
          BY <4>2, <5>1
        <5>4. b \in Seq(S)
          BY <4>3, <5>1
        <5>5. c \in Seq(S)
          BY <4>3, <5>1
        <5>6. a \o c = first \o d
          BY <5>2, <5>3, <5>4, <5>5, Follows
        <5> QED BY <5>1, <5>6
      <4> QED BY <2>3, <4>4
    <3> QED BY <3>1, <3>2
  <2> QED BY <2>1, <2>2, <2>6
<1>4. T = 0 .. n
  <2>1. T \in SUBSET (0 .. n)
    OBVIOUS
  <2> HIDE DEF T
  <2> QED BY <1>2, <1>3, <2>1, UpTo
<1>5. n \in 0 .. n
  BY SMT
<1> QED BY <1>4, <1>5 DEF Whole

(* Joining a queue of sequences begins with its head.                      *)
LEMMA JoinedTail ==
    ASSUME NEW S, NEW parts, parts \in Seq(Seq(S)), parts # <<>>
    PROVE  FlattenSeq(parts) = Head(parts) \o FlattenSeq(Tail(parts))
<1>1. PICK n, q : n = Len(Tail(parts)) /\ q = Tail(parts)
  OBVIOUS
<1>2. /\ n \in Nat /\ Len(parts) = n + 1 /\ q \in Seq(Seq(S))
      /\ \A i \in 1 .. n : q[i] = parts[i + 1]
      /\ Head(parts) = parts[1] /\ parts[1] \in Seq(S)
  BY SMT, <1>1, HeadTailProperties, LenProperties
<1>3. n + 1 \in Nat /\ n + 1 # 0
  BY SMT, <1>2
<1>4. PICK f : Joins(f, parts, n + 1)
  BY <1>3, JoinedOnce
<1>5. PICK g : Joins(g, q, n)
  BY <1>2, JoinedOnce
<1>6. /\ \A i \in 1 .. n : g[i] \in Seq(S)
      /\ FlattenSeq(q) = IF n = 0 THEN <<>> ELSE g[n]
  BY <1>1, <1>2, <1>5, JoinedTypes
<1>7. FlattenSeq(parts) = f[n + 1]
  <2>1. Joins(f, parts, Len(parts))
    BY <1>2, <1>4
  <2>2. FlattenSeq(parts) = IF Len(parts) = 0 THEN <<>> ELSE f[Len(parts)]
    BY <2>1, JoinedTypes
  <2> QED BY <1>2, <1>3, <2>2
<1>8. \A i \in 1 .. n : q[i] \in Seq(S)
  BY <1>1, <1>2, ElementOfSeq
<1>9. f[n + 1] = parts[1] \o (IF n = 0 THEN <<>> ELSE g[n])
  <2>1. PICK first \in Seq(S) : parts[1] = first
    BY <1>2
  <2>2. f[n + 1] = first \o Whole(g, n)
    <3>0. PICK m : m = n + 1
      OBVIOUS
    <3>1. n \in Nat
      BY <1>2
    <3>2. \A i \in 1 .. n : g[i] \in Seq(S)
      BY <1>6
    <3>3. Follow(parts, first, q, n)
      BY <1>2, <2>1 DEF Follow
    <3>4. first \in Seq(S)
      OBVIOUS
    <3>5. Joins(f, parts, m)
      BY <1>4, <3>0
    <3>6. f[m] = first \o Whole(g, n)
      BY ONLY <1>5, <1>8, <3>0, <3>1, <3>2, <3>3, <3>4, <3>5, JoinedLater
    <3> QED BY <3>0, <3>6
  <2> QED BY <2>1, <2>2 DEF Whole
<1> QED BY <1>1, <1>2, <1>6, <1>7, <1>9

(* Empty sequences join to nothing.                                        *)
LEMMA JoinedNone ==
    ASSUME NEW S, NEW parts \in Seq(Seq(S)), \A i \in 1 .. Len(parts) : parts[i] = <<>>
    PROVE  FlattenSeq(parts) = <<>>
<1>1. PICK n : n = Len(parts)
  OBVIOUS
<1>2. n \in Nat
  BY <1>1, LenProperties
<1>3. PICK f : Joins(f, parts, n)
  BY <1>2, JoinedOnce
<1>4. FlattenSeq(parts) = IF n = 0 THEN <<>> ELSE f[n]
  BY <1>1, <1>3, JoinedTypes
<1> DEFINE T == {k \in 0 .. n : k # 0 => f[k] = <<>>}
<1>5. 0 \in T
  BY SMT, <1>2
<1>6. ASSUME NEW k \in 0 .. n - 1, k \in T
      PROVE  k + 1 \in T
  <2>1. PICK j : j = k + 1
    OBVIOUS
  <2>2. j \in 0 .. n /\ j \in 1 .. n /\ j - 1 = k /\ (j # 1 => k # 0)
    BY SMT, <1>2, <2>1
  <2>3. f[j] = IF j = 1 THEN parts[j] ELSE f[j - 1] \o parts[j]
    BY <1>3, <2>2 DEF Joins
  <2>4. j # 1 => f[k] = <<>>
    BY <1>6, <2>2
  <2>5. <<>> \o <<>> = <<>>
    <3>1. <<>> \in Seq(S)
      BY Nil
    <3> QED BY <3>1, ConcatEmptySeq
  <2>6. f[j] = <<>>
    BY <1>1, <2>2, <2>3, <2>4, <2>5
  <2> QED BY <2>1, <2>2, <2>6
<1>7. T = 0 .. n
  <2>1. T \in SUBSET (0 .. n)
    OBVIOUS
  <2> HIDE DEF T
  <2> QED BY <1>2, <1>5, <1>6, <2>1, UpTo
<1>8. n \in 0 .. n
  BY SMT, <1>2
<1> QED BY <1>4, <1>7, <1>8

(* What m makes of the elements of q, joined.                              *)
Images(q, m) == [i \in DOMAIN q |-> m[q[i]]]
Joint(q, m) == FlattenSeq(Images(q, m))

(* f is what m makes of the elements of q, one by one.                     *)
Mapped(f, q, m, T) ==
    /\ f \in Seq(T) /\ Len(f) = Len(q)
    /\ \A i \in 1 .. Len(q) : f[i] = m[q[i]]

(* The images of the elements are what m makes of them.                    *)
LEMMA ImagesTypes ==
    ASSUME NEW S, NEW T, NEW q \in Seq(S), NEW m \in [S -> T]
    PROVE  Mapped(Images(q, m), q, m, T)
<1>1. PICK n : n = Len(q)
  OBVIOUS
<1>2. n \in Nat /\ DOMAIN q = 1 .. n /\ \A i \in 1 .. n : q[i] \in S
  BY <1>1, LenProperties, ElementOfSeq
<1>3. Images(q, m) = [i \in 1 .. n |-> m[q[i]]]
  BY <1>2 DEF Images
<1>4. \A i \in 1 .. n : m[q[i]] \in T
  BY <1>2
<1>5. [i \in 1 .. n |-> m[q[i]]] \in [1 .. n -> T]
  BY <1>4
<1>6. Images(q, m) \in [1 .. n -> T]
  BY <1>3, <1>5
<1>7. Images(q, m) \in Seq(T) /\ Len(Images(q, m)) = n
  BY SMT, <1>2, <1>6
<1> QED BY <1>1, <1>3, <1>7 DEF Mapped

(* What m makes of a queue is a sequence of what it makes.                 *)
LEMMA JointType ==
    ASSUME NEW S, NEW T, NEW q \in Seq(S), NEW m \in [S -> Seq(T)]
    PROVE  Joint(q, m) \in Seq(T)
<1>1. Images(q, m) \in Seq(Seq(T))
  <2>1. Mapped(Images(q, m), q, m, Seq(T))
    BY ImagesTypes
  <2> QED BY <2>1 DEF Mapped
<1> QED BY <1>1, JoinedType DEF Joint

(* Of the empty queue m makes nothing.                                     *)
LEMMA JointNil ==
    ASSUME NEW m
    PROVE  Joint(<<>>, m) = <<>>
<1>1. Images(<<>>, m) = <<>>
  BY SMT DEF Images
<1>2. <<>> \in Seq(Seq({})) /\ \A i \in 1 .. Len(<<>>) : FALSE
  BY SMT, Nil
<1> QED BY <1>1, <1>2, JoinedNone DEF Joint

(* What is added to a queue comes last.                                    *)
LEMMA JointAdded ==
    ASSUME NEW S, NEW T, NEW q \in Seq(S), NEW e \in S, NEW m \in [S -> Seq(T)]
    PROVE  Joint(Append(q, e), m) = Joint(q, m) \o m[e]
<1>1. PICK n, r : n = Len(q) /\ r = Append(q, e)
  OBVIOUS
<1>2. PICK f, g, x : f = Images(q, m) /\ g = Images(r, m) /\ x = m[e]
  OBVIOUS
<1>3. n \in Nat /\ r \in Seq(S) /\ Len(r) = n + 1
  BY <1>1, AppendProperties, LenProperties
<1>4. f \in Seq(Seq(T)) /\ Len(f) = n /\ \A i \in 1 .. n : f[i] = m[q[i]]
  <2>1. Mapped(Images(q, m), q, m, Seq(T))
    BY ImagesTypes
  <2> QED BY <1>1, <1>2, <2>1 DEF Mapped
<1>5. g \in Seq(Seq(T)) /\ Len(g) = n + 1 /\ \A i \in 1 .. n + 1 : g[i] = m[r[i]]
  <2>1. Mapped(Images(r, m), r, m, Seq(T))
    BY <1>3, ImagesTypes
  <2> QED BY <1>2, <1>3, <2>1 DEF Mapped
<1>6. x \in Seq(T)
  BY <1>2
<1>7. \A i \in 1 .. n + 1 : g[i] = IF i <= n THEN f[i] ELSE x
  <2>1. r[n + 1] = e /\ \A i \in 1 .. n : r[i] = q[i]
    BY <1>1, AppendProperties
  <2> SUFFICES ASSUME NEW i \in 1 .. n + 1
               PROVE  g[i] = IF i <= n THEN f[i] ELSE x
    OBVIOUS
  <2>2. IF i <= n THEN i \in 1 .. n ELSE i = n + 1
    BY SMT, <1>3
  <2>3. g[i] = m[r[i]]
    BY <1>5
  <2>4. CASE i <= n
    <3>1. r[i] = q[i] /\ f[i] = m[q[i]]
      BY <1>4, <2>1, <2>2, <2>4
    <3> QED BY <2>3, <2>4, <3>1
  <2>5. CASE ~ (i <= n)
    <3>1. r[i] = e
      BY <2>1, <2>2, <2>5
    <3> QED BY <1>2, <2>3, <2>5, <3>1
  <2> QED BY <2>4, <2>5
<1>8. g = Append(f, x)
  <2>1. PICK h : h = Append(f, x)
    OBVIOUS
  <2>2. PICK V : V = Seq(T)
    OBVIOUS
  <2>3. f \in Seq(V) /\ g \in Seq(V) /\ x \in V
    BY <1>4, <1>5, <1>6, <2>2
  <2>4. h \in Seq(V) /\ Len(h) = n + 1
    BY <1>4, <2>1, <2>3, AppendProperties
  <2>5. \A i \in 1 .. n + 1 : h[i] = IF i <= n THEN f[i] ELSE x
    BY SMT, <1>3, <1>4, <2>1, <2>3
  <2>6. \A i \in 1 .. n + 1 : h[i] = g[i]
    BY <1>7, <2>5
  <2>7. g = h
    BY <1>5, <2>3, <2>4, <2>6, SeqEqual
  <2> QED BY <2>1, <2>7
<1>9. FlattenSeq(Append(f, x)) = FlattenSeq(f) \o x
  BY <1>4, <1>6, JoinedAppend
<1> QED BY <1>1, <1>2, <1>8, <1>9 DEF Joint

(* What is taken from a queue came first.                                  *)
LEMMA JointTaken ==
    ASSUME NEW S, NEW T, NEW q \in Seq(S), q # <<>>, NEW m \in [S -> Seq(T)]
    PROVE  Joint(q, m) = m[Head(q)] \o Joint(Tail(q), m)
<1>1. PICK n, r : n = Len(Tail(q)) /\ r = Tail(q)
  OBVIOUS
<1>2. PICK f, g : f = Images(q, m) /\ g = Images(r, m)
  OBVIOUS
<1>3. /\ n \in Nat /\ r \in Seq(S) /\ Len(r) = n /\ Len(q) = n + 1
      /\ \A i \in 1 .. n : r[i] = q[i + 1]
      /\ Head(q) = q[1]
  BY SMT, <1>1
<1>4. f \in Seq(Seq(T)) /\ Len(f) = n + 1 /\ \A i \in 1 .. n + 1 : f[i] = m[q[i]]
  <2>1. Mapped(Images(q, m), q, m, Seq(T))
    BY ImagesTypes
  <2> QED BY <1>2, <1>3, <2>1 DEF Mapped
<1>5. g \in Seq(Seq(T)) /\ Len(g) = n /\ \A i \in 1 .. n : g[i] = m[r[i]]
  <2>1. Mapped(Images(r, m), r, m, Seq(T))
    BY <1>3, ImagesTypes
  <2> QED BY <1>2, <1>3, <2>1 DEF Mapped
<1>6. 1 \in 1 .. n + 1 /\ \A i \in 1 .. n : i + 1 \in 1 .. n + 1
  BY SMT, <1>3
<1>7. \A i \in 1 .. n : g[i] = f[i + 1]
  BY <1>3, <1>4, <1>5, <1>6
<1>8. f # <<>> /\ Head(f) = m[Head(q)] /\ Tail(f) = g
  <2>1. PICK V : V = Seq(T)
    OBVIOUS
  <2>2. f \in Seq(V) /\ g \in Seq(V)
    BY <1>4, <1>5, <2>1
  <2>3. PICK h : h = Tail(f)
    OBVIOUS
  <2>4. /\ f # <<>> /\ Head(f) = f[1]
        /\ h \in Seq(V) /\ Len(h) = n /\ \A i \in 1 .. n : h[i] = f[i + 1]
    BY SMT, <1>3, <1>4, <2>2, <2>3
  <2>5. \A i \in 1 .. n : h[i] = g[i]
    BY <1>7, <2>4
  <2>6. h = g
    BY <1>5, <2>2, <2>4, <2>5, SeqEqual
  <2> QED BY <1>3, <1>4, <1>6, <2>3, <2>4, <2>6
<1>9. FlattenSeq(f) = Head(f) \o FlattenSeq(Tail(f))
  BY <1>4, <1>8, JoinedTail
<1> QED BY <1>1, <1>2, <1>8, <1>9 DEF Joint

(* m makes nothing of a queue if it makes nothing of its elements.         *)
LEMMA JointNone ==
    ASSUME NEW S, NEW T, NEW q \in Seq(S), NEW m \in [S -> Seq(T)],
           \A i \in 1 .. Len(q) : m[q[i]] = <<>>
    PROVE  Joint(q, m) = <<>>
<1>1. PICK f : f = Images(q, m)
  OBVIOUS
<1>2. f \in Seq(Seq(T)) /\ Len(f) = Len(q) /\ \A i \in 1 .. Len(q) : f[i] = m[q[i]]
  <2>1. Mapped(Images(q, m), q, m, Seq(T))
    BY ImagesTypes
  <2> QED BY <1>1, <2>1 DEF Mapped
<1>3. \A i \in 1 .. Len(f) : f[i] = <<>>
  BY <1>2
<1>4. FlattenSeq(f) = <<>>
  BY <1>2, <1>3, JoinedNone
<1> QED BY <1>1, <1>4 DEF Joint

(* n times t.                                                              *)
Times(t, n) == [j \in 1 .. n |-> t]

(* Once more is one more.                                                  *)
LEMMA TimesAre ==
    ASSUME NEW T, NEW t \in T
    PROVE  /\ Times(t, 0) = <<>>
           /\ \A n \in Nat : /\ Times(t, n) \in Seq(T)
                             /\ Times(t, n) \o <<t>> = Times(t, n + 1)
                             /\ Times(t, n) \o <<>> = Times(t, n)
           /\ Times(t, 1) = <<t>>
<1>1. Times(t, 0) = <<>>
  BY SMT DEF Times
<1>2. ASSUME NEW n \in Nat
      PROVE  /\ Times(t, n) \in Seq(T) /\ Len(Times(t, n)) = n
             /\ \A i \in 1 .. n : Times(t, n)[i] = t
  BY SMT DEF Times
<1>3. <<t>> \in Seq(T) /\ Len(<<t>>) = 1 /\ <<t>>[1] = t
  BY SMT
<1>4. ASSUME NEW n \in Nat
      PROVE  Times(t, n) \o <<t>> = Times(t, n + 1)
  <2>1. PICK a, b : a = Times(t, n) /\ b = <<t>>
    OBVIOUS
  <2>2. PICK l, r : l = a \o b /\ r = Times(t, n + 1)
    OBVIOUS
  <2>3. a \in Seq(T) /\ Len(a) = n /\ \A i \in 1 .. n : a[i] = t
    BY <1>2, <2>1
  <2>4. n + 1 \in Nat
    BY SMT
  <2>5. r \in Seq(T) /\ Len(r) = n + 1 /\ \A i \in 1 .. n + 1 : r[i] = t
    BY <1>2, <2>2, <2>4
  <2>6. b \in Seq(T) /\ Len(b) = 1 /\ b[1] = t
    BY <1>3, <2>1
  <2>7. /\ l \in Seq(T) /\ Len(l) = n + 1
        /\ \A i \in 1 .. n + 1 : l[i] = IF i <= n THEN a[i] ELSE b[i - n]
    <3>1. /\ a \o b \in Seq(T) /\ Len(a \o b) = Len(a) + Len(b)
          /\ \A i \in 1 .. Len(a) + Len(b) :
                (a \o b)[i] = IF i <= Len(a) THEN a[i] ELSE b[i - Len(a)]
      BY <2>3, <2>6, ConcatProperties
    <3> QED BY <2>2, <2>3, <2>6, <3>1
  <2>8. \A i \in 1 .. n + 1 : IF i <= n THEN i \in 1 .. n ELSE i - n = 1
    BY SMT
  <2>9. \A i \in 1 .. n + 1 : l[i] = r[i]
    <3> SUFFICES ASSUME NEW i \in 1 .. n + 1 PROVE l[i] = r[i]
      OBVIOUS
    <3> QED BY <2>3, <2>5, <2>6, <2>7, <2>8
  <2>10. l = r
    BY <2>5, <2>7, <2>9, SeqEqual
  <2> QED BY <2>1, <2>2, <2>10
<1>5. ASSUME NEW n \in Nat
      PROVE  Times(t, n) \o <<>> = Times(t, n)
  <2>1. Times(t, n) \in Seq(T)
    BY <1>2
  <2> QED BY <2>1, ConcatEmptySeq
<1>6. Times(t, 1) = <<t>>
  <2>1. PICK a, b : a = Times(t, 1) /\ b = <<t>>
    OBVIOUS
  <2>2. 1 \in Nat /\ 1 \in 1 .. 1 /\ \A i \in 1 .. 1 : i = 1
    BY SMT
  <2>3. a \in Seq(T) /\ Len(a) = 1 /\ \A i \in 1 .. 1 : a[i] = t
    BY <1>2, <2>1, <2>2
  <2>4. b \in Seq(T) /\ Len(b) = 1 /\ b[1] = t
    BY <1>3, <2>1
  <2>5. a = b
    BY <2>2, <2>3, <2>4, SeqEqual
  <2> QED BY <2>1, <2>5
<1> QED BY <1>1, <1>2, <1>4, <1>5, <1>6

(* m makes t of the elements of q at the places in I and nothing of the    *)
(* others.                                                                 *)
Marks(S, T, q, m, t, I) ==
    /\ q \in Seq(S) /\ m \in [S -> Seq(T)] /\ t \in T /\ I \subseteq 1 .. Len(q)
    /\ \A i \in 1 .. Len(q) : m[q[i]] = IF i \in I THEN <<t>> ELSE <<>>

(* m makes of the queue t once for each place in I.                        *)
LEMMA JointTimes ==
    ASSUME NEW S, NEW T, NEW q, NEW m, NEW t, NEW I, Marks(S, T, q, m, t, I)
    PROVE  Joint(q, m) = Times(t, Cardinality(I))
<1>0. q \in Seq(S) /\ m \in [S -> Seq(T)] /\ t \in T /\ I \subseteq 1 .. Len(q)
  BY DEF Marks
<1>1. PICK n, p : n = Len(q) /\ p = Images(q, m)
  OBVIOUS
<1>2. n \in Nat
  BY <1>0, <1>1, LenProperties
<1>3. Mapped(p, q, m, Seq(T))
  BY <1>0, <1>1, ImagesTypes
<1>4. p \in Seq(Seq(T)) /\ Len(p) = n
  BY <1>1, <1>3 DEF Mapped
<1>5. \A i \in 1 .. n : p[i] = IF i \in I THEN <<t>> ELSE <<>>
  BY <1>1, <1>3 DEF Mapped, Marks
<1>6. PICK f : Joins(f, p, n)
  BY <1>2, JoinedOnce
<1>7. FlattenSeq(p) = IF n = 0 THEN <<>> ELSE f[n]
  BY <1>4, <1>6, JoinedTypes
<1> DEFINE upto(k) == I \cap (1 .. k)
           count(k) == Cardinality(upto(k))
<1>8. \A k \in 0 .. n : IsFiniteSet(upto(k)) /\ count(k) \in Nat
  <2> SUFFICES ASSUME NEW k \in 0 .. n PROVE IsFiniteSet(upto(k)) /\ count(k) \in Nat
    OBVIOUS
  <2>1. IsFiniteSet(1 .. k)
    BY SMT, <1>2, FS_Interval
  <2>2. IsFiniteSet(upto(k))
    BY <2>1, FS_Subset
  <2> QED BY <2>2, FS_CardinalityType
<1>9. count(0) = 0
  <2>1. upto(0) = {}
    BY SMT
  <2> QED BY <2>1, FS_EmptySet
<1>10. ASSUME NEW k \in 0 .. n - 1
       PROVE  count(k + 1) = IF k + 1 \in I THEN count(k) + 1 ELSE count(k)
  <2>1. k \in 0 .. n
    BY SMT, <1>2
  <2>2. 1 .. k + 1 = (1 .. k) \cup {k + 1} /\ k + 1 \notin 1 .. k
    BY SMT, <1>2
  <2>3. CASE k + 1 \in I
    <3>1. upto(k + 1) = upto(k) \cup {k + 1} /\ k + 1 \notin upto(k)
      BY <2>2, <2>3
    <3> HIDE DEF upto
    <3>2. count(k + 1) = count(k) + 1
      BY <1>8, <2>1, <3>1, FS_AddElement
    <3> QED BY <2>3, <3>2
  <2>4. CASE k + 1 \notin I
    <3>1. upto(k + 1) = upto(k)
      BY <2>2, <2>4
    <3> HIDE DEF upto
    <3> QED BY <2>4, <3>1
  <2> QED BY <2>3, <2>4
<1> HIDE DEF count
<1> DEFINE P == {k \in 0 .. n : k # 0 => f[k] = Times(t, count(k))}
<1>11. 0 \in P
  BY SMT, <1>2
<1>12. ASSUME NEW k \in 0 .. n - 1, k \in P
       PROVE  k + 1 \in P
  <2>1. PICK j : j = k + 1
    OBVIOUS
  <2>2. /\ j \in 0 .. n /\ j \in 1 .. n /\ j - 1 = k /\ k \in 0 .. n /\ (j # 1 => k # 0)
        /\ (j = 1 => k = 0)
    BY SMT, <1>2, <2>1
  <2>3. PICK a, b : a = count(k) /\ b = count(j)
    OBVIOUS
  <2>4. a \in Nat /\ b = IF j \in I THEN a + 1 ELSE a
    BY <1>8, <1>10, <2>1, <2>2, <2>3
  <2>5. p[j] = IF j \in I THEN <<t>> ELSE <<>>
    BY <1>5, <2>2
  <2>6. f[j] = IF j = 1 THEN p[j] ELSE f[k] \o p[j]
    BY <1>6, <2>2 DEF Joins
  <2>7. f[j] = Times(t, b)
    <3>1. CASE j = 1
      <4>1. a = 0
        BY <1>9, <2>2, <2>3, <3>1
      <4>2. b = IF j \in I THEN 1 ELSE 0
        BY SMT, <2>4, <4>1
      <4> QED BY <2>5, <2>6, <3>1, <4>2, TimesAre
    <3>2. CASE j # 1
      <4>1. f[k] = Times(t, a)
        BY <1>12, <2>2, <2>3, <3>2
      <4>2. CASE j \in I
        <5>1. f[j] = Times(t, a) \o <<t>> /\ b = a + 1
          BY <2>4, <2>5, <2>6, <3>2, <4>1, <4>2
        <5>2. Times(t, a) \o <<t>> = Times(t, a + 1)
          BY <2>4, TimesAre
        <5> QED BY <5>1, <5>2
      <4>3. CASE j \notin I
        <5>1. f[j] = Times(t, a) \o <<>> /\ b = a
          BY <2>4, <2>5, <2>6, <3>2, <4>1, <4>3
        <5>2. Times(t, a) \o <<>> = Times(t, a)
          BY <2>4, TimesAre
        <5> QED BY <5>1, <5>2
      <4> QED BY <4>2, <4>3
    <3> QED BY <3>1, <3>2
  <2> QED BY <2>1, <2>2, <2>3, <2>7
<1>13. P = 0 .. n
  <2>1. P \in SUBSET (0 .. n)
    OBVIOUS
  <2> HIDE DEF P
  <2> QED BY <1>2, <1>11, <1>12, <2>1, UpTo
<1>14. n \in 0 .. n
  BY SMT, <1>2
<1>15. count(n) = Cardinality(I)
  <2>1. upto(n) = I
    BY <1>0, <1>1
  <2> HIDE DEF upto
  <2> QED BY <2>1 DEF count
<1>16. FlattenSeq(p) = Times(t, count(n))
  <2>1. CASE n = 0
    BY <1>7, <1>9, <2>1, TimesAre
  <2>2. CASE n # 0
    BY <1>7, <1>13, <1>14, <2>2
  <2> QED BY <2>1, <2>2
<1> QED BY <1>1, <1>15, <1>16 DEF Joint

-----------------------------------------------------------------------------
(* What is displayed of the PDUs on their way.                             *)

(* What is displayed of PDUs, and of those that are sent to c.             *)
Part(c, socket, a) == IF socket[a.socket] = c THEN Shown(a.pdu) ELSE <<>>

ShownOf == [p \in PDU |-> Shown(p)]
ShownTo(c, socket) == [a \in Action |-> Part(c, socket, a)]

(* What is displayed of a PDU is text.                                     *)
LEMMA ShownTypes ==
    /\ \A p \in PDU : Shown(p) \in Seq(Text) /\ ShownOf[p] = Shown(p)
    /\ ShownOf \in [PDU -> Seq(Text)]
    /\ \A c, socket :
          /\ ShownTo(c, socket) \in [Action -> Seq(Text)]
          /\ \A a \in Action : ShownTo(c, socket)[a] = Part(c, socket, a)
<1>1. ASSUME NEW p \in PDU PROVE Shown(p) \in Seq(Text)
  <2>1. p.text \in Text
    BY DEF PDU
  <2>2. \A x \in Text : <<x>> \in Seq(Text)
    BY SMT
  <2> QED BY <2>1, <2>2, Nil DEF Shown
<1>2. ASSUME NEW c, NEW socket, NEW a \in Action
      PROVE  Part(c, socket, a) \in Seq(Text)
  <2>1. a.pdu \in PDU
    BY DEF Action
  <2> QED BY <1>1, <2>1, Nil DEF Part
<1>3. ShownOf \in [PDU -> Seq(Text)] /\ \A p \in PDU : ShownOf[p] = Shown(p)
  BY <1>1 DEF ShownOf
<1>4. ASSUME NEW c, NEW socket
      PROVE  /\ ShownTo(c, socket) \in [Action -> Seq(Text)]
             /\ \A a \in Action : ShownTo(c, socket)[a] = Part(c, socket, a)
  BY <1>2 DEF ShownTo
<1> QED BY <1>1, <1>3, <1>4

(* Texts and TextsFor are joints of what is displayed of each PDU.         *)
LEMMA TextsJoint ==
    ASSUME NEW q \in Seq(PDU)
    PROVE  Texts(q) = Joint(q, ShownOf)
<1>1. \A i \in DOMAIN q : q[i] \in PDU
  BY LenProperties, ElementOfSeq
<1>2. \A i \in DOMAIN q : ShownOf[q[i]] = Shown(q[i])
  BY <1>1, ShownTypes
<1>3. Images(q, ShownOf) = [i \in DOMAIN q |-> Shown(q[i])]
  BY <1>2 DEF Images
<1> QED BY <1>3 DEF Texts, Joint

(* ... of each PDU that is sent to c.                                      *)
LEMMA TextsForJoint ==
    ASSUME NEW q \in Seq(Action), NEW c, NEW socket
    PROVE  TextsFor(c, socket, q) = Joint(q, ShownTo(c, socket))
<1>1. \A i \in DOMAIN q : q[i] \in Action
  BY LenProperties, ElementOfSeq
<1>2. \A a \in Action : ShownTo(c, socket)[a] = Part(c, socket, a)
  BY ShownTypes
<1>3. Images(q, ShownTo(c, socket)) = [i \in DOMAIN q |-> Part(c, socket, q[i])]
  BY <1>1, <1>2 DEF Images
<1>4. TextsFor(c, socket, q) = FlattenSeq([i \in DOMAIN q |-> Part(c, socket, q[i])])
  BY DEF TextsFor, Part
<1> QED BY <1>3, <1>4 DEF Joint

(* What is displayed of a queue of PDUs.                                   *)
LEMMA TextsType ==
    ASSUME NEW q \in Seq(PDU)
    PROVE  Texts(q) \in Seq(Text)
<1>1. Joint(q, ShownOf) \in Seq(Text)
  BY ShownTypes, JointType
<1> QED BY <1>1, TextsJoint

(* Nothing is displayed of an empty queue.                                 *)
LEMMA TextsNil == Texts(<<>>) = <<>>
<1>1. <<>> \in Seq(PDU)
  BY Nil
<1> QED BY <1>1, TextsJoint, JointNil

(* What is added to a queue is displayed last.                             *)
LEMMA TextsAdded ==
    ASSUME NEW q \in Seq(PDU), NEW p \in PDU
    PROVE  Texts(Append(q, p)) = Texts(q) \o Shown(p)
<1>1. Append(q, p) \in Seq(PDU)
  BY AppendProperties
<1>2. Joint(Append(q, p), ShownOf) = Joint(q, ShownOf) \o ShownOf[p]
  BY ShownTypes, JointAdded
<1> QED BY <1>1, <1>2, TextsJoint, ShownTypes

(* What is taken from a queue was to be displayed first.                   *)
LEMMA TextsTaken ==
    ASSUME NEW q \in Seq(PDU), q # <<>>
    PROVE  Texts(q) = Shown(Head(q)) \o Texts(Tail(q))
<1>1. Tail(q) \in Seq(PDU) /\ Head(q) \in PDU
  BY HeadTailProperties
<1>2. Joint(q, ShownOf) = ShownOf[Head(q)] \o Joint(Tail(q), ShownOf)
  BY ShownTypes, JointTaken
<1> QED BY <1>1, <1>2, TextsJoint, ShownTypes

(* Nothing of q is displayed.                                              *)
Silent(q) == \A i \in DOMAIN q : Shown(q[i]) = <<>>

(* Of silent PDUs nothing is displayed.                                    *)
LEMMA TextsNone ==
    ASSUME NEW q \in Seq(PDU), Silent(q)
    PROVE  Texts(q) = <<>>
<1>1. \A i \in 1 .. Len(q) : ShownOf[q[i]] = <<>>
  BY LenProperties, ElementOfSeq, ShownTypes DEF Silent
<1>2. Joint(q, ShownOf) = <<>>
  BY <1>1, ShownTypes, JointNone
<1> QED BY <1>2, TextsJoint

(* What is displayed to c of what the server sends.                        *)
LEMMA TextsForType ==
    ASSUME NEW q \in Seq(Action), NEW c, NEW socket
    PROVE  TextsFor(c, socket, q) \in Seq(Text)
<1>1. Joint(q, ShownTo(c, socket)) \in Seq(Text)
  BY ShownTypes, JointType
<1> QED BY <1>1, TextsForJoint

(* Nothing is displayed to c if nothing is sent.                           *)
LEMMA TextsForNil ==
    ASSUME NEW c, NEW socket
    PROVE  TextsFor(c, socket, <<>>) = <<>>
<1>1. <<>> \in Seq(Action)
  BY Nil
<1> QED BY <1>1, TextsForJoint, JointNil

(* What is sent last is displayed last.                                    *)
LEMMA TextsForAdded ==
    ASSUME NEW q \in Seq(Action), NEW a \in Action, NEW c, NEW socket
    PROVE  TextsFor(c, socket, Append(q, a)) =
              TextsFor(c, socket, q) \o Part(c, socket, a)
<1>1. Append(q, a) \in Seq(Action)
  BY AppendProperties
<1>2. PICK m : m = ShownTo(c, socket)
  OBVIOUS
<1>3. m \in [Action -> Seq(Text)]
  BY <1>2, ShownTypes
<1>4. Joint(Append(q, a), m) = Joint(q, m) \o m[a]
  BY <1>3, JointAdded
<1>5. m[a] = Part(c, socket, a)
  BY <1>2, ShownTypes
<1>6. Joint(Append(q, a), m) = TextsFor(c, socket, Append(q, a))
  BY <1>1, <1>2, TextsForJoint
<1>7. Joint(q, m) = TextsFor(c, socket, q)
  BY <1>2, TextsForJoint
<1> QED BY <1>4, <1>5, <1>6, <1>7

(* What is sent first was to be displayed first.                           *)
LEMMA TextsForTaken ==
    ASSUME NEW q \in Seq(Action), q # <<>>, NEW c, NEW socket
    PROVE  TextsFor(c, socket, q) =
              Part(c, socket, Head(q)) \o TextsFor(c, socket, Tail(q))
<1>1. Tail(q) \in Seq(Action) /\ Head(q) \in Action
  BY HeadTailProperties
<1>2. PICK m : m = ShownTo(c, socket)
  OBVIOUS
<1>3. m \in [Action -> Seq(Text)]
  BY <1>2, ShownTypes
<1>4. Joint(q, m) = m[Head(q)] \o Joint(Tail(q), m)
  BY <1>3, JointTaken
<1>5. m[Head(q)] = Part(c, socket, Head(q))
  BY <1>1, <1>2, ShownTypes
<1>6. Joint(q, m) = TextsFor(c, socket, q)
  BY <1>2, TextsForJoint
<1>7. Joint(Tail(q), m) = TextsFor(c, socket, Tail(q))
  BY <1>1, <1>2, TextsForJoint
<1> QED BY <1>4, <1>5, <1>6, <1>7

(* Nothing of q is displayed to c.                                         *)
SilentTo(c, socket, q) ==
    \A i \in DOMAIN q : socket[q[i].socket] = c => Shown(q[i].pdu) = <<>>

(* Nothing is displayed to c of what is silent to it.                      *)
LEMMA TextsForNone ==
    ASSUME NEW q \in Seq(Action), NEW c, NEW socket, SilentTo(c, socket, q)
    PROVE  TextsFor(c, socket, q) = <<>>
<1>1. PICK m : m = ShownTo(c, socket)
  OBVIOUS
<1>2. m \in [Action -> Seq(Text)]
  BY <1>1, ShownTypes
<1>3. \A i \in 1 .. Len(q) : m[q[i]] = <<>>
  <2>1. DOMAIN q = 1 .. Len(q) /\ \A i \in 1 .. Len(q) : q[i] \in Action
    BY LenProperties, ElementOfSeq
  <2> SUFFICES ASSUME NEW i \in 1 .. Len(q) PROVE m[q[i]] = <<>>
    OBVIOUS
  <2>2. m[q[i]] = Part(c, socket, q[i])
    BY <1>1, <2>1, ShownTypes
  <2>3. Part(c, socket, q[i]) = <<>>
    BY <2>1 DEF Part, SilentTo
  <2> QED BY <2>2, <2>3
<1>4. Joint(q, m) = <<>>
  BY <1>2, <1>3, JointNone
<1> QED BY <1>1, <1>4, TextsForJoint

(* Only which sockets are c's matters.                                     *)
AlikeTo(c, k, l, q) == \A i \in DOMAIN q : k[q[i].socket] = c <=> l[q[i].socket] = c

(* What is displayed to c is the same if its sockets are.                  *)
LEMMA TextsForAlike ==
    ASSUME NEW q \in Seq(Action), NEW c, NEW k, NEW l,
           AlikeTo(c, k, l, q)
    PROVE  TextsFor(c, k, q) = TextsFor(c, l, q)
<1>1. [i \in DOMAIN q |-> IF k[q[i].socket] = c THEN Shown(q[i].pdu) ELSE <<>>]
      = [i \in DOMAIN q |-> IF l[q[i].socket] = c THEN Shown(q[i].pdu) ELSE <<>>]
  BY DEF AlikeTo
<1> QED BY <1>1 DEF TextsFor

-----------------------------------------------------------------------------
(* The room that the chat implements, for clients that stay.               *)

(* Nobody leaves or stops a client, and there are descriptors for all.     *)
Stay ==
    /\ ~ MayLeave /\ ~ MayStop
    /\ IsFiniteSet(Clients) /\ Cardinality(Clients) < MaxFD

(* What c may say in the room.                                             *)
RoomText(c) == [by : {c}, no : 0 .. MaxCommands, piece : 1 .. MaxPieces]

Says(c, p) ==
    /\ p.flag \in {"HELLO", "LIST", "BROADCAST", "MESSAGE"}
    /\ p.flag \in {"BROADCAST", "MESSAGE"} => p.handle = name[c] /\ p.text \in RoomText(c)
    /\ p.flag = "MESSAGE" => p.to \in To

(* c was told that its name is in use.                                     *)
Turned(c) ==
    \/ cstate[c] = "in use"
    \/ cstate[c] = "CONF" /\ down[c] # <<>> /\ Head(down[c]).flag = "IN_USE"

(* c speaks for itself, and nobody lets it go.                             *)
Speaks(c) ==
    /\ \A i \in DOMAIN cout[c] : Says(c, cout[c][i])
    /\ \A i \in DOMAIN up[c] : Says(c, up[c][i])
    /\ \A i \in DOMAIN down[c] : down[c][i].flag # "EXIT"

(* Its connection stands, unless it has not started or was turned away.    *)
Stands(c) ==
    /\ cstate[c] \in {"START", "CONF", "POLL", "LIST", "DEAF", "in use"}
    /\ cstate[c] = "START" \/ Turned(c) \/ link[c] = "up"

(* As long as it is not in the list, it says nothing and is told nothing.  *)
Outside(c) ==
    Unlisted(c) =>
        /\ cstate[c] \notin {"POLL", "LIST", "DEAF"}
        /\ \A i \in DOMAIN cout[c] : cout[c][i].flag = "HELLO"
        /\ \A i \in DOMAIN up[c] : up[c][i].flag = "HELLO"
        /\ \A i \in DOMAIN down[c] : down[c][i].flag = "IN_USE"

Guest(c) == Speaks(c) /\ Stands(c) /\ Outside(c)

(* The server is about to close s: the client there was turned away, or is *)
(* about to be.                                                            *)
Closing(s) ==
    \/ outbox = <<Close(s)>> /\ Turned(fds[s])
    \/ /\ outbox = <<Send(s, Command("IN_USE")), Close(s)>>
       /\ cstate[fds[s]] = "CONF" /\ down[fds[s]] = <<>>

(* A client that was turned away has a connection until the server closes  *)
(* it, which it does next.                                                 *)
TurnsAway ==
    /\ \A i \in DOMAIN backlog : ~ Turned(backlog[i])
    /\ \A s \in FD : fds[s] # NoClient /\ Turned(fds[s]) => outbox = <<Close(s)>>

SendsInRoom ==
    \A i \in DOMAIN outbox :
        /\ outbox[i].pdu.flag # "EXIT"
        /\ outbox[i].op = "send" /\ Unlisted(fds[outbox[i].socket]) =>
              outbox[i].pdu.flag = "IN_USE"
        /\ outbox[i].op = "close" => Closing(outbox[i].socket)

RoomInv ==
    /\ server = "RUNNING"
    /\ TurnsAway
    /\ SendsInRoom
    /\ \A c \in Clients : Guest(c)

-----------------------------------------------------------------------------
(* The room that the chat implements.                                      *)
Members == {fds[list[i].data] : i \in DOMAIN list}
HeardBy(c) == screen[c] \o Texts(down[c]) \o TextsFor(c, fds, outbox)

RoomStep == [Room!Next]_(Room!vars)

(* The variables of the room, in those of the chat.                        *)
LEMMA RoomIs ==
    /\ Room!vars = <<Members, [c \in Clients |-> HeardBy(c)]>>
    /\ Room!vars' = <<Members', [c \in Clients |-> HeardBy(c)']>>
  BY DEF Room!vars, Members, HeardBy

(* A step in which nobody joins and nothing new is heard.                  *)
LEMMA Unheard ==
    ASSUME Members' = Members, \A c \in Clients : HeardBy(c)' = HeardBy(c)
    PROVE  RoomStep
<1>1. [c \in Clients |-> HeardBy(c)'] = [c \in Clients |-> HeardBy(c)]
  OBVIOUS
<1>2. UNCHANGED Room!vars
  BY <1>1, RoomIs
<1> QED BY <1>2 DEF RoomStep

(* A step of client c alone, which the server does not notice.             *)
LEMMA OwnRoom ==
    ASSUME IInv, RoomInv, NEW c \in Clients, Own(c), Guest(c)',
           Turned(c)' <=> Turned(c),
           cstate[c] = "CONF" /\ down[c] = <<>> => cstate'[c] = "CONF" /\ down'[c] = <<>>,
           screen'[c] \o Texts(down'[c]) = screen[c] \o Texts(down[c])
    PROVE  RoomInv' /\ RoomStep
<1> USE DEF serverVars
<1>1. UNCHANGED serverVars
  BY DEF Own
<1>2. \A d \in Clients \ {c} :
         /\ link'[d] = link[d] /\ up'[d] = up[d] /\ down'[d] = down[d]
         /\ cstate'[d] = cstate[d] /\ cout'[d] = cout[d] /\ screen'[d] = screen[d]
  BY DEF Own
<1>3. \A d : Unlisted(d)' <=> Unlisted(d)
  BY <1>1 DEF Unlisted
<1>4. \A d \in Clients : Turned(d)' <=> Turned(d)
  BY <1>2 DEF Turned
<1>5. ASSUME NEW d \in Clients PROVE Guest(d)'
  <2>1. CASE d = c
    BY <2>1
  <2>2. CASE d # c
    <3>1. Guest(d) /\ (Unlisted(d)' <=> Unlisted(d)) /\ (Turned(d)' <=> Turned(d))
      BY <1>3, <1>4 DEF RoomInv
    <3>2. /\ link'[d] = link[d] /\ up'[d] = up[d] /\ down'[d] = down[d]
          /\ cstate'[d] = cstate[d] /\ cout'[d] = cout[d]
      BY <1>2, <2>2
    <3>3. Speaks(d)'
      BY <3>1, <3>2 DEF Guest, Speaks
    <3>4. Stands(d)'
      BY <3>1, <3>2 DEF Guest, Stands
    <3>5. Outside(d)'
      BY <3>1, <3>2 DEF Guest, Outside
    <3> QED BY <3>3, <3>4, <3>5 DEF Guest
  <2> QED BY <2>1, <2>2
<1>6. TypeOK'
  BY DEF Own
<1>7. \A s \in FD : fds'[s] # NoClient => fds'[s] \in Clients
  BY <1>6 DEF TypeOK
<1>8. \A i \in DOMAIN backlog' : backlog'[i] \in Clients
  <2>1. backlog' \in Seq(Clients)
    BY <1>6 DEF TypeOK
  <2> QED BY <2>1, LenProperties, ElementOfSeq
<1>9. TurnsAway'
  BY <1>1, <1>4, <1>7, <1>8 DEF RoomInv, TurnsAway
<1>10. ASSUME NEW s, Closing(s), fds[s] \in Clients PROVE Closing(s)'
  <2>1. fds' = fds /\ outbox' = outbox
    BY <1>1
  <2>2. Turned(fds[s])' <=> Turned(fds[s])
    BY <1>4, <1>10, <2>1 DEF Turned
  <2>3. cstate[fds[s]] = "CONF" /\ down[fds[s]] = <<>> =>
           cstate'[fds[s]] = "CONF" /\ down'[fds[s]] = <<>>
    BY <1>2, <1>10
  <2> QED BY <1>10, <2>1, <2>2, <2>3 DEF Closing
<1>11. SendsInRoom'
  <2>1. ASSUME NEW i \in DOMAIN outbox, NEW s, s = outbox[i].socket
        PROVE  /\ outbox[i].pdu.flag # "EXIT"
               /\ outbox[i].op = "send" /\ Unlisted(fds[s])' => outbox[i].pdu.flag = "IN_USE"
               /\ outbox[i].op = "close" => Closing(s)'
    <3>1. /\ outbox[i].pdu.flag # "EXIT"
          /\ outbox[i].op = "send" /\ Unlisted(fds[s]) => outbox[i].pdu.flag = "IN_USE"
          /\ outbox[i].op = "close" => Closing(s)
      BY <2>1 DEF RoomInv, SendsInRoom
    <3>2. s \in FD /\ fds[s] # NoClient
      BY <2>1, OutboxTypes DEF IInv, ServerInv, OutboxIsOpen
    <3>3. fds[s] \in Clients
      BY <3>2 DEF IInv, TypeOK
    <3>4. Unlisted(fds[s])' <=> Unlisted(fds[s])
      BY <1>1 DEF Unlisted
    <3> QED BY <1>10, <3>1, <3>3, <3>4
  <2> QED BY <1>1, <2>1 DEF SendsInRoom
<1>12. RoomInv'
  BY <1>1, <1>5, <1>9, <1>11 DEF RoomInv
<1>13. ASSUME NEW d \in Clients PROVE HeardBy(d)' = HeardBy(d)
  <2>1. screen'[d] \o Texts(down'[d]) = screen[d] \o Texts(down[d])
    BY <1>2
  <2> QED BY <1>1, <2>1 DEF HeardBy
<1>14. Members' = Members
  BY <1>1 DEF Members
<1> QED BY <1>12, <1>13, <1>14, Unheard

-----------------------------------------------------------------------------
(* The steps of a client.                                                  *)

(* A client that waits for the server, and was not turned away.            *)
LEMMA Connects ==
    ASSUME IInv, RoomInv, NEW c \in Clients
    PROVE  /\ cstate[c] = "START" => cout[c] = <<>> /\ up[c] = <<>> /\ down[c] = <<>>
           /\ Turned(c) => cout[c] = <<>> /\ up[c] = <<>> /\ Unlisted(c)
           /\ cstate[c] \in {"POLL", "LIST"} => ~ Turned(c) /\ link[c] = "up" /\ ~ Unlisted(c)
<1>1. ClientInv(c) /\ Guest(c)
  BY DEF IInv, RoomInv
<1>2. cstate[c] = "START" => cout[c] = <<>> /\ up[c] = <<>> /\ down[c] = <<>>
  BY <1>1 DEF ClientInv, Starts
<1>3. Turned(c) => cout[c] = <<>> /\ up[c] = <<>> /\ Unlisted(c)
  BY <1>1 DEF ClientInv, Turned, Waits, Answered, Refused
<1>4. cstate[c] \in {"POLL", "LIST"} => ~ Turned(c)
  BY DEF Turned
<1>5. cstate[c] \in {"POLL", "LIST"} => link[c] = "up" /\ ~ Unlisted(c)
  BY <1>1, <1>4 DEF Guest, Stands, Outside
<1> QED BY <1>2, <1>3, <1>4, <1>5

(* The connection of a client that has something to send stands.           *)
LEMMA NoneKilled ==
    ASSUME IInv, RoomInv, NEW c \in Clients
    PROVE  ~ SendNextFails(c) /\ ~ ServerGone(c) /\ ~ PollReadsExit(c)
<1>1. Guest(c) /\ TypeOK
  BY DEF RoomInv, IInv
<1>2. \A l \in {"cut", "aborted"} : l # "up"
  OBVIOUS
<1>3. ~ SendNextFails(c)
  <2> SUFFICES ASSUME SendNextFails(c) PROVE FALSE
    OBVIOUS
  <2>1. cout[c] # <<>> /\ link[c] # "up"
    BY <1>2 DEF SendNextFails
  <2> QED BY <1>1, <2>1, Connects DEF Guest, Stands
<1>4. ~ ServerGone(c)
  <2> SUFFICES ASSUME ServerGone(c) PROVE FALSE
    OBVIOUS
  <2>1. down[c] = <<>> /\ cstate[c] \in {"CONF", "POLL", "LIST"} /\ link[c] # "up"
    BY <1>2 DEF ServerGone
  <2>2. ~ Turned(c)
    BY <2>1 DEF Turned
  <2> QED BY <1>1, <2>1, <2>2 DEF Guest, Stands
<1>5. ~ PollReadsExit(c)
  <2> SUFFICES ASSUME PollReadsExit(c) PROVE FALSE
    OBVIOUS
  <2>1. down[c] # <<>> /\ Head(down[c]).flag = "EXIT"
    BY DEF PollReadsExit, Reads
  <2>2. Head(down[c]) = down[c][1] /\ 1 \in DOMAIN down[c]
    BY <1>1, <2>1, TypesOf, Taken
  <2> QED BY <1>1, <2>1, <2>2 DEF Guest, Speaks
<1> QED BY <1>3, <1>4, <1>5

(* What is on its way to the server.                                       *)
LEMMA SendNextRoom ==
    ASSUME IInv, IInv', RoomInv, NEW c \in Clients, SendNext(c), UNCHANGED serverVars
    PROVE  RoomInv' /\ RoomStep
<1>1. TypeOK /\ TypeOK' /\ Guest(c)
  BY DEF IInv, RoomInv
<1>2. PICK p, rest : p = Head(cout[c]) /\ rest = Tail(cout[c])
  OBVIOUS
<1>3. /\ cout[c] # <<>>
      /\ cout' = [cout EXCEPT ![c] = rest]
      /\ \/ up' = [up EXCEPT ![c] = Append(up[c], p)]
         \/ up' = up
      /\ UNCHANGED <<link, down, cstate, typed, screen, leaving>>
  BY <1>2 DEF SendNext, SendUp
<1>4. /\ p \in PDU /\ p = cout[c][1] /\ 1 \in DOMAIN cout[c]
      /\ \A i \in DOMAIN rest : i + 1 \in DOMAIN cout[c] /\ rest[i] = cout[c][i + 1]
  BY <1>1, <1>2, <1>3, TypesOf, Taken
<1>5. \A i \in DOMAIN Append(up[c], p) :
         \/ i \in DOMAIN up[c] /\ Append(up[c], p)[i] = up[c][i]
         \/ Append(up[c], p)[i] = p
  BY <1>1, <1>4, TypesOf, Added
<1>6. Own(c)
  BY <1>1, <1>3 DEF Own, TypeOK
<1>7. cout'[c] = rest /\ up'[c] \in {Append(up[c], p), up[c]}
  BY <1>1, <1>3 DEF TypeOK
<1>8. Speaks(c)'
  BY <1>1, <1>3, <1>4, <1>5, <1>7 DEF Guest, Speaks
<1>9. Turned(c)' <=> Turned(c)
  BY <1>3 DEF Turned
<1>10. Stands(c)'
  BY <1>1, <1>3, <1>9 DEF Guest, Stands
<1>11. Outside(c)'
  <2>1. Unlisted(c)' <=> Unlisted(c)
    BY DEF Unlisted, serverVars
  <2> SUFFICES ASSUME Unlisted(c)
               PROVE  /\ cstate'[c] \notin {"POLL", "LIST", "DEAF"}
                      /\ \A i \in DOMAIN cout'[c] : cout'[c][i].flag = "HELLO"
                      /\ \A i \in DOMAIN up'[c] : up'[c][i].flag = "HELLO"
                      /\ \A i \in DOMAIN down'[c] : down'[c][i].flag = "IN_USE"
    BY <2>1 DEF Outside
  <2>2. /\ cstate[c] \notin {"POLL", "LIST", "DEAF"}
        /\ \A i \in DOMAIN cout[c] : cout[c][i].flag = "HELLO"
        /\ \A i \in DOMAIN up[c] : up[c][i].flag = "HELLO"
        /\ \A i \in DOMAIN down[c] : down[c][i].flag = "IN_USE"
    BY <1>1 DEF Guest, Outside
  <2>3. \A i \in DOMAIN cout'[c] : cout'[c][i].flag = "HELLO"
    BY <1>4, <1>7, <2>2
  <2>4. \A i \in DOMAIN up'[c] : up'[c][i].flag = "HELLO"
    BY <1>4, <1>5, <1>7, <2>2
  <2> QED BY <1>3, <2>2, <2>3, <2>4
<1>12. Guest(c)'
  BY <1>8, <1>10, <1>11 DEF Guest
<1>13. /\ screen'[c] \o Texts(down'[c]) = screen[c] \o Texts(down[c])
       /\ cstate[c] = "CONF" /\ down[c] = <<>> => cstate'[c] = "CONF" /\ down'[c] = <<>>
  BY <1>3
<1> QED BY <1>6, <1>9, <1>12, <1>13, OwnRoom

(* A line of the user.                                                     *)
LEMMA LineRoom ==
    ASSUME IInv, IInv', RoomInv, NEW c \in Clients, UNCHANGED serverVars, Line(c),
           NEW o \in Seq(PDU), Sends(c, o), \A i \in DOMAIN o : Says(c, o[i]),
           NEW s \in {"POLL", "LIST"}, Goto(c, s)
    PROVE  RoomInv' /\ RoomStep
<1>1. TypeOK /\ TypeOK' /\ Guest(c) /\ cstate[c] = "POLL"
  BY DEF IInv, RoomInv, Line
<1>2. /\ cout' = [cout EXCEPT ![c] = o] /\ cstate' = [cstate EXCEPT ![c] = s]
      /\ UNCHANGED <<link, up, down, screen>>
  BY DEF Sends, Goto, Line, streamVars
<1>3. Own(c)
  BY <1>1, <1>2 DEF Own, TypeOK
<1>4. cout'[c] = o /\ cstate'[c] = s
  BY <1>1, <1>2 DEF TypeOK
<1>5. Speaks(c)'
  BY <1>1, <1>2, <1>4 DEF Guest, Speaks
<1>6. ~ Turned(c)' /\ ~ Turned(c)
  BY <1>1, <1>4 DEF Turned
<1>7. link[c] = "up" /\ ~ Unlisted(c)
  BY <1>1, Connects
<1>8. Stands(c)'
  BY <1>2, <1>4, <1>7 DEF Stands
<1>9. Outside(c)'
  BY <1>7 DEF Outside, Unlisted, serverVars
<1>10. Guest(c)'
  BY <1>5, <1>8, <1>9 DEF Guest
<1>11. screen'[c] \o Texts(down'[c]) = screen[c] \o Texts(down[c])
  BY <1>2
<1> QED BY <1>1, <1>3, <1>6, <1>10, <1>11, OwnRoom

(* The pieces of a text.                                                   *)
LEMMA PiecesRoom ==
    ASSUME TypeOK, NEW c \in Clients, Counted(c), NEW k \in 1 .. MaxPieces,
           NEW flag \in {"BROADCAST", "MESSAGE"},
           NEW to \in Seq(Handle), flag = "MESSAGE" => to \in To
    PROVE  \A i \in DOMAIN Pieces(c, flag, to, k) : Says(c, Pieces(c, flag, to, k)[i])
<1>1. typed[c] \in 0 .. MaxCommands /\ 1 .. k \subseteq 1 .. MaxPieces
  <2>1. typed[c] \in Nat /\ typed[c] < MaxCommands
    BY TypesOf DEF Counted
  <2> QED BY SMT, <2>1, BoundsAssumption
<1> DEFINE text(i) == [by |-> c, no |-> typed[c], piece |-> i]
           p(i) == TextPDU(flag, name[c], to, text(i))
<1>2. \A i \in 1 .. k : text(i) \in RoomText(c)
  BY <1>1 DEF RoomText
<1> HIDE DEF text
<1>3. \A i \in 1 .. k : Says(c, p(i))
  BY <1>2 DEF Says, TextPDU
<1>4. Pieces(c, flag, to, k) = [i \in 1 .. k |-> p(i)]
  BY DEF Pieces, text
<1> HIDE DEF p
<1> QED BY <1>3, <1>4

(* A command of the user: processStdin (myClient.c:272-285).               *)
LEMMA TypesRoom ==
    ASSUME Stay, IInv, IInv', RoomInv, NEW c \in Clients, Types(c), UNCHANGED serverVars
    PROVE  RoomInv' /\ RoomStep
<1>1. TypeOK
  BY DEF IInv
<1>2. cstate = [cstate EXCEPT ![c] = cstate[c]]
  BY <1>1 DEF TypeOK
<1>3. CASE LineList(c)
  <2>1. PICK o : o = <<Command("LIST")>>
    OBVIOUS
  <2>2. Line(c) /\ Sends(c, o) /\ Goto(c, "LIST")
    BY <1>3, <2>1 DEF LineList
  <2>3. o \in Seq(PDU) /\ \A i \in DOMAIN o : o[i].flag = "LIST"
    BY <2>1, OnePDU
  <2>4. \A i \in DOMAIN o : Says(c, o[i])
    BY <2>3 DEF Says
  <2> QED BY <2>2, <2>3, <2>4, LineRoom
<1>4. ASSUME NEW k \in 1 .. MaxPieces, brodcast(c, k)
      PROVE  RoomInv' /\ RoomStep
  <2>1. PICK o : o = Pieces(c, "BROADCAST", <<>>, k)
    OBVIOUS
  <2>2. Line(c) /\ Sends(c, o) /\ Goto(c, "POLL") /\ Counted(c)
    BY <1>2, <1>4, <2>1 DEF brodcast, MessageLine, Line, Goto
  <2>3. k \in Nat /\ <<>> \in Seq(Handle)
    BY SMT, BoundsAssumption
  <2>4. AllOf(Pieces(c, "BROADCAST", <<>>, k), "BROADCAST")
    BY <1>1, <2>3, PieceTypes
  <2>5. o \in Seq(PDU)
    BY <2>1, <2>4 DEF AllOf
  <2>6. \A i \in DOMAIN o : Says(c, o[i])
    BY <1>1, <2>1, <2>2, <2>3, PiecesRoom
  <2> QED BY <2>2, <2>5, <2>6, LineRoom
<1>5. ASSUME NEW k \in 1 .. MaxPieces, NEW to \in To, messageSend(c, to, k)
      PROVE  RoomInv' /\ RoomStep
  <2>1. PICK o : o = Pieces(c, "MESSAGE", to, k)
    OBVIOUS
  <2>2. Line(c) /\ Sends(c, o) /\ Goto(c, "POLL") /\ Counted(c)
    BY <1>2, <1>5, <2>1 DEF messageSend, MessageLine, Line, Goto
  <2>3. k \in Nat /\ to \in Seq(Handle)
    BY SMT, BoundsAssumption, ToAssumption
  <2>4. AllOf(Pieces(c, "MESSAGE", to, k), "MESSAGE")
    BY <1>1, <2>3, PieceTypes
  <2>5. o \in Seq(PDU)
    BY <2>1, <2>4 DEF AllOf
  <2>6. \A i \in DOMAIN o : Says(c, o[i])
    BY <1>1, <2>1, <2>2, <2>3, PiecesRoom
  <2> QED BY <2>2, <2>5, <2>6, LineRoom
<1> QED BY <1>3, <1>4, <1>5 DEF Types, Stay

(* A PDU that is displayed as nothing.                                     *)
LEMMA NotShown ==
    \A p : p.flag \notin {"BROADCAST", "MESSAGE"} => Shown(p) = <<>>
  BY DEF Shown

(* The answer that the name is accepted.                                   *)
LEMMA ConfOkRoom ==
    ASSUME IInv, IInv', RoomInv, NEW c \in Clients, ConfOk(c), UNCHANGED serverVars
    PROVE  RoomInv' /\ RoomStep
<1>1. TypeOK /\ TypeOK' /\ Guest(c)
  BY DEF IInv, RoomInv
<1>2. /\ cstate[c] = "CONF" /\ down[c] # <<>> /\ Head(down[c]).flag = "OK"
      /\ down' = [down EXCEPT ![c] = Tail(down[c])]
      /\ cstate' = [cstate EXCEPT ![c] = "POLL"]
      /\ UNCHANGED <<cout, screen, link, up>>
  BY DEF ConfOk, Reads, RecvDown, Goto
<1>3. /\ Head(down[c]) = down[c][1] /\ 1 \in DOMAIN down[c]
      /\ Head(down[c]) \in PDU /\ Tail(down[c]) \in Seq(PDU)
      /\ \A i \in DOMAIN Tail(down[c]) :
            i + 1 \in DOMAIN down[c] /\ Tail(down[c])[i] = down[c][i + 1]
  BY <1>1, <1>2, TypesOf, Taken
<1>4. Own(c)
  BY <1>1, <1>2 DEF Own, TypeOK
<1>5. cstate'[c] = "POLL" /\ down'[c] = Tail(down[c])
  BY <1>1, <1>2 DEF TypeOK
<1>6. ~ Turned(c) /\ ~ Turned(c)'
  BY <1>2, <1>5 DEF Turned
<1>7. link[c] = "up" /\ ~ Unlisted(c)
  BY <1>1, <1>2, <1>3, <1>6 DEF Guest, Stands, Outside
<1>8. Speaks(c)'
  BY <1>1, <1>2, <1>3, <1>5 DEF Guest, Speaks
<1>9. Stands(c)'
  BY <1>2, <1>5, <1>7 DEF Stands
<1>10. Outside(c)'
  BY <1>7 DEF Outside, Unlisted, serverVars
<1>11. Guest(c)'
  BY <1>8, <1>9, <1>10 DEF Guest
<1>12. screen'[c] \o Texts(down'[c]) = screen[c] \o Texts(down[c])
  <2>1. Texts(down[c]) = Shown(Head(down[c])) \o Texts(Tail(down[c]))
    BY <1>1, <1>2, TypesOf, TextsTaken
  <2>2. Shown(Head(down[c])) = <<>>
    BY <1>2, NotShown
  <2>3. <<>> \o Texts(Tail(down[c])) = Texts(Tail(down[c]))
    BY <1>3, TextsType, ConcatEmptySeq
  <2> QED BY <1>2, <1>5, <2>1, <2>2, <2>3
<1> QED BY <1>2, <1>4, <1>6, <1>11, <1>12, OwnRoom

(* The answer that the name is in use.                                     *)
LEMMA ConfNotRoom ==
    ASSUME IInv, IInv', RoomInv, NEW c \in Clients, ConfNot(c), UNCHANGED serverVars
    PROVE  RoomInv' /\ RoomStep
<1>1. TypeOK /\ TypeOK' /\ Guest(c) /\ ClientInv(c)
  BY DEF IInv, RoomInv
<1>2. /\ cstate[c] = "CONF" /\ down[c] # <<>> /\ Head(down[c]).flag # "OK"
  BY DEF ConfNot, Reads
<1>3. Head(down[c]).flag = "IN_USE" /\ up[c] = <<>> /\ cout[c] = <<>> /\ Unlisted(c)
  BY <1>1, <1>2 DEF ClientInv, Waits, Answered
<1>4. /\ cstate' = [cstate EXCEPT ![c] = "in use"]
      /\ cout' = [cout EXCEPT ![c] = <<>>]
      /\ CloseUp(c) /\ UNCHANGED screen
  BY <1>2, <1>3 DEF ConfNot, Ends, Goto
<1>5. /\ down' = [down EXCEPT ![c] = <<>>] /\ up' = up
      /\ \A d \in Clients \ {c} : link'[d] = link[d]
  BY <1>1, <1>4, EndsTypes DEF CloseUp
<1>6. Own(c)
  BY <1>1, <1>4, <1>5 DEF Own, TypeOK
<1>7. cstate'[c] = "in use" /\ down'[c] = <<>> /\ cout'[c] = <<>>
  BY <1>1, <1>4, <1>5 DEF TypeOK
<1>8. Turned(c) /\ Turned(c)'
  BY <1>2, <1>3, <1>7 DEF Turned
<1>9. DOMAIN <<>> = {}
  BY Nil
<1>10. Speaks(c)' /\ Stands(c)' /\ Outside(c)'
  BY <1>3, <1>5, <1>7, <1>8, <1>9 DEF Speaks, Stands, Outside
<1>11. Guest(c)'
  BY <1>10 DEF Guest
<1>12. Texts(down[c]) = <<>>
  <2>1. \A i \in DOMAIN down[c] : down[c][i].flag = "IN_USE"
    BY <1>1, <1>3 DEF Guest, Outside
  <2>2. Silent(down[c])
    BY <2>1, NotShown DEF Silent
  <2> QED BY <1>1, <2>2, TypesOf, TextsNone
<1>13. screen'[c] \o Texts(down'[c]) = screen[c] \o Texts(down[c])
  BY <1>4, <1>7, <1>12, TextsNil
<1> QED BY <1>2, <1>6, <1>8, <1>11, <1>13, OwnRoom

(* What a client displays was on its way.                                  *)
LEMMA Displayed ==
    ASSUME TypeOK, NEW c \in Clients, down[c] # <<>>, Displays(c, Head(down[c]))
    PROVE  screen'[c] \o Texts(Tail(down[c])) = screen[c] \o Texts(down[c])
<1>1. PICK p, rest : p = Head(down[c]) /\ rest = Tail(down[c])
  OBVIOUS
<1>2. p \in PDU /\ rest \in Seq(PDU)
  BY <1>1, TypesOf, Taken
<1>3. PICK a \in Seq(Text) : a = screen[c]
  BY TypesOf
<1>4. PICK b \in Seq(Text) : b = Shown(p)
  BY <1>2, ShownTypes
<1>5. PICK d \in Seq(Text) : d = Texts(rest)
  BY <1>2, TextsType
<1>6. Texts(down[c]) = b \o d
  BY <1>1, <1>4, <1>5, TypesOf, TextsTaken
<1>7. screen'[c] = a \o b
  <2>1. CASE p.flag \in {"BROADCAST", "MESSAGE"}
    <3>1. screen'[c] = Append(a, p.text)
      BY <1>1, <1>3, <2>1 DEF Displays, TypeOK
    <3>2. b = <<p.text>>
      BY <1>4, <2>1 DEF Shown
    <3>3. p.text \in Text
      BY <1>2 DEF PDU
    <3> QED BY <3>1, <3>2, <3>3, AppendIsConcat
  <2>2. CASE p.flag \notin {"BROADCAST", "MESSAGE"}
    <3>1. screen'[c] = a
      BY <1>1, <1>3, <2>2 DEF Displays
    <3>2. b = <<>>
      BY <1>4, <2>2, NotShown
    <3> QED BY <3>1, <3>2, ConcatEmptySeq
  <2> QED BY <2>1, <2>2
<1>8. (a \o b) \o d = a \o (b \o d)
  BY ONLY SMT
<1> QED BY <1>1, <1>3, <1>5, <1>6, <1>7, <1>8

(* A client in the room reads a PDU.                                       *)
LEMMA ReadsRoom ==
    ASSUME IInv, IInv', RoomInv, NEW c \in Clients, PollReads(c) \/ ListReads(c),
           UNCHANGED serverVars
    PROVE  RoomInv' /\ RoomStep
<1>1. TypeOK /\ TypeOK' /\ Guest(c)
  BY DEF IInv, RoomInv
<1>2. /\ cstate[c] \in {"POLL", "LIST"} /\ down[c] # <<>>
      /\ Displays(c, Head(down[c]))
      /\ down' = [down EXCEPT ![c] = Tail(down[c])]
      /\ UNCHANGED <<cout, link, up>>
  BY DEF PollReads, ListReads, Reads, RecvDown
<1>3. PICK s \in {"POLL", "LIST"} : cstate' = [cstate EXCEPT ![c] = s]
  BY <1>1 DEF PollReads, ListReads, Reads, Goto, TypeOK
<1>4. \A i \in DOMAIN Tail(down[c]) :
         i + 1 \in DOMAIN down[c] /\ Tail(down[c])[i] = down[c][i + 1]
  BY <1>1, <1>2, TypesOf, Taken
<1>5. \A d \in Clients \ {c} : screen'[d] = screen[d]
  BY <1>1, <1>2, DisplaysTypes
<1>6. Own(c)
  BY <1>1, <1>2, <1>3, <1>5 DEF Own, TypeOK
<1>7. cstate'[c] = s /\ down'[c] = Tail(down[c])
  BY <1>1, <1>2, <1>3 DEF TypeOK
<1>8. ~ Turned(c) /\ ~ Turned(c)' /\ link[c] = "up" /\ ~ Unlisted(c)
  BY <1>2, <1>7, Connects DEF Turned
<1>9. Speaks(c)'
  BY <1>1, <1>2, <1>4, <1>7 DEF Guest, Speaks
<1>10. Stands(c)'
  BY <1>2, <1>7, <1>8 DEF Stands
<1>11. Outside(c)'
  BY <1>8 DEF Outside, Unlisted, serverVars
<1>12. Guest(c)'
  BY <1>9, <1>10, <1>11 DEF Guest
<1>13. screen'[c] \o Texts(down'[c]) = screen[c] \o Texts(down[c])
  BY <1>1, <1>2, <1>7, Displayed
<1> QED BY <1>2, <1>6, <1>8, <1>12, <1>13, OwnRoom

(* The input of a client ends.                                             *)
LEMMA DeafRoom ==
    ASSUME IInv, IInv', RoomInv, NEW c \in Clients, StdinEnds(c), UNCHANGED serverVars
    PROVE  RoomInv' /\ RoomStep
<1>1. TypeOK /\ TypeOK' /\ Guest(c)
  BY DEF IInv, RoomInv
<1>2. /\ cstate[c] = "POLL" /\ cstate' = [cstate EXCEPT ![c] = "DEAF"]
      /\ UNCHANGED <<cout, screen, link, up, down>>
  BY DEF StdinEnds, Goto, streamVars
<1>3. Own(c)
  BY <1>1, <1>2 DEF Own, TypeOK
<1>4. cstate'[c] = "DEAF"
  BY <1>1, <1>2 DEF TypeOK
<1>5. ~ Turned(c)' /\ ~ Turned(c)
  BY <1>2, <1>4 DEF Turned
<1>6. link[c] = "up" /\ ~ Unlisted(c)
  BY <1>2, Connects
<1>7. Speaks(c)'
  BY <1>1, <1>2 DEF Guest, Speaks
<1>8. Stands(c)'
  BY <1>2, <1>4, <1>6 DEF Stands
<1>9. Outside(c)'
  BY <1>6 DEF Outside, Unlisted, serverVars
<1>10. Guest(c)'
  BY <1>7, <1>8, <1>9 DEF Guest
<1>11. screen'[c] \o Texts(down'[c]) = screen[c] \o Texts(down[c])
  BY <1>2
<1> QED BY <1>2, <1>3, <1>5, <1>10, <1>11, OwnRoom

(* Every step of a client but its connecting.                              *)
LEMMA ClientStepRoom ==
    ASSUME Stay, IInv, IInv', RoomInv, NEW c \in Clients, UNCHANGED serverVars,
           \/ ClientStep(c)
           \/ Types(c)
           \/ server = "DEAD" /\ ConnectFails(c)
           \/ MayStop /\ Interrupt(c)
           \/ MayHangUp /\ StdinEnds(c)
    PROVE  RoomInv' /\ RoomStep
<1>1. server # "DEAD"
  BY DEF RoomInv
<1>2. CASE ClientStep(c)
  BY <1>2, NoneKilled, SendNextRoom, ConfOkRoom, ConfNotRoom, ReadsRoom DEF ClientStep, Receives
<1>3. CASE Types(c)
  BY <1>3, TypesRoom
<1>4. CASE StdinEnds(c)
  BY <1>4, DeafRoom
<1> QED BY <1>1, <1>2, <1>3, <1>4 DEF Stay

-----------------------------------------------------------------------------
(* The steps of the server.                                                *)

(* A client behind a descriptor that is not about to be closed.            *)
LEMMA Linked ==
    ASSUME IInv, RoomInv, NEW s \in FD, fds[s] # NoClient, outbox # <<Close(s)>>
    PROVE  /\ fds[s] \in Clients /\ link[fds[s]] = "up" /\ ~ Turned(fds[s])
           /\ cstate[fds[s]] # "START"
<1>1. PICK c \in Clients : c = fds[s]
  BY DEF IInv, TypeOK
<1>2. ClientInv(c) /\ Guest(c)
  BY DEF IInv, RoomInv
<1>3. ~ Turned(c)
  BY <1>1, NoneAssumption DEF RoomInv, TurnsAway
<1>4. cstate[c] # "START"
  BY <1>1, <1>2 DEF ClientInv, Starts
<1> QED BY <1>1, <1>2, <1>3, <1>4 DEF Guest, Stands

(* Nothing new is expected of a client that does nothing.                  *)
LEMMA GuestKept ==
    ASSUME NEW c \in Clients, Guest(c), UNCHANGED clientVars, down'[c] = down[c],
           link'[c] = link[c] \/ Turned(c),
           \A i \in DOMAIN up'[c] : \E j \in DOMAIN up[c] : up'[c][i] = up[c][j],
           Unlisted(c)' => Unlisted(c)
    PROVE  Guest(c)'
<1>1. cstate'[c] = cstate[c] /\ cout'[c] = cout[c]
  BY DEF clientVars
<1>2. Turned(c)' <=> Turned(c)
  BY <1>1 DEF Turned
<1>3. Speaks(c)'
  BY <1>1 DEF Guest, Speaks
<1>4. Stands(c)'
  BY <1>1, <1>2 DEF Guest, Stands
<1>5. Outside(c)'
  BY <1>1 DEF Guest, Outside
<1> QED BY <1>3, <1>4, <1>5 DEF Guest

(* accept.                                                                 *)
LEMMA AcceptRoom ==
    ASSUME IInv, RoomInv, addNewClient, UNCHANGED clientVars
    PROVE  RoomInv' /\ RoomStep
<1>1. TypeOK /\ NodesAreOpen
  BY DEF IInv, ServerInv
<1>2. PICK s, c : s = Min(FreeFD) /\ c = Head(backlog)
  OBVIOUS
<1>3. s \in FD /\ fds[s] = NoClient
  BY <1>2, Free DEF addNewClient
<1>4. backlog # <<>> /\ outbox = <<>> /\ backlog \in Seq(Clients)
  BY <1>1 DEF addNewClient, pollCall, Ready, TypeOK
<1>5. /\ c = backlog[1] /\ 1 \in DOMAIN backlog
      /\ \A i \in DOMAIN Tail(backlog) :
            i + 1 \in DOMAIN backlog /\ Tail(backlog)[i] = backlog[i + 1]
  BY <1>2, <1>4, Taken
<1>6. /\ fds' = [fds EXCEPT ![s] = c]
      /\ backlog' = Tail(backlog)
      /\ UNCHANGED <<server, list, outbox, link, up, down>>
  BY <1>2 DEF addNewClient, streamVars
<1>7. \A t \in FD : fds'[t] = IF t = s THEN c ELSE fds[t]
  BY <1>1, <1>6 DEF TypeOK
<1>8. \A i \in DOMAIN list : list[i].data # s /\ list[i].data \in FD
  BY <1>1, <1>3, NodeTypes DEF NodesAreOpen
<1>9. \A i \in DOMAIN list : fds'[list[i].data] = fds[list[i].data]
  BY <1>7, <1>8
<1>10. Members' = Members
  BY <1>6, <1>9 DEF Members
<1>11. \A d : Unlisted(d)' => Unlisted(d)
  BY <1>6, <1>9 DEF Unlisted
<1>12. \A d : Turned(d)' <=> Turned(d)
  BY <1>6 DEF Turned, clientVars
<1>13. outbox' = <<>> /\ DOMAIN outbox' = {}
  BY <1>4, <1>6, Nil
<1>14. TurnsAway'
  <2>1. \A i \in DOMAIN backlog' : ~ Turned(backlog'[i])
    BY <1>5, <1>6 DEF RoomInv, TurnsAway
  <2>2. ASSUME NEW t \in FD PROVE fds'[t] # NoClient => ~ Turned(fds'[t])
    <3>1. CASE t = s
      BY <1>5, <1>7, <3>1 DEF RoomInv, TurnsAway
    <3>2. CASE t # s
      <4>1. <<>> # <<Close(t)>>
        BY SMT
      <4> QED BY <1>4, <1>7, <3>2, <4>1 DEF RoomInv, TurnsAway
    <3> QED BY <3>1, <3>2
  <2> QED BY <1>12, <2>1, <2>2 DEF TurnsAway
<1>15. SendsInRoom'
  BY <1>13 DEF SendsInRoom
<1>16. ASSUME NEW d \in Clients PROVE Guest(d)'
  BY <1>6, <1>11, GuestKept DEF RoomInv
<1>17. RoomInv'
  BY <1>6, <1>14, <1>15, <1>16 DEF RoomInv
<1>18. ASSUME NEW d \in Clients PROVE HeardBy(d)' = HeardBy(d)
  <2>1. screen' = screen
    BY DEF clientVars
  <2>2. TextsFor(d, fds', <<>>) = TextsFor(d, fds, <<>>)
    BY TextsForNil
  <2> QED BY <1>4, <1>6, <1>13, <2>1, <2>2 DEF HeardBy
<1> QED BY <1>10, <1>17, <1>18, Unheard

(* There is a descriptor for everybody who may come.                       *)
LEMMA NeverFull ==
    ASSUME Stay, IInv
    PROVE  ~ AcceptFails
<1> SUFFICES ASSUME AcceptFails PROVE FALSE
  OBVIOUS
<1>1. TypeOK /\ Connected
  BY DEF IInv, ServerInv
<1>2. FreeFD = {} /\ backlog # <<>> /\ backlog \in Seq(Clients)
  BY <1>1 DEF AcceptFails, pollCall, Ready, TypeOK
<1>3. PICK c \in Clients : c = backlog[1] /\ 1 \in DOMAIN backlog
  BY <1>2, Taken
<1> DEFINE D == FD \ {ServerSocket}
           f == [s \in D |-> fds[s]]
<1>4. \A s \in D : fds[s] \in Clients \ {c}
  BY <1>1, <1>2, <1>3 DEF FreeFD, TypeOK, Connected
<1>5. f \in [D -> Clients \ {c}] /\ \A s, t \in D : f[s] = f[t] => s = t
  BY <1>1, <1>4, NoneAssumption DEF Connected
<1>6. IsFiniteSet(Clients) /\ Cardinality(Clients) < MaxFD /\ MaxFD \in Nat \ {0}
  BY MaxFDAssumption DEF Stay
<1>7. /\ IsFiniteSet(Clients \ {c})
      /\ Cardinality(Clients \ {c}) = Cardinality(Clients) - 1
      /\ Cardinality(Clients) \in Nat
  BY <1>6, FS_RemoveElement, FS_CardinalityType
<1>8. D = 2 .. MaxFD
  BY SMT, <1>6 DEF FD, ServerSocket
<1>9. IsFiniteSet(D) /\ Cardinality(D) = MaxFD - 1
  <2>1. IsFiniteSet(2 .. MaxFD)
        /\ Cardinality(2 .. MaxFD) = IF 2 > MaxFD THEN 0 ELSE MaxFD - 2 + 1
    <3>1. 2 \in Int /\ MaxFD \in Int
      BY SMT, <1>6
    <3> QED BY ONLY <3>1, FS_Interval
  <2>2. (IF 2 > MaxFD THEN 0 ELSE MaxFD - 2 + 1) = MaxFD - 1
    BY SMT, <1>6
  <2> QED BY <1>8, <2>1, <2>2
<1> HIDE DEF D, f
<1>10. f \in Injection(D, Clients \ {c})
  BY <1>5 DEF Injection, IsInjective
<1>11. Cardinality(D) <= Cardinality(Clients \ {c})
  BY <1>7, <1>10, FS_Injection
<1> QED BY SMT, <1>6, <1>7, <1>9, <1>11

(* The server meets no connection that has ended.                          *)
LEMMA NoneGone ==
    ASSUME IInv, RoomInv, NEW s \in FD, AtEnd(s)
    PROVE  link[fds[s]] = "up"
<1>1. fds[s] \in Clients /\ outbox = <<>>
  BY Polled DEF AtEnd
<1>2. <<>> # <<Close(s)>>
  BY SMT
<1> QED BY <1>1, <1>2, Linked, NoneAssumption

(* No send of the server meets a connection that has ended.                *)
LEMMA NoneFails ==
    ASSUME IInv, RoomInv
    PROVE  ~ SendToFails
<1> SUFFICES ASSUME SendToFails PROVE FALSE
  OBVIOUS
<1>1. PICK s : s = Head(outbox).socket
  OBVIOUS
<1>2. outbox # <<>> /\ outbox \in Seq(Action) /\ Head(outbox).op = "send"
  BY DEF SendToFails, Sending, IInv, TypeOK
<1>3. 1 \in DOMAIN outbox /\ outbox[1].socket = s /\ s \in FD
  <2>1. 1 \in DOMAIN outbox /\ Head(outbox) = outbox[1] /\ Head(outbox) \in Action
    BY <1>2, Taken
  <2> QED BY <1>1, <2>1 DEF Action
<1>4. fds[s] # NoClient
  BY <1>3 DEF IInv, ServerInv, OutboxIsOpen
<1>5. outbox # <<Close(s)>>
  <2>1. \A e : Head(<<e>>) = e
    BY SMT
  <2> QED BY <1>2, <2>1 DEF Close
<1>6. link[fds[s]] = "up"
  BY <1>3, <1>4, <1>5, Linked
<1> QED BY <1>1, <1>4, <1>6 DEF SendToFails, SendDownFails

(* sendTo: what is heard is now on its way.                                *)
LEMMA SendToRoom ==
    ASSUME IInv, IInv', RoomInv, SendTo, UNCHANGED clientVars
    PROVE  RoomInv' /\ RoomStep
<1>1. TypeOK /\ TypeOK' /\ OutboxIsOpen
  BY DEF IInv, ServerInv
<1>2. PICK a, rest : a = Head(outbox) /\ rest = Tail(outbox)
  OBVIOUS
<1>3. /\ outbox # <<>> /\ outbox \in Seq(Action) /\ a.op = "send" /\ outbox' = rest
      /\ UNCHANGED <<server, backlog, fds, pollSet, list, buf, up>>
  BY <1>1, <1>2 DEF SendTo, Sending, SendDown, TypeOK
<1>4. /\ a \in Action /\ a = outbox[1] /\ 1 \in DOMAIN outbox /\ rest \in Seq(Action)
      /\ \A i \in DOMAIN rest : i + 1 \in DOMAIN outbox /\ rest[i] = outbox[i + 1]
  BY <1>2, <1>3, Taken
<1>5. PICK s, p : s = a.socket /\ p = a.pdu
  OBVIOUS
<1>6. s \in FD /\ p \in PDU /\ fds[s] # NoClient
  BY <1>1, <1>4, <1>5 DEF Action, OutboxIsOpen
<1>7. \A t : outbox # <<Close(t)>>
  <2>1. \A e : Head(<<e>>) = e
    BY SMT
  <2> QED BY <1>2, <1>3, <2>1 DEF Close
<1>8. PICK c \in Clients : c = fds[s]
  BY <1>1, <1>6 DEF TypeOK
<1>9. link[c] = "up" /\ ~ Turned(c) /\ cstate[c] # "START"
  BY <1>6, <1>7, <1>8, Linked
<1>10. link' = link /\ down' = [down EXCEPT ![c] = Append(down[c], p)]
  <2>1. "up" # "fin"
    OBVIOUS
  <2>2. SendDown(c, p)
    BY <1>2, <1>5, <1>8 DEF SendTo
  <2> QED BY <1>9, <2>1, <2>2 DEF SendDown
<1>11. down'[c] = Append(down[c], p) /\ \A d \in Clients \ {c} : down'[d] = down[d]
  BY <1>1, <1>10 DEF TypeOK
<1>12. /\ Append(down[c], p) # <<>>
       /\ Head(Append(down[c], p)) = IF down[c] = <<>> THEN p ELSE Head(down[c])
       /\ \A i \in DOMAIN Append(down[c], p) :
             \/ i \in DOMAIN down[c] /\ Append(down[c], p)[i] = down[c][i]
             \/ Append(down[c], p)[i] = p
  <2>1. down[c] \in Seq(PDU) /\ p \in PDU
    BY <1>1, <1>6, TypesOf
  <2> QED
    BY <2>1, Added
<1>13. p.flag # "EXIT" /\ (Unlisted(c) => p.flag = "IN_USE")
  <2>1. SendsInRoom
    BY DEF RoomInv
  <2> QED
    BY <1>3, <1>4, <1>5, <1>8, <2>1 DEF SendsInRoom
<1>14. \A d \in Clients : cstate'[d] = cstate[d] /\ cout'[d] = cout[d]
  BY DEF clientVars
<1>15. \A d : Unlisted(d)' <=> Unlisted(d)
  BY <1>3 DEF Unlisted
<1>16. \A d \in Clients \ {c} : Turned(d)' <=> Turned(d)
  BY <1>11, <1>14 DEF Turned
(* The answer to the name of c is the only thing that turns it away.       *)
<1>17. ASSUME Turned(c)' PROVE outbox' = <<Close(s)>>
  <2>1. cstate[c] = "CONF" /\ down[c] = <<>> /\ p.flag = "IN_USE"
    BY <1>9, <1>11, <1>12, <1>14, <1>17 DEF Turned
  <2>2. ClientInv(c) /\ server = "RUNNING"
    BY DEF IInv, RoomInv
  <2>3. ~ Fresh(c)
    BY <1>4, <1>5, <1>8 DEF Fresh, NotSentTo
  <2>4. Served(c)
    BY <2>1, <2>2, <2>3 DEF ClientInv, Waits
  <2>5. PICK t \in FD :
           /\ fds[t] = c
           /\ \/ outbox = <<Send(t, Command("OK"))>>
              \/ outbox = <<Send(t, Command("IN_USE")), Close(t)>>
    BY <2>4 DEF Served
  <2>6. t = s
    BY <1>1, <1>6, <1>8, <2>5, NoneAssumption DEF IInv, ServerInv, Connected
  <2>7. \A e, f : Head(<<e>>) = e /\ Tail(<<e, f>>) = <<f>>
    BY SMT
  <2>8. outbox # <<Send(t, Command("OK"))>>
    <3>1. Command("OK").flag = "OK"
      BY PDUTypes DEF FLAG
    <3>2. Send(t, Command("OK")).pdu = Command("OK")
      BY DEF Send
    <3> QED BY <1>2, <1>5, <2>1, <2>7, <3>1, <3>2
  <2> QED BY <1>2, <1>3, <2>5, <2>6, <2>7, <2>8
<1>18. TurnsAway'
  <2>1. ASSUME NEW i \in DOMAIN backlog', NEW e, e = backlog'[i] PROVE ~ Turned(e)'
    <3>1. backlog[i] \in Clients /\ i \in DOMAIN backlog
      <4>1. backlog \in Seq(Clients)
        BY <1>1 DEF TypeOK
      <4> QED BY <1>3, <4>1, LenProperties, ElementOfSeq
    <3>2. backlog[i] # c
      BY <1>6, <1>8, <3>1 DEF IInv, ServerInv, Connected
    <3>3. ~ Turned(e) /\ e \in Clients \ {c}
      BY <1>3, <2>1, <3>1, <3>2 DEF RoomInv, TurnsAway
    <3> QED BY <1>16, <3>3
  <2>2. ASSUME NEW t \in FD, NEW e, e = fds'[t], e # NoClient, Turned(e)'
        PROVE  outbox' = <<Close(t)>>
    <3>1. fds[t] = e /\ e \in Clients /\ e # NoClient
      BY <1>1, <1>3, <2>2 DEF TypeOK
    <3>2. CASE e = c
      <4>1. t = s
        BY <1>6, <1>8, <3>1, <3>2 DEF IInv, ServerInv, Connected
      <4> QED BY <1>17, <2>2, <3>2, <4>1
    <3>3. CASE e # c
      <4>1. Turned(e)
        BY <1>16, <2>2, <3>1, <3>3
      <4> QED BY <1>7, <3>1, <4>1 DEF RoomInv, TurnsAway
    <3> QED BY <3>2, <3>3
  <2> QED BY <2>1, <2>2 DEF TurnsAway
<1>19. ASSUME NEW i \in DOMAIN outbox', NEW t, t = outbox'[i].socket
       PROVE  /\ outbox'[i].pdu.flag # "EXIT"
              /\ outbox'[i].op = "send" /\ Unlisted(fds[t]) => outbox'[i].pdu.flag = "IN_USE"
              /\ outbox'[i].op = "close" => Closing(t)'
  <2>1. PICK j \in DOMAIN outbox : outbox'[i] = outbox[j]
    BY <1>3, <1>4
  <2>2. /\ outbox[j].pdu.flag # "EXIT"
        /\ outbox[j].op = "send" /\ Unlisted(fds[t]) => outbox[j].pdu.flag = "IN_USE"
        /\ outbox[j].op = "close" => Closing(t)
    BY <1>19, <2>1 DEF RoomInv, SendsInRoom
  <2>3. ASSUME Closing(t) PROVE Closing(t)'
    <3>1. /\ outbox = <<Send(t, Command("IN_USE")), Close(t)>>
          /\ cstate[fds[t]] = "CONF" /\ down[fds[t]] = <<>>
      BY <1>7, <2>3 DEF Closing
    <3>2. \A e, f : Head(<<e, f>>) = e /\ Tail(<<e, f>>) = <<f>>
      BY SMT
    <3>3. a = Send(t, Command("IN_USE")) /\ outbox' = <<Close(t)>>
      BY <1>2, <1>3, <3>1, <3>2
    <3>4. s = t /\ p = Command("IN_USE")
      BY <1>5, <3>3 DEF Send
    <3>5. p.flag = "IN_USE"
      BY <3>4, PDUTypes DEF FLAG
    <3>6. cstate[c] = "CONF" /\ down[c] = <<>> /\ fds'[t] = c
      BY <1>3, <1>8, <3>1, <3>4
    <3>7. Turned(c)'
      BY <1>11, <1>12, <1>14, <3>5, <3>6 DEF Turned
    <3>8. Turned(fds[t])'
      BY <1>3, <3>6, <3>7
    <3> QED BY <3>3, <3>8 DEF Closing
  <2> QED BY <2>1, <2>2, <2>3
<1>20. SendsInRoom'
  BY <1>3, <1>15, <1>19 DEF SendsInRoom
<1>21. ASSUME NEW d \in Clients PROVE Guest(d)'
  <2>1. Guest(d)
    BY DEF RoomInv
  <2>2. CASE d # c
    <3>1. \A i \in DOMAIN up'[d] : \E j \in DOMAIN up[d] : up'[d][i] = up[d][j]
      BY <1>3
    <3> QED BY <1>10, <1>11, <1>15, <2>1, <2>2, <3>1, GuestKept
  <2>3. CASE d = c
    <3>1. Speaks(c)'
      BY <1>3, <1>11, <1>12, <1>13, <1>14, <2>1, <2>3 DEF Guest, Speaks
    <3>2. Stands(c)'
      BY <1>9, <1>10, <1>14, <2>1, <2>3 DEF Guest, Stands
    <3>3. Outside(c)'
      BY <1>3, <1>11, <1>12, <1>13, <1>14, <1>15, <2>1, <2>3 DEF Guest, Outside
    <3> QED BY <2>3, <3>1, <3>2, <3>3 DEF Guest
  <2> QED BY <2>2, <2>3
<1>22. RoomInv'
  BY <1>3, <1>18, <1>20, <1>21 DEF RoomInv
<1>23. ASSUME NEW d \in Clients PROVE HeardBy(d)' = HeardBy(d)
  <2>1. PICK u, v, x, w : /\ u = screen[d] /\ v = Texts(down[d])
                          /\ x = Part(d, fds, a) /\ w = TextsFor(d, fds, rest)
    OBVIOUS
  <2>2. u \in Seq(Text) /\ v \in Seq(Text) /\ w \in Seq(Text)
    BY <1>1, <1>4, <2>1, TypesOf, TextsType, TextsForType
  <2>3. x = IF d = c THEN Shown(p) ELSE <<>>
    BY <1>5, <1>8, <2>1 DEF Part
  <2>4. x \in Seq(Text)
    BY <1>6, <2>3, ShownTypes, Nil
  <2>5. TextsFor(d, fds, outbox) = x \o w
    BY <1>2, <1>3, <2>1, TextsForTaken
  <2>6. Texts(down'[d]) = v \o x
    <3>1. CASE d = c
      BY <1>1, <1>6, <1>11, <2>1, <2>3, <3>1, TypesOf, TextsAdded
    <3>2. CASE d # c
      BY <1>11, <2>1, <2>2, <2>3, <3>2, ConcatEmptySeq
    <3> QED BY <3>1, <3>2
  <2>7. (u \o (v \o x)) \o w = (u \o v) \o (x \o w)
    <3>1. PICK y : y = u \o v
      OBVIOUS
    <3>2. u \in Seq(Text) /\ v \in Seq(Text) /\ x \in Seq(Text) /\ w \in Seq(Text)
      BY <2>2, <2>4
    <3>3. y \in Seq(Text)
      BY <3>1, <3>2, ConcatProperties
    <3>4. (u \o v) \o x = u \o (v \o x)
      BY ONLY SMT, <3>2
    <3>5. (y \o x) \o w = y \o (x \o w)
      <4>1. x \in Seq(Text) /\ w \in Seq(Text)
        BY <3>2
      <4> QED BY ONLY SMT, <3>3, <4>1
    <3> QED BY <3>1, <3>4, <3>5
  <2>8. screen'[d] = u /\ TextsFor(d, fds', outbox') = w
    BY <1>3, <2>1 DEF clientVars
  <2>9. HeardBy(d) = (u \o v) \o (x \o w)
    BY <2>1, <2>5 DEF HeardBy
  <2>10. HeardBy(d)' = (u \o (v \o x)) \o w
    BY <2>6, <2>8 DEF HeardBy
  <2> QED BY <2>7, <2>9, <2>10
<1>24. Members' = Members
  BY <1>3 DEF Members
<1> QED BY <1>22, <1>23, <1>24, Unheard

(* The connection of a client that was turned away is closed.              *)
LEMMA CloseRoom ==
    ASSUME IInv, IInv', RoomInv, CloseSocket, UNCHANGED clientVars
    PROVE  RoomInv' /\ RoomStep
<1>1. TypeOK /\ TypeOK' /\ Connected /\ OutboxIsOpen
  BY DEF IInv, ServerInv
<1>2. outbox \in Seq(Action) /\ outbox # <<>> /\ Head(outbox).op = "close"
  BY <1>1 DEF TypeOK, CloseSocket, Sending
<1>3. PICK s : s = Head(outbox).socket
  OBVIOUS
<1>4. Head(outbox) = outbox[1] /\ 1 \in DOMAIN outbox /\ Head(outbox) \in Action
  BY <1>2, Taken
<1>5. s \in FD /\ fds[s] # NoClient /\ \A j \in DOMAIN list : list[j].data # s
  BY <1>1, <1>2, <1>3, <1>4 DEF Action, OutboxIsOpen
<1>6. PICK c \in Clients : c = fds[s]
  BY <1>1, <1>5 DEF TypeOK
<1>7. Closing(s)
  BY <1>2, <1>3, <1>4 DEF RoomInv, SendsInRoom
<1>8. \A e, f : Head(<<e>>) = e /\ Tail(<<e>>) = <<>> /\ Head(<<e, f>>) = e
  BY SMT
<1>9. outbox = <<Close(s)>> /\ Turned(c)
  <2>1. outbox # <<Send(s, Command("IN_USE")), Close(s)>>
    BY <1>2, <1>8 DEF Send
  <2> QED BY <1>6, <1>7, <2>1 DEF Closing
<1>10. /\ fds' = [fds EXCEPT ![s] = NoClient] /\ outbox' = <<>>
       /\ CloseDown({c}, {})
       /\ UNCHANGED <<server, backlog, list, up, down>>
  BY <1>3, <1>6, <1>8, <1>9 DEF CloseSocket
<1>11. \A t \in FD : fds'[t] = IF t = s THEN NoClient ELSE fds[t]
  BY <1>1, <1>10 DEF TypeOK
<1>12. \A i \in DOMAIN list : fds'[list[i].data] = fds[list[i].data]
  BY <1>1, <1>5, <1>11, NodeTypes
<1>13. \A d \in Clients \ {c} : link'[d] = link[d]
  BY <1>10 DEF CloseDown
<1>14. Members' = Members
  BY <1>10, <1>12 DEF Members
<1>15. \A d : (Unlisted(d)' <=> Unlisted(d)) /\ (Turned(d)' <=> Turned(d))
  BY <1>10, <1>12 DEF Unlisted, Turned, clientVars
<1>16. DOMAIN outbox' = {}
  BY <1>10, Nil
<1>17. TurnsAway'
  <2>1. \A i \in DOMAIN backlog' : ~ Turned(backlog'[i])
    BY <1>10 DEF RoomInv, TurnsAway
  <2>2. ASSUME NEW t \in FD PROVE fds'[t] # NoClient => ~ Turned(fds'[t])
    <3>1. CASE t = s
      BY <1>11, <3>1
    <3>2. CASE t # s
      <4>1. <<Close(s)>> # <<Close(t)>>
        <5>1. Close(s) # Close(t)
          BY <3>2 DEF Close
        <5> QED BY <1>8, <5>1
      <4> QED BY <1>9, <1>11, <3>2, <4>1 DEF RoomInv, TurnsAway
    <3> QED BY <3>1, <3>2
  <2> QED BY <1>15, <2>1, <2>2 DEF TurnsAway
<1>18. SendsInRoom'
  BY <1>16 DEF SendsInRoom
<1>19. ASSUME NEW d \in Clients PROVE Guest(d)'
  <2>1. link'[d] = link[d] \/ Turned(d)
    BY <1>9, <1>13
  <2>2. \A i \in DOMAIN up'[d] : \E j \in DOMAIN up[d] : up'[d][i] = up[d][j]
    BY <1>10
  <2> QED BY <1>10, <1>15, <2>1, <2>2, GuestKept DEF RoomInv
<1>20. RoomInv'
  BY <1>10, <1>17, <1>18, <1>19 DEF RoomInv
<1>21. ASSUME NEW d \in Clients PROVE HeardBy(d)' = HeardBy(d)
  <2>1. SilentTo(d, fds, outbox)
    <3>1. NoPDU.flag = "NONE"
      BY PDUTypes DEF NoPDU, FLAG
    <3>2. Shown(NoPDU) = <<>>
      BY <3>1, NotShown
    <3>3. \A e, i : i \in DOMAIN <<e>> => <<e>>[i] = e
      BY SMT
    <3>4. \A i \in DOMAIN outbox : outbox[i] = Close(s)
      BY <1>9, <3>3
    <3>5. Close(s).pdu = NoPDU
      BY DEF Close
    <3> QED BY <3>2, <3>4, <3>5 DEF SilentTo
  <2>2. TextsFor(d, fds, outbox) = <<>>
    BY <1>2, <2>1, TextsForNone
  <2>3. TextsFor(d, fds', outbox') = <<>>
    BY <1>10, TextsForNil
  <2>4. screen' = screen
    BY DEF clientVars
  <2> QED BY <1>10, <2>2, <2>3, <2>4 DEF HeardBy
<1> QED BY <1>14, <1>20, <1>21, Unheard

(* A client connects.                                                      *)
LEMMA ArriveRoom ==
    ASSUME IInv, IInv', RoomInv, NEW c \in Clients, Arrive(c)
    PROVE  RoomInv' /\ RoomStep
<1>1. TypeOK /\ TypeOK'
  BY DEF IInv
<1>2. /\ cstate[c] = "START"
      /\ cstate' = [cstate EXCEPT ![c] = "CONF"]
      /\ cout' = [cout EXCEPT ![c] = <<Hello(c)>>]
      /\ link' = [link EXCEPT ![c] = "up"]
      /\ UNCHANGED <<screen, up, down, server, fds, list, outbox>>
      /\ backlog' = Append(backlog, c)
  BY DEF Arrive, Connect, Goto, Hello
<1>3. /\ \A s \in FD : fds[s] # c
      /\ up[c] = <<>> /\ down[c] = <<>>
  BY <1>2 DEF IInv, ClientInv, Starts
<1>4. cstate'[c] = "CONF" /\ cout'[c] = <<Hello(c)>> /\ link'[c] = "up"
  BY <1>1, <1>2 DEF TypeOK
<1>5. \A d \in Clients \ {c} :
         cstate'[d] = cstate[d] /\ cout'[d] = cout[d] /\ link'[d] = link[d]
  BY <1>1, <1>2 DEF TypeOK
<1>6. ~ Turned(c)'
  BY <1>2, <1>3, <1>4 DEF Turned
<1>7. \A d \in Clients \ {c} : Turned(d)' <=> Turned(d)
  BY <1>2, <1>5 DEF Turned
<1>8. \A d : Unlisted(d)' <=> Unlisted(d)
  BY <1>2 DEF Unlisted
<1>9. backlog \in Seq(Clients)
  BY <1>1 DEF TypeOK
<1>10. TurnsAway'
  <2>1. ASSUME NEW i \in DOMAIN backlog', NEW e, e = backlog'[i] PROVE ~ Turned(e)'
    <3>1. (i \in DOMAIN backlog /\ e = backlog[i]) \/ e = c
      BY <1>2, <1>9, <2>1, Added
    <3>2. CASE e = c
      BY <1>6, <3>2
    <3>3. CASE i \in DOMAIN backlog /\ e = backlog[i] /\ e # c
      <4>1. e \in Clients
        BY <1>9, <3>3, LenProperties, ElementOfSeq
      <4>2. ~ Turned(e)
        BY <3>3 DEF RoomInv, TurnsAway
      <4> QED BY <1>7, <3>3, <4>1, <4>2
    <3> QED BY <3>1, <3>2, <3>3
  <2>2. ASSUME NEW t \in FD, NEW e, e = fds'[t], e # NoClient, Turned(e)'
        PROVE  outbox' = <<Close(t)>>
    <3>1. e = fds[t] /\ e \in Clients
      BY <1>1, <1>2, <2>2 DEF TypeOK
    <3>2. e # c
      BY <1>3, <3>1
    <3>3. Turned(e)
      BY <1>7, <2>2, <3>1, <3>2
    <3> QED BY <1>2, <2>2, <3>1, <3>3 DEF RoomInv, TurnsAway
  <2> QED BY <2>1, <2>2 DEF TurnsAway
<1>11. ASSUME NEW i \in DOMAIN outbox', NEW t, t = outbox'[i].socket
       PROVE  /\ outbox'[i].pdu.flag # "EXIT"
              /\ outbox'[i].op = "send" /\ Unlisted(fds[t]) => outbox'[i].pdu.flag = "IN_USE"
              /\ outbox'[i].op = "close" => Closing(t)'
  <2>1. /\ outbox[i].pdu.flag # "EXIT" /\ outbox'[i] = outbox[i] /\ i \in DOMAIN outbox
        /\ outbox[i].op = "send" /\ Unlisted(fds[t]) => outbox[i].pdu.flag = "IN_USE"
        /\ outbox[i].op = "close" => Closing(t)
    BY <1>2, <1>11 DEF RoomInv, SendsInRoom
  <2>2. t \in FD /\ fds[t] # NoClient
    BY <1>11, <2>1, OutboxTypes DEF IInv, ServerInv, OutboxIsOpen
  <2>3. PICK d : d = fds[t]
    OBVIOUS
  <2>4. d \in Clients \ {c} /\ fds'[t] = d
    BY <1>1, <1>2, <1>3, <2>2, <2>3 DEF TypeOK
  <2>5. cstate'[d] = cstate[d] /\ down'[d] = down[d] /\ outbox' = outbox
    BY <1>2, <1>5, <2>4
  <2>6. Turned(d)' <=> Turned(d)
    BY <1>7, <2>4
  <2>7. Turned(fds[t])' <=> Turned(fds[t])
    BY <1>2, <2>3, <2>4, <2>6
  <2>8. Closing(t) => Closing(t)'
    BY <2>3, <2>4, <2>5, <2>7 DEF Closing
  <2> QED BY <2>1, <2>8
<1>12. SendsInRoom'
  BY <1>2, <1>8, <1>11 DEF SendsInRoom
<1>13. ASSUME NEW d \in Clients PROVE Guest(d)'
  <2>1. Guest(d)
    BY DEF RoomInv
  <2>2. CASE d # c
    <3>1. cstate'[d] = cstate[d] /\ cout'[d] = cout[d] /\ link'[d] = link[d]
          /\ up'[d] = up[d] /\ down'[d] = down[d]
      BY <1>2, <1>5, <2>2
    <3>2. Speaks(d)'
      BY <2>1, <3>1 DEF Guest, Speaks
    <3>3. Stands(d)'
      BY <1>7, <2>1, <2>2, <3>1 DEF Guest, Stands
    <3>4. Outside(d)'
      BY <1>8, <2>1, <3>1 DEF Guest, Outside
    <3> QED BY <3>2, <3>3, <3>4 DEF Guest
  <2>3. CASE d = c
    <3>1. \A e, i : i \in DOMAIN <<e>> => <<e>>[i] = e
      BY SMT
    <3>2. \A i \in DOMAIN cout'[c] : cout'[c][i] = Hello(c)
      BY <1>4, <3>1
    <3>3. DOMAIN up'[c] = {} /\ DOMAIN down'[c] = {}
      BY <1>2, <1>3, Nil
    <3>4. Hello(c).flag = "HELLO"
      BY HelloType
    <3>5. Speaks(c)'
      BY <3>2, <3>3, <3>4 DEF Speaks, Says
    <3>6. Stands(c)'
      BY <1>4 DEF Stands
    <3>7. Outside(c)'
      BY <1>4, <3>2, <3>3, <3>4 DEF Outside
    <3> QED BY <2>3, <3>5, <3>6, <3>7 DEF Guest
  <2> QED BY <2>2, <2>3
<1>14. RoomInv'
  BY <1>2, <1>10, <1>12, <1>13 DEF RoomInv
<1>15. Members' = Members
  BY <1>2 DEF Members
<1>16. \A d \in Clients : HeardBy(d)' = HeardBy(d)
  BY <1>2 DEF HeardBy
<1> QED BY <1>14, <1>15, <1>16, Unheard

-----------------------------------------------------------------------------
(* What the server answers.                                                *)

(* The steps of the room: a client with a new name joins, ...              *)
LEMMA Joining ==
    ASSUME NEW c \in Clients, \A d \in Members : name[d] # name[c],
           Members' = Members \cup {c}, \A d \in Clients : HeardBy(d)' = HeardBy(d)
    PROVE  RoomStep
<1>1. [d \in Clients |-> HeardBy(d)'] = [d \in Clients |-> HeardBy(d)]
  OBVIOUS
<1>2. Room!Join(c)
  BY <1>1 DEF Room!Join, Members, HeardBy
<1> QED BY <1>2 DEF RoomStep, Room!Next

(* ... a text to everybody else, ...                                       *)
LEMMA Telling ==
    ASSUME NEW c \in Clients, NEW t \in RoomText(c), c \in Members, Members' = Members,
           \A d \in Clients :
              HeardBy(d)' = HeardBy(d) \o Times(t, IF d \in Members \ {c} THEN 1 ELSE 0)
    PROVE  RoomStep
<1>1. ASSUME NEW d \in Clients
      PROVE  HeardBy(d)' = Room!Hears(d, t, IF d \in Members \ {c} THEN 1 ELSE 0)
  BY DEF Room!Hears, HeardBy, Times
<1>2. Room!Broadcast(c, t)
  <2>1. [d \in Clients |-> HeardBy(d)'] =
           [d \in Clients |-> Room!Hears(d, t, IF d \in Members \ {c} THEN 1 ELSE 0)]
    BY <1>1
  <2> QED BY <2>1 DEF Room!Broadcast, Members, HeardBy
<1>3. t \in [d \in Clients |-> RoomText(d)][c]
  OBVIOUS
<1> QED BY <1>2, <1>3 DEF RoomStep, Room!Next, RoomText

(* ... and a text to those it names.                                       *)
LEMMA TellingSome ==
    ASSUME NEW c \in Clients, NEW t \in RoomText(c), NEW to \in To,
           c \in Members, Members' = Members,
           \A d \in Clients :
              HeardBy(d)' = HeardBy(d)
                 \o Times(t, IF d \in Members THEN Room!Named(d, to) ELSE 0)
    PROVE  RoomStep
<1>1. ASSUME NEW d \in Clients
      PROVE  HeardBy(d)' = Room!Hears(d, t, IF d \in Members THEN Room!Named(d, to) ELSE 0)
  BY DEF Room!Hears, HeardBy, Times
<1>2. Room!Message(c, t, to)
  <2>1. [d \in Clients |-> HeardBy(d)'] =
           [d \in Clients |-> Room!Hears(d, t, IF d \in Members THEN Room!Named(d, to) ELSE 0)]
    BY <1>1
  <2> QED BY <2>1 DEF Room!Message, Members, HeardBy
<1>3. t \in [d \in Clients |-> RoomText(d)][c]
  OBVIOUS
<1> QED BY <1>2, <1>3 DEF RoomStep, Room!Next, RoomText

-----------------------------------------------------------------------------
(* The server reads a PDU.                                                 *)

(* What a client hears is text.                                            *)
LEMMA HeardByType ==
    ASSUME TypeOK, NEW d \in Clients
    PROVE  HeardBy(d) \in Seq(Text)
<1>1. PICK u, v, x : u = screen[d] /\ v = Texts(down[d]) /\ x = TextsFor(d, fds, outbox)
  OBVIOUS
<1>2. outbox \in Seq(Action)
  BY DEF TypeOK
<1>3. u \in Seq(Text) /\ v \in Seq(Text) /\ x \in Seq(Text)
  BY <1>1, <1>2, TypesOf, TextsType, TextsForType
<1>4. u \o v \in Seq(Text)
  BY <1>3, ConcatProperties
<1>5. (u \o v) \o x \in Seq(Text)
  BY <1>3, <1>4, ConcatProperties
<1> QED BY <1>1, <1>5 DEF HeardBy

(* The PDU that the server reads: who is not in the room can only          *)
(* register.                                                               *)
LEMMA Asks ==
    ASSUME IInv, RoomInv, NEW s \in FD, processClient(s), NEW c, c = fds[s],
           NEW p, p = Head(up[c])
    PROVE  /\ c \in Clients /\ p \in PDU /\ Says(c, p) /\ outbox = <<>>
           /\ ~ Turned(c) /\ cstate[c] \in {"CONF", "POLL", "LIST", "DEAF"}
           /\ up[c] # <<>> /\ p = up[c][1] /\ 1 \in DOMAIN up[c]
           /\ p.flag # "HELLO" => c \in Members
           /\ p.flag # "HELLO" => ~ Unlisted(c)
<1>1. c \in Clients /\ outbox = <<>> /\ s # ServerSocket /\ up[c] # <<>>
  BY Polled DEF processClient
<1>2. <<>> # <<Close(s)>>
  BY SMT
<1>3. ~ Turned(c) /\ cstate[c] # "START"
  BY <1>1, <1>2, Linked, NoneAssumption
<1>4. p \in PDU /\ p = up[c][1] /\ 1 \in DOMAIN up[c]
  BY <1>1, TypesOf, Taken DEF IInv
<1>5. Guest(c)
  BY <1>1 DEF RoomInv
<1>6. Says(c, p)
  BY <1>4, <1>5 DEF Guest, Speaks
<1>7. cstate[c] \in {"CONF", "POLL", "LIST", "DEAF"}
  BY <1>3, <1>5 DEF Guest, Stands, Turned
<1>8. p.flag # "HELLO" => ~ Unlisted(c)
  BY <1>4, <1>5 DEF Guest, Outside
<1>9. ~ Unlisted(c) => c \in Members
  BY DEF Unlisted, Members
<1> QED BY <1>1, <1>3, <1>4, <1>6, <1>7, <1>8, <1>9

(* If its answers stay in the room, everybody hears them after the rest.   *)
LEMMA ReadRoom ==
    ASSUME IInv, IInv', RoomInv, NEW s \in FD, processClient(s), UNCHANGED clientVars,
           SendsInRoom', \A d \in Clients : Unlisted(d)' => Unlisted(d)
    PROVE  /\ RoomInv'
           /\ \A d \in Clients : HeardBy(d)' = HeardBy(d) \o TextsFor(d, fds, outbox')
<1>1. TypeOK /\ TypeOK'
  BY DEF IInv
<1>2. PICK c : c = fds[s]
  OBVIOUS
<1>3. c \in Clients /\ outbox = <<>> /\ up[c] # <<>>
  BY <1>2, Asks
<1>4. /\ up' = [up EXCEPT ![c] = Tail(up[c])]
      /\ UNCHANGED <<server, backlog, fds, pollSet, link, down>>
  BY <1>2 DEF processClient, RecvUp
<1>5. \A d : Turned(d)' <=> Turned(d)
  BY <1>4 DEF Turned, clientVars
<1>6. ASSUME NEW t \in FD, fds[t] # NoClient PROVE ~ Turned(fds[t])
  <2>1. <<>> # <<Close(t)>>
    BY SMT
  <2> QED BY <1>3, <1>6, <2>1 DEF RoomInv, TurnsAway
<1>7. TurnsAway'
  BY <1>4, <1>5, <1>6 DEF RoomInv, TurnsAway
<1>8. ASSUME NEW d \in Clients PROVE Guest(d)'
  <2>1. Guest(d)
    BY DEF RoomInv
  <2>2. \A i \in DOMAIN up'[d] : \E j \in DOMAIN up[d] : up'[d][i] = up[d][j]
    <3>1. CASE d = c
      <4>1. \A i \in DOMAIN Tail(up[c]) :
               i + 1 \in DOMAIN up[c] /\ Tail(up[c])[i] = up[c][i + 1]
        BY <1>1, <1>3, TypesOf, Taken
      <4>2. up'[d] = Tail(up[c])
        BY <1>1, <1>3, <1>4, <3>1 DEF TypeOK
      <4> QED BY <3>1, <4>1, <4>2
    <3>2. CASE d # c
      <4>1. up'[d] = up[d]
        BY <1>1, <1>4, <3>2 DEF TypeOK
      <4> QED BY <4>1
    <3> QED BY <3>1, <3>2
  <2> QED BY <1>4, <2>1, <2>2, GuestKept
<1>9. RoomInv'
  BY <1>4, <1>7, <1>8 DEF RoomInv
<1>10. ASSUME NEW d \in Clients
       PROVE  HeardBy(d)' = HeardBy(d) \o TextsFor(d, fds, outbox')
  <2>1. PICK u, v, x : u = screen[d] /\ v = Texts(down[d]) /\ x = TextsFor(d, fds, outbox')
    OBVIOUS
  <2>2. TextsFor(d, fds, outbox) = <<>>
    BY <1>3, TextsForNil
  <2>3. u \in Seq(Text) /\ v \in Seq(Text)
    BY <1>1, <2>1, TypesOf, TextsType
  <2>4. (u \o v) \o <<>> = u \o v
    <3>1. u \o v \in Seq(Text)
      BY <2>3, ConcatProperties
    <3> QED BY <3>1, ConcatEmptySeq
  <2>5. HeardBy(d) = u \o v
    BY <2>1, <2>2, <2>4 DEF HeardBy
  <2>6. HeardBy(d)' = (u \o v) \o x
    BY <1>4, <2>1 DEF HeardBy, clientVars
  <2> QED BY <2>1, <2>5, <2>6
<1> QED BY <1>9, <1>10

(* connectClient.                                                          *)
LEMMA HelloRoom ==
    ASSUME IInv, IInv', RoomInv, NEW s \in FD, processClient(s), UNCHANGED clientVars,
           Head(up[fds[s]]).flag = "HELLO"
    PROVE  RoomInv' /\ RoomStep
<1>1. TypeOK /\ TypeOK' /\ NodesAreOpen
  BY DEF IInv, ServerInv
<1>2. PICK c, p : c = fds[s] /\ p = Head(up[c])
  OBVIOUS
<1>3. /\ c \in Clients /\ ~ Turned(c) /\ cstate[c] \in {"CONF", "POLL", "LIST", "DEAF"}
      /\ up[c] # <<>> /\ p = up[c][1] /\ 1 \in DOMAIN up[c]
  BY <1>2, Asks
<1>4. ClientInv(c)
  BY <1>3 DEF IInv
<1>5. up[c] = <<Hello(c)>> /\ cstate[c] = "CONF" /\ Unlisted(c)
  BY <1>2, <1>3, <1>4 DEF ClientInv, Registers
<1>6. p.handle = name[c]
  <2>1. \A e : <<e>>[1] = e
    BY SMT
  <2> QED BY <1>3, <1>5, <2>1, HelloType
<1>7. down[c] = <<>>
  <2>1. ~ Answered(c)
    BY <1>3 DEF Answered
  <2> QED BY <1>4, <1>5, <2>1 DEF ClientInv, Waits
<1>8. UNCHANGED <<fds, down, cstate>>
  BY DEF processClient, clientVars
<1>10. PICK node : node = [data |-> s, handle |-> p.handle]
  OBVIOUS
<1>11. IF getClientHandle(list, p.handle) = NULL
       THEN list' = Append(list, node) /\ outbox' = <<Send(s, Command("OK"))>>
       ELSE outbox' = <<Send(s, Command("IN_USE")), Close(s)>> /\ UNCHANGED list
  BY <1>2, <1>10 DEF processClient, connectClient, insertList
<1>12. list \in Seq(Node(FD, Handle))
  BY <1>1 DEF TypeOK
<1>13. \A flag : /\ Send(s, Command(flag)).op = "send" /\ Send(s, Command(flag)).socket = s
                 /\ Send(s, Command(flag)).pdu = Command(flag)
                 /\ Command(flag).flag = flag
  BY DEF Send, Command
<1>14. Close(s).op = "close" /\ Close(s).socket = s /\ Close(s).pdu.flag = "NONE"
  BY DEF Close, NoPDU, Command
<1>15. CASE getClientHandle(list, p.handle) = NULL
  <2>1. list' = Append(list, node) /\ outbox' = <<Send(s, Command("OK"))>>
    BY <1>11, <1>15
  <2>2. \A i \in DOMAIN outbox' : outbox'[i] = Send(s, Command("OK"))
    <3>1. \A e, i : i \in DOMAIN <<e>> => <<e>>[i] = e
      BY SMT
    <3> QED BY <2>1, <3>1
  <2>3. /\ Len(list) \in Nat /\ DOMAIN list = 1 .. Len(list)
        /\ DOMAIN list' = 1 .. Len(list) + 1
        /\ \A i \in DOMAIN list : list'[i] = list[i]
        /\ list'[Len(list) + 1] = node
    BY SMT, <1>12, <2>1
  <2>4. /\ \A i \in DOMAIN list : i \in DOMAIN list' /\ list'[i] = list[i]
        /\ \A i \in DOMAIN list' : i \in DOMAIN list \/ list'[i] = node
        /\ \E i \in DOMAIN list' : list'[i] = node
    <3>1. /\ \A i \in 1 .. Len(list) : i \in 1 .. Len(list) + 1
          /\ \A i \in 1 .. Len(list) + 1 : i \in 1 .. Len(list) \/ i = Len(list) + 1
          /\ Len(list) + 1 \in 1 .. Len(list) + 1
      BY SMT, <2>3
    <3> QED BY <2>3, <3>1
  <2>5. node.data = s
    BY <1>10
  <2>6. Members' = Members \cup {c}
    BY <1>2, <1>8, <2>4, <2>5 DEF Members
  <2>7. \A d : Unlisted(d)' => Unlisted(d)
    BY <1>8, <2>4 DEF Unlisted
  <2>8. ~ Unlisted(c)'
    BY <1>2, <1>8, <2>4, <2>5 DEF Unlisted
  <2>9. SendsInRoom'
    BY <1>2, <1>8, <1>13, <2>2, <2>8 DEF SendsInRoom
  <2>10. ASSUME NEW d \in Clients PROVE HeardBy(d)' = HeardBy(d)
    <3>1. HeardBy(d)' = HeardBy(d) \o TextsFor(d, fds, outbox')
      BY <2>7, <2>9, ReadRoom
    <3>2. SilentTo(d, fds, outbox')
      <4>1. Shown(Command("OK")) = <<>>
        BY <1>13, NotShown
      <4> QED BY <1>13, <2>2, <4>1 DEF SilentTo
    <3>3. outbox' \in Seq(Action)
      BY <1>1 DEF TypeOK
    <3>4. TextsFor(d, fds, outbox') = <<>>
      BY <3>2, <3>3, TextsForNone
    <3>5. HeardBy(d) \in Seq(Text)
      BY <1>1, HeardByType
    <3> QED BY <3>1, <3>4, <3>5, ConcatEmptySeq
  <2>11. ASSUME NEW d \in Members PROVE name[d] # name[c]
    <3>1. PICK i \in DOMAIN list : d = fds[list[i].data]
      BY DEF Members
    <3>2. list[i].handle # name[c]
      BY <1>6, <1>12, <1>15, Found
    <3> QED BY <1>1, <3>1, <3>2 DEF NodesAreOpen
  <2> QED BY <1>3, <2>6, <2>7, <2>9, <2>10, <2>11, ReadRoom, Joining
<1>16. CASE getClientHandle(list, p.handle) # NULL
  <2>1. list' = list /\ outbox' = <<Send(s, Command("IN_USE")), Close(s)>>
    BY <1>11, <1>16
  <2>2. \A i \in DOMAIN outbox' : outbox'[i] \in {Send(s, Command("IN_USE")), Close(s)}
    <3>1. \A e, f, i : i \in DOMAIN <<e, f>> => <<e, f>>[i] \in {e, f}
      BY SMT
    <3> QED BY <2>1, <3>1
  <2>3. \A d : Unlisted(d)' <=> Unlisted(d)
    BY <1>8, <2>1 DEF Unlisted
  <2>4. Closing(s)'
    BY <1>2, <1>5, <1>7, <1>8, <2>1 DEF Closing
  <2>5. SendsInRoom'
    BY <1>13, <1>14, <2>2, <2>4 DEF SendsInRoom
  <2>6. ASSUME NEW d \in Clients PROVE HeardBy(d)' = HeardBy(d)
    <3>1. HeardBy(d)' = HeardBy(d) \o TextsFor(d, fds, outbox')
      BY <2>3, <2>5, ReadRoom
    <3>2. SilentTo(d, fds, outbox')
      <4>1. Shown(Command("IN_USE")) = <<>> /\ Shown(Close(s).pdu) = <<>>
        BY <1>13, <1>14, NotShown
      <4> QED BY <1>13, <2>2, <4>1 DEF SilentTo
    <3>3. outbox' \in Seq(Action)
      BY <1>1 DEF TypeOK
    <3>4. TextsFor(d, fds, outbox') = <<>>
      BY <3>2, <3>3, TextsForNone
    <3>5. HeardBy(d) \in Seq(Text)
      BY <1>1, HeardByType
    <3> QED BY <3>1, <3>4, <3>5, ConcatEmptySeq
  <2>7. Members' = Members
    BY <1>8, <2>1 DEF Members
  <2> QED BY <2>3, <2>5, <2>6, <2>7, ReadRoom, Unheard
<1> QED BY <1>15, <1>16

(* j is the node of d, which has another name than the one in p.           *)
Tells(j, p, d) == list[j].handle # p.handle /\ fds[list[j].data] = d

(* A broadcast is heard once, by those with another name.                  *)
LEMMA BroadcastTexts ==
    ASSUME TypeOK, Connected, NodesAreOpen, NEW p \in PDU, NEW d \in Clients
    PROVE  TextsFor(d, fds, recAndSendBroadCast(p)) =
              IF \E j \in DOMAIN list : Tells(j, p, d) THEN Shown(p) ELSE <<>>
<1>1. list \in Seq(Node(FD, Handle))
  BY DEF TypeOK
<1>2. PICK F, N : N = Len(list) /\ Copies(F, p, N) /\ recAndSendBroadCast(p) = F[N]
  BY <1>1, Broadcasts
<1>3. N \in Nat /\ DOMAIN list = 1 .. N
  BY SMT, <1>1, <1>2
<1>4. \A j \in 1 .. N : list[j].data \in FD
  BY <1>3, NodeTypes
<1>5. \A j, k \in 1 .. N : Tells(j, p, d) /\ Tells(k, p, d) => j = k
  BY <1>3, <1>4, NoneAssumption DEF Tells, Connected, NodesAreOpen
<1>6. PICK x \in Seq(Text) : x = Shown(p)
  BY ShownTypes
<1> DEFINE told(i) == \E j \in 1 .. i : Tells(j, p, d)
           heard(i) == IF told(i) THEN x ELSE <<>>
           P == {i \in 0 .. N : F[i] \in Seq(Action) /\ TextsFor(d, fds, F[i]) = heard(i)}
<1>7. 0 \in P
  <2>1. 0 \in 0 .. N /\ 1 .. 0 = {}
    BY SMT, <1>3
  <2>2. F[0] = <<>>
    BY <1>2, <2>1 DEF Copies
  <2>3. <<>> \in Seq(Action) /\ TextsFor(d, fds, <<>>) = <<>>
    BY Nil, TextsForNil
  <2> QED BY <2>1, <2>2, <2>3
<1>8. ASSUME NEW n \in 0 .. N - 1, n \in P
      PROVE  n + 1 \in P
  <2>1. PICK m : m = n + 1
    OBVIOUS
  <2>2. /\ m \in 0 .. N /\ m \in 1 .. N /\ m # 0 /\ m - 1 = n /\ n \in 0 .. N
        /\ \A j : j \in 1 .. m <=> (j \in 1 .. n \/ j = m)
        /\ m \notin 1 .. n /\ \A j \in 1 .. n : j \in 1 .. N
    BY SMT, <1>3, <2>1
  <2>3. PICK q : q = F[n]
    OBVIOUS
  <2>4. q \in Seq(Action) /\ TextsFor(d, fds, q) = heard(n)
    BY <1>8, <2>3
  <2>5. PICK a : a = Send(list[m].data, p)
    OBVIOUS
  <2>6. a \in Action /\ a.socket = list[m].data /\ a.pdu = p
    BY <1>4, <2>2, <2>5, SendTypes
  <2>7. F[m] = IF list[m].handle = p.handle THEN q ELSE Append(q, a)
    BY <1>2, <2>2, <2>3, <2>5 DEF Copies
  <2>8. told(m) <=> told(n) \/ Tells(m, p, d)
    BY <2>2
  <2>9. Tells(m, p, d) => ~ told(n)
    BY <1>5, <2>2
  <2> HIDE DEF told
  <2>10. CASE list[m].handle = p.handle
    <3>1. ~ Tells(m, p, d) /\ F[m] = q
      BY <2>7, <2>10 DEF Tells
    <3> QED BY <2>1, <2>2, <2>4, <2>8, <3>1
  <2>11. CASE list[m].handle # p.handle
    <3>1. Append(q, a) \in Seq(Action)
      BY <2>4, <2>6, AppendProperties
    <3>2. PICK y : y = heard(n)
      OBVIOUS
    <3>3. y \in Seq(Text)
      BY <3>2, Nil
    <3>4. TextsFor(d, fds, Append(q, a)) = y \o Part(d, fds, a)
      BY <2>4, <2>6, <3>2, TextsForAdded
    <3>5. Part(d, fds, a) = IF Tells(m, p, d) THEN x ELSE <<>>
      BY <1>6, <2>6, <2>11 DEF Part, Tells
    <3>6. y \o <<>> = y /\ <<>> \o x = x
      BY <3>3, ConcatEmptySeq
    <3>7. y \o Part(d, fds, a) = heard(m)
      <4>1. CASE Tells(m, p, d)
        BY <2>8, <2>9, <3>2, <3>5, <3>6, <4>1
      <4>2. CASE ~ Tells(m, p, d)
        BY <2>8, <3>2, <3>5, <3>6, <4>2
      <4> QED BY <4>1, <4>2
    <3> HIDE DEF heard
    <3> QED BY <2>1, <2>2, <2>7, <2>11, <3>1, <3>4, <3>7
  <2> QED BY <2>10, <2>11
<1>9. P = 0 .. N
  <2>1. P \in SUBSET (0 .. N)
    OBVIOUS
  <2> HIDE DEF P
  <2> QED BY <1>3, <1>7, <1>8, <2>1, UpTo
<1>10. N \in 0 .. N
  BY SMT, <1>3
<1> QED BY <1>2, <1>3, <1>6, <1>9, <1>10

(* A message is heard by those it names, as often as it names them.        *)
LEMMA MessageTexts ==
    ASSUME TypeOK, Connected, HandlesDiffer, NodesAreOpen, NEW s \in FD, NEW d \in Clients,
           NEW p \in PDU, p.flag = "MESSAGE",
           NEW q \in Seq(Action), q = recAndSendMess(s, p)
    PROVE  TextsFor(d, fds, q) =
              Times(p.text, IF d \in Members THEN Room!Named(d, p.to) ELSE 0)
<1>1. PICK t, to : t = p.text /\ to = p.to
  OBVIOUS
<1>2. t \in Text /\ to \in Seq(Handle)
  BY <1>1 DEF PDU
<1>3. list \in Seq(Node(FD, Handle)) /\ \A j \in DOMAIN list : list[j].data \in FD
  BY NodeTypes DEF TypeOK
<1>4. DOMAIN to = 1 .. Len(to) /\ Len(to) \in Nat
  BY <1>2, LenProperties
<1> DEFINE e(i) == LET client == getClientHandle(list, to[i])
                   IN  IF client = NULL THEN Send(s, HandlePDU("UNKNOWN", to[i]))
                       ELSE Send(list[client].data, p)
           I == IF d \in Members THEN {i \in DOMAIN to : to[i] = name[d]} ELSE {}
<1>5. q = [i \in 1 .. Len(to) |-> e(i)]
  BY <1>1, <1>4 DEF recAndSendMess
<1>6. ASSUME NEW i \in 1 .. Len(to)
      PROVE  Part(d, fds, e(i)) = IF i \in I THEN <<t>> ELSE <<>>
  <2>1. PICK k : k = getClientHandle(list, to[i])
    OBVIOUS
  <2>2. /\ k = NULL => \A j \in DOMAIN list : list[j].handle # to[i]
        /\ k # NULL => k \in DOMAIN list /\ list[k].handle = to[i]
    BY <1>3, <2>1, Found
  <2>3. i \in I <=> d \in Members /\ to[i] = name[d]
    BY <1>4
  <2>4. d \in Members => \E j \in DOMAIN list : d = fds[list[j].data] /\ list[j].handle = name[d]
    BY DEF Members, NodesAreOpen
  <2>5. CASE k = NULL
    <3>1. PICK h : h = HandlePDU("UNKNOWN", to[i])
      OBVIOUS
    <3>2. e(i) = Send(s, h)
      BY <2>1, <2>5, <3>1
    <3> HIDE DEF e
    <3>3. i \notin I
      BY <2>2, <2>3, <2>4, <2>5
    <3> HIDE DEF I
    <3>4. h.flag = "UNKNOWN"
      BY <1>2, <1>4, <3>1, PDUTypes, ElementOfSeq DEF FLAG
    <3>5. Shown(h) = <<>>
      BY <3>4, NotShown
    <3>6. e(i).pdu = h
      BY <3>2 DEF Send
    <3> QED BY <3>3, <3>5, <3>6 DEF Part
  <2>6. CASE k # NULL
    <3>1. PICK a : a = Send(list[k].data, p)
      OBVIOUS
    <3>2. e(i) = a
      BY <2>1, <2>6, <3>1
    <3> HIDE DEF e
    <3>3. k \in DOMAIN list /\ list[k].handle = to[i]
      BY <2>2, <2>6
    <3>4. a.socket = list[k].data /\ a.pdu = p
      BY <3>1 DEF Send
    <3>5. fds[list[k].data] = d <=> i \in I
      <4>1. fds[list[k].data] = d => d \in Members /\ to[i] = name[d]
        BY <3>3 DEF Members, NodesAreOpen
      <4>2. d \in Members /\ to[i] = name[d] => fds[list[k].data] = d
        BY <2>4, <3>3 DEF HandlesDiffer
      <4> QED BY <2>3, <4>1, <4>2
    <3> HIDE DEF I
    <3>6. Shown(p) = <<t>>
      BY <1>1 DEF Shown
    <3> QED BY <3>2, <3>4, <3>5, <3>6 DEF Part
  <2> QED BY <2>5, <2>6
<1>7. Len(q) = Len(to) /\ \A i \in 1 .. Len(to) : q[i] = e(i)
  <2> HIDE DEF e
  <2> QED BY SMT, <1>4, <1>5
<1>8. I \subseteq 1 .. Len(q)
  BY <1>4, <1>7
<1>9. Cardinality(I) = IF d \in Members THEN Room!Named(d, to) ELSE 0
  <2>1. Cardinality({}) = 0
    BY FS_EmptySet
  <2>2. \A S : Room!Cardinality(S) = Cardinality(S)
    BY DEF Room!Cardinality, Cardinality
  <2> QED BY <2>1, <2>2 DEF Room!Named
<1> HIDE DEF e, I
<1>10. PICK m : m = ShownTo(d, fds)
  OBVIOUS
<1>11. m \in [Action -> Seq(Text)] /\ \A a \in Action : m[a] = Part(d, fds, a)
  BY <1>10, ShownTypes
<1>12. Marks(Action, Text, q, m, t, I)
  <2>1. \A i \in 1 .. Len(q) : q[i] \in Action
    BY ElementOfSeq
  <2>2. ASSUME NEW i \in 1 .. Len(q) PROVE m[q[i]] = IF i \in I THEN <<t>> ELSE <<>>
    <3>1. m[q[i]] = Part(d, fds, q[i])
      BY <1>11, <2>1
    <3> QED BY <1>6, <1>7, <3>1
  <2> QED BY <1>2, <1>8, <1>11, <2>2 DEF Marks
<1>13. Joint(q, m) = Times(t, Cardinality(I))
  BY <1>12, JointTimes
<1>14. TextsFor(d, fds, q) = Joint(q, m)
  BY <1>10, TextsForJoint
<1> QED BY <1>1, <1>9, <1>13, <1>14

(* What a client in the room asks for is answered to members only.         *)
LEMMA HandlerRoom ==
    ASSUME IInv, IInv', RoomInv, NEW s \in FD, processClient(s), UNCHANGED clientVars,
           NEW c, c = fds[s], NEW p, p = Head(up[c]), p.flag # "HELLO"
    PROVE  /\ c \in Members /\ Members' = Members /\ outbox' = Handler(s, p)
           /\ p.flag \in {"LIST", "BROADCAST", "MESSAGE"}
           /\ (\A i \in DOMAIN outbox' : outbox'[i].pdu.flag # "EXIT") =>
                 /\ RoomInv'
                 /\ \A d \in Clients : HeardBy(d)' = HeardBy(d) \o TextsFor(d, fds, outbox')
<1>1. TypeOK /\ TypeOK' /\ NodesAreOpen
  BY DEF IInv, ServerInv
<1>2. c \in Clients /\ p \in PDU /\ Says(c, p) /\ c \in Members /\ ~ Unlisted(c)
  BY Asks
<1>3. p.flag \in {"LIST", "BROADCAST", "MESSAGE"}
  BY <1>2 DEF Says
<1>4. outbox' = Handler(s, p) /\ UNCHANGED <<list, fds>>
  BY DEF processClient
<1>5. Members' = Members
  BY <1>4 DEF Members
<1>6. \A d : Unlisted(d)' <=> Unlisted(d)
  BY <1>4 DEF Unlisted
<1>7. outbox' \in Seq(Within(s))
  <2>1. p.flag \in Asked \ {"HELLO"}
    BY <1>3 DEF Asked
  <2>2. list \in Seq(Node(FD, Handle))
    BY <1>1 DEF TypeOK
  <2> QED BY <1>2, <1>4, <2>1, <2>2, HandlerSends
<1>8. ASSUME NEW i \in DOMAIN outbox'
      PROVE  outbox'[i].op = "send" /\ ~ Unlisted(fds[outbox'[i].socket])
  <2>1. outbox'[i] \in Within(s)
    BY <1>7, ElementOfSeq, LenProperties
  <2>2. outbox'[i].op = "send"
    BY <2>1 DEF Within
  <2>3. CASE outbox'[i].socket = s
    BY <1>2, <2>2, <2>3
  <2>4. CASE \E j \in DOMAIN list : outbox'[i].socket = list[j].data
    BY <2>2, <2>4 DEF Unlisted
  <2> QED BY <2>1, <2>3, <2>4 DEF Within
<1>9. ASSUME \A i \in DOMAIN outbox' : outbox'[i].pdu.flag # "EXIT"
      PROVE  /\ RoomInv'
             /\ \A d \in Clients : HeardBy(d)' = HeardBy(d) \o TextsFor(d, fds, outbox')
  <2>1. SendsInRoom'
    BY <1>4, <1>6, <1>8, <1>9 DEF SendsInRoom
  <2> QED BY <1>6, <2>1, ReadRoom
<1> QED BY <1>2, <1>3, <1>4, <1>5, <1>9

(* sendListNum.                                                            *)
LEMMA ListRoom ==
    ASSUME IInv, IInv', RoomInv, NEW s \in FD, processClient(s), UNCHANGED clientVars,
           Head(up[fds[s]]).flag = "LIST"
    PROVE  RoomInv' /\ RoomStep
<1>1. TypeOK /\ TypeOK'
  BY DEF IInv
<1>2. PICK c, p : c = fds[s] /\ p = Head(up[c])
  OBVIOUS
<1>3. p.flag = "LIST"
  BY <1>2
<1>4. outbox' = sendList(s) /\ Members' = Members
  BY <1>2, <1>3, HandlerRoom DEF Handler
<1> DEFINE W == {a \in Action : a.pdu.flag \in {"NUMBER", "HANDLE", "END"}}
           a == Send(s, Command("NUMBER"))
           b(i) == Send(s, HandlePDU("HANDLE", list[i].handle))
           e == Send(s, Command("END"))
           body == [i \in DOMAIN list |-> b(i)]
<1>5. a \in W /\ e \in W
  BY SendTypes, PDUTypes DEF FLAG
<1>6. \A i \in DOMAIN list : b(i) \in W
  BY <1>1, NodeTypes, SendTypes, PDUTypes DEF FLAG
<1>7. DOMAIN list = 1 .. Len(list) /\ Len(list) \in Nat
  BY <1>1, LenProperties DEF TypeOK
<1>8. outbox' = (<<a>> \o body) \o <<e>>
  BY <1>4 DEF sendList
<1>9. \A x \in W : x.pdu.flag # "EXIT" /\ Shown(x.pdu) = <<>>
  BY NotShown
<1>10. W \subseteq Action
  OBVIOUS
<1> HIDE DEF a, b, e, W
<1>11. body \in Seq(W)
  BY SMT, <1>6, <1>7
<1>12. <<a>> \in Seq(W) /\ <<e>> \in Seq(W)
  BY SMT, <1>5
<1> HIDE DEF body
<1>13. outbox' \in Seq(W)
  BY <1>8, <1>11, <1>12, ConcatProperties
<1>14. \A i \in DOMAIN outbox' : outbox'[i] \in W
  BY <1>13, ElementOfSeq, LenProperties
<1>15. \A i \in DOMAIN outbox' : outbox'[i].pdu.flag # "EXIT"
  BY <1>9, <1>14
<1>16. /\ RoomInv'
       /\ \A d \in Clients : HeardBy(d)' = HeardBy(d) \o TextsFor(d, fds, outbox')
  BY <1>2, <1>3, <1>15, HandlerRoom
<1>17. ASSUME NEW d \in Clients PROVE HeardBy(d)' = HeardBy(d)
  <2>1. SilentTo(d, fds, outbox')
    BY <1>9, <1>14 DEF SilentTo
  <2>2. outbox' \in Seq(Action)
    BY <1>1 DEF TypeOK
  <2>3. TextsFor(d, fds, outbox') = <<>>
    BY <2>1, <2>2, TextsForNone
  <2>4. HeardBy(d) \in Seq(Text)
    BY <1>1, HeardByType
  <2> QED BY <1>16, <2>3, <2>4, ConcatEmptySeq
<1> QED BY <1>4, <1>16, <1>17, Unheard

(* recAndSendBroadCast.                                                    *)
LEMMA BroadcastRoom ==
    ASSUME IInv, IInv', RoomInv, NEW s \in FD, processClient(s), UNCHANGED clientVars,
           Head(up[fds[s]]).flag = "BROADCAST"
    PROVE  RoomInv' /\ RoomStep
<1>1. TypeOK /\ TypeOK' /\ Connected /\ NodesAreOpen /\ HandlesDiffer
  BY DEF IInv, ServerInv
<1>2. PICK c, p : c = fds[s] /\ p = Head(up[c])
  OBVIOUS
<1>3. p.flag = "BROADCAST"
  BY <1>2
<1>4. /\ outbox' = recAndSendBroadCast(p) /\ Members' = Members /\ c \in Members
  BY <1>2, <1>3, HandlerRoom DEF Handler
<1>5. c \in Clients /\ p \in PDU /\ p.handle = name[c] /\ p.text \in RoomText(c)
  BY <1>2, <1>3, Asks DEF Says
<1>6. PICK t \in RoomText(c) : t = p.text
  BY <1>5
<1>7. t \in Text /\ Shown(p) = Times(t, 1) /\ Times(t, 0) = <<>>
  <2>1. t \in Text
    BY <1>5, <1>6 DEF PDU
  <2>2. Shown(p) = <<t>>
    BY <1>3, <1>6 DEF Shown
  <2> QED BY <2>1, <2>2, TimesAre
<1>8. \A i \in DOMAIN outbox' : outbox'[i].pdu.flag # "EXIT"
  <2> DEFINE T == {Send(list[i].data, p) : i \in DOMAIN list}
  <2>1. outbox' \in Seq(T)
    <3>1. list \in Seq(Node(FD, Handle))
      BY <1>1 DEF TypeOK
    <3>2. recAndSendBroadCast(p) \in Seq(T)
      BY <3>1, BroadcastToListed
    <3> QED BY <1>4, <3>2
  <2>2. \A x \in T : x.pdu = p
    BY DEF Send
  <2> HIDE DEF T
  <2>3. \A i \in DOMAIN outbox' : outbox'[i] \in T
    BY <2>1, ElementOfSeq, LenProperties
  <2> QED BY <1>3, <2>2, <2>3
<1>9. /\ RoomInv'
      /\ \A d \in Clients : HeardBy(d)' = HeardBy(d) \o TextsFor(d, fds, outbox')
  BY <1>2, <1>3, <1>8, HandlerRoom
<1>10. ASSUME NEW d \in Clients
       PROVE  HeardBy(d)' = HeardBy(d) \o Times(t, IF d \in Members \ {c} THEN 1 ELSE 0)
  <2>1. TextsFor(d, fds, outbox') =
           IF \E j \in DOMAIN list : Tells(j, p, d) THEN Shown(p) ELSE <<>>
    BY <1>1, <1>4, <1>5, BroadcastTexts
  <2>2. (\E j \in DOMAIN list : Tells(j, p, d)) <=> d \in Members \ {c}
    <3>1. ASSUME NEW j \in DOMAIN list, Tells(j, p, d) PROVE d \in Members \ {c}
      BY <1>1, <1>5, <3>1 DEF Tells, Members, NodesAreOpen
    <3>2. ASSUME d \in Members \ {c} PROVE \E j \in DOMAIN list : Tells(j, p, d)
      <4>1. PICK j, k \in DOMAIN list : fds[list[j].data] = d /\ fds[list[k].data] = c
        BY <1>4, <3>2 DEF Members
      <4>2. list[j].handle = name[d] /\ list[k].handle = name[c] /\ j # k
        BY <1>1, <3>2, <4>1 DEF NodesAreOpen
      <4>3. list[j].handle # name[c]
        BY <1>1, <4>1, <4>2 DEF HandlesDiffer
      <4> QED BY <1>5, <4>1, <4>3 DEF Tells
    <3> QED BY <3>1, <3>2
  <2>3. TextsFor(d, fds, outbox') = Times(t, IF d \in Members \ {c} THEN 1 ELSE 0)
    BY <1>7, <2>1, <2>2
  <2> QED BY <1>9, <2>3
<1> QED BY <1>4, <1>5, <1>9, <1>10, Telling

(* recAndSendMess.                                                         *)
LEMMA MessageRoom ==
    ASSUME IInv, IInv', RoomInv, NEW s \in FD, processClient(s), UNCHANGED clientVars,
           Head(up[fds[s]]).flag = "MESSAGE"
    PROVE  RoomInv' /\ RoomStep
<1>1. TypeOK /\ TypeOK' /\ Connected /\ NodesAreOpen /\ HandlesDiffer
  BY DEF IInv, ServerInv
<1>2. PICK c, p : c = fds[s] /\ p = Head(up[c])
  OBVIOUS
<1>3. p.flag = "MESSAGE"
  BY <1>2
<1>4. outbox' = recAndSendMess(s, p) /\ Members' = Members /\ c \in Members
  BY <1>2, <1>3, HandlerRoom DEF Handler
<1>5. c \in Clients /\ p \in PDU /\ p.text \in RoomText(c) /\ p.to \in To
  BY <1>2, <1>3, Asks DEF Says
<1>6. outbox' \in Seq(Action)
  BY <1>1 DEF TypeOK
<1>7. PICK q \in Seq(Action) : q = outbox'
  BY <1>6
<1>8. \A i \in DOMAIN outbox' : outbox'[i].pdu.flag # "EXIT"
  <2> SUFFICES ASSUME NEW i \in DOMAIN outbox' PROVE outbox'[i].pdu.flag # "EXIT"
    OBVIOUS
  <2>1. p.to \in Seq(Handle)
    BY <1>5, ToAssumption
  <2>2. i \in DOMAIN p.to
    BY <1>4 DEF recAndSendMess
  <2>3. p.to[i] \in Handle
    BY <2>1, <2>2, ElementOfSeq, LenProperties
  <2>4. PICK h : h = HandlePDU("UNKNOWN", p.to[i])
    OBVIOUS
  <2>5. h.flag = "UNKNOWN"
    BY <2>3, <2>4, PDUTypes DEF FLAG
  <2>6. outbox'[i] = LET client == getClientHandle(list, p.to[i])
                     IN  IF client = NULL THEN Send(s, h) ELSE Send(list[client].data, p)
    BY <1>4, <2>2, <2>4 DEF recAndSendMess
  <2>7. \E t : outbox'[i] = Send(t, h) \/ outbox'[i] = Send(t, p)
    BY <2>6
  <2>8. outbox'[i].pdu \in {h, p}
    BY <2>7 DEF Send
  <2> QED BY <1>3, <2>5, <2>8
<1>9. /\ RoomInv'
      /\ \A d \in Clients : HeardBy(d)' = HeardBy(d) \o TextsFor(d, fds, outbox')
  BY <1>2, <1>3, <1>8, HandlerRoom
<1>10. ASSUME NEW d \in Clients
       PROVE  HeardBy(d)' = HeardBy(d)
                 \o Times(p.text, IF d \in Members THEN Room!Named(d, p.to) ELSE 0)
  <2>1. TextsFor(d, fds, q) =
           Times(p.text, IF d \in Members THEN Room!Named(d, p.to) ELSE 0)
    BY <1>1, <1>3, <1>4, <1>5, <1>7, MessageTexts
  <2> QED BY <1>7, <1>9, <2>1
<1> QED BY <1>4, <1>5, <1>9, <1>10, TellingSome

-----------------------------------------------------------------------------
(* All steps.                                                              *)

(* Every step of the server.                                               *)
LEMMA ServerRoom ==
    ASSUME Stay, IInv, IInv', RoomInv, ServerStep, UNCHANGED clientVars
    PROVE  RoomInv' /\ RoomStep
<1>1. CASE addNewClient
  BY <1>1, AcceptRoom
<1>2. ASSUME NEW s \in FD, processClient(s) PROVE RoomInv' /\ RoomStep
  <2>1. PICK c, p : c = fds[s] /\ p = Head(up[c])
    OBVIOUS
  <2>2. p.flag \in {"HELLO", "LIST", "BROADCAST", "MESSAGE"}
    BY <1>2, <2>1, Asks DEF Says
  <2> QED BY <1>2, <2>1, <2>2, HelloRoom, ListRoom, BroadcastRoom, MessageRoom
<1>3. ASSUME NEW s \in FD PROVE ~ ClientGone(s) /\ ~ StrangerGone(s)
  <2>1. ~ ("up" \in {"fin", "bounced"})
    OBVIOUS
  <2> QED BY <2>1, NoneGone DEF ClientGone, StrangerGone
<1>4. ASSUME NEW s \in FD PROVE ~ RecvFailsEnds(s) /\ ~ RecvFailsGoesOn(s)
  <2>1. "up" # "reset"
    OBVIOUS
  <2> QED BY <2>1, NoneGone DEF RecvFails, RecvFailsEnds, RecvFailsGoesOn
<1>5. CASE SendTo
  BY <1>5, SendToRoom
<1>6. CASE CloseSocket
  BY <1>6, CloseRoom
<1> QED BY <1>1, <1>2, <1>3, <1>4, <1>5, <1>6, NeverFull, NoneFails DEF ServerStep

(* The initial states.                                                     *)
LEMMA InitRoom == Init => RoomInv /\ Room!Init
<1> SUFFICES ASSUME Init PROVE RoomInv /\ Room!Init
  OBVIOUS
<1> USE DEF Init, StreamInit, ServerInit, ClientInit
<1>1. DOMAIN <<>> = {}
  BY Nil
<1>2. \A c : ~ Turned(c) \/ c \notin Clients
  BY DEF Turned
<1>3. TurnsAway
  BY <1>1 DEF TurnsAway
<1>4. SendsInRoom
  BY <1>1 DEF SendsInRoom
<1>5. ASSUME NEW c \in Clients PROVE Guest(c)
  BY <1>1 DEF Guest, Speaks, Stands, Outside
<1>6. RoomInv
  BY <1>3, <1>4, <1>5 DEF RoomInv
<1>7. Members = {}
  BY <1>1 DEF Members
<1>8. ASSUME NEW c \in Clients PROVE HeardBy(c) = <<>>
  <2>1. Texts(down[c]) = <<>> /\ TextsFor(c, fds, outbox) = <<>> /\ screen[c] = <<>>
    BY TextsNil, TextsForNil
  <2>2. <<>> \o <<>> = <<>>
    BY Nil, ConcatEmptySeq
  <2> QED BY <2>1, <2>2 DEF HeardBy
<1>9. [c \in Clients |-> HeardBy(c)] = [c \in Clients |-> <<>>]
  BY <1>8
<1>10. Room!Init
  BY <1>7, <1>9 DEF Room!Init, Members, HeardBy
<1> QED BY <1>6, <1>10

(* Every step of the chat is one of the room, or none.                     *)
LEMMA RoomKeeps ==
    ASSUME Stay, IInv, IInv', RoomInv, [Next]_vars
    PROVE  RoomInv' /\ RoomStep
<1>1. CASE ServerStep /\ UNCHANGED clientVars
  BY <1>1, ServerRoom
<1>2. CASE \E c \in Clients : Arrive(c)
  BY <1>2, ArriveRoom
<1>3. ASSUME NEW c \in Clients, UNCHANGED serverVars,
             \/ ClientStep(c)
             \/ Types(c)
             \/ server = "DEAD" /\ ConnectFails(c)
             \/ MayStop /\ Interrupt(c)
             \/ MayHangUp /\ StdinEnds(c)
      PROVE  RoomInv' /\ RoomStep
  BY <1>3, ClientStepRoom
<1>4. CASE UNCHANGED vars
  <2> USE <1>4 DEF vars, streamVars, serverVars, clientVars
  <2>1. \A c : /\ Turned(c)' <=> Turned(c)
               /\ Unlisted(c)' <=> Unlisted(c)
    BY DEF Turned, Unlisted
  <2>2. ASSUME NEW c \in Clients PROVE Guest(c)'
    <3>1. Guest(c)
      BY DEF RoomInv
    <3>2. Speaks(c)' /\ Stands(c)' /\ Outside(c)'
      BY <2>1, <3>1 DEF Guest, Speaks, Stands, Outside
    <3> QED BY <3>2 DEF Guest
  <2>3. \A s : Closing(s) => Closing(s)'
    BY <2>1 DEF Closing
  <2>4. TurnsAway' /\ SendsInRoom'
    BY <2>1, <2>3 DEF RoomInv, TurnsAway, SendsInRoom
  <2>5. RoomInv'
    BY <2>2, <2>4 DEF RoomInv
  <2>6. Members' = Members /\ \A c \in Clients : HeardBy(c)' = HeardBy(c)
    BY DEF Members, HeardBy
  <2> QED BY <2>5, <2>6, Unheard
<1> QED BY <1>1, <1>2, <1>3, <1>4 DEF Next

(* As long as nobody leaves and there is a descriptor for everybody, the   *)
(* chat implements the room: connectClient (myServer.c:198-212) lets in    *)
(* who has a new name, and what a member broadcasts or sends to names      *)
(* (myServer.c:136-181) is displayed (myClient.c:385-412) by those it is   *)
(* for, once for each time they are named and in the order in which the    *)
(* server read it, whatever is on its way.                                 *)
THEOREM Implements ==
    ASSUME Stay
    PROVE  Spec => IsChatRoom
<1>1. Init => RoomInv /\ Room!Init
  BY InitRoom
<1>2. IInv /\ IInv' /\ RoomInv /\ [Next]_vars => RoomInv' /\ [Room!Next]_(Room!vars)
  BY RoomKeeps DEF RoomStep
<1> QED BY <1>1, <1>2, Invariance, PTL DEF Spec, IsChatRoom, Room!Spec

=============================================================================
