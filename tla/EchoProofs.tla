----------------------------- MODULE EchoProofs -----------------------------
(***************************************************************************)
(* Echo, for any number of clients, descriptors and lines and any size of  *)
(* the poll set: the poll set is the set of open sockets, every client     *)
(* prints its own line, and who is cut off, and why a server ends.         *)
(***************************************************************************)
EXTENDS Echo, NumberLemmas, SequenceTheorems

Sent == Lines \cup {Exit, NoLine}
Line == Sent \cup {Stale}

TypeInv ==
    /\ cstate \in [Clients -> ClientState]
    /\ said \in [Clients -> Line]
    /\ heard \in [Clients -> Line]
    /\ link \in [Clients -> LinkState]
    /\ up \in [Clients -> Sent]
    /\ down \in [Clients -> Line]
    /\ lab \in Labs
    /\ server \in {"RUNNING", "CLOSED", "SPINS", "recv", "send", "stdin", "accept", "bind"}
    /\ backlog \in Seq(Clients)
    /\ fds \in [Socket -> Clients \cup {NoClient}]
    /\ limit \in Limits
    /\ \/ pending = Idle
       \/ pending.socket \in Socket /\ pending.pdu \in Lines
    /\ stdin \in {"open", "hung"}
    /\ served \subseteq Clients

Open == {ServerSocket} \cup {s \in Socket : fds[s] # NoClient}

(* The array has one entry for every descriptor below its size.            *)
PollSetInv ==
    lab = "LAB3_2" =>
        \E n \in Nat :
            /\ DOMAIN pollFileDescriptors = 0 .. n - 1
            /\ \A i \in 0 .. n - 1 :
                  pollFileDescriptors[i] = IF i \in Open THEN Polled(i) ELSE Unused
            /\ maxFileDescriptor \in Nat
            /\ maxFileDescriptor <= n
            /\ \A s \in Open : s < maxFileDescriptor

(* Clients are accepted once, in turn, and those in the backlog are not    *)
(* closed by a server that goes on.                                        *)
Connected ==
    /\ \A s \in Socket : fds[s] # NoClient => fds[s] \in served
    /\ \A i \in DOMAIN backlog : backlog[i] \notin served
    /\ \A i, j \in DOMAIN backlog : backlog[i] = backlog[j] => i = j
    /\ Listening \/ server = "CLOSED" =>
          \A i \in DOMAIN backlog : link[backlog[i]] \notin {"cut", "aborted"}

(* Why the server is where it is.                                          *)
ServerInv ==
    /\ EndsOnlyBecause
    /\ server = "CLOSED" => lab = "LAB3" /\ \E c \in served : Ended(c)

EchoOf(c) ==
    heard[c] # NoLine =>
        \/ heard[c] = said[c]
        \/ heard[c] = Stale /\ link[c] \in {"cut", "broken"}

TurnedOut(c) ==
    link[c] \in {"cut", "aborted"} =>
        \/ server \notin {"RUNNING", "CLOSED", "SPINS"}
        \/ lab = "LAB3" /\ c \notin served

PendingFor(c) == pending # Idle /\ fds[pending.socket] = c

(* A line is on its way to the server, there, or on its way back.          *)
ClientInv(c) ==
    /\ EchoOf(c)
    /\ TurnedOut(c)
    /\ cstate[c] = "START" =>
          /\ link[c] = "none" /\ up[c] = NoLine
          /\ c \notin served
          /\ \A i \in DOMAIN backlog : backlog[i] # c
    /\ link[c] \in {"fin", "reset"} => Ended(c)
    /\ link[c] = "reset" => cstate[c] = "killed"
    /\ up[c] = Exit => Ended(c)
    /\ down[c] # NoLine => cstate[c] = "RECV" /\ down[c] = said[c]
    /\ link[c] = "up" /\ up[c] # NoLine =>
          cstate[c] = "RECV" /\ up[c] = said[c] /\ down[c] = NoLine
    /\ link[c] = "up" /\ PendingFor(c) =>
          /\ cstate[c] = "RECV" /\ pending.pdu = said[c]
          /\ up[c] = NoLine /\ down[c] = NoLine

IInv ==
    /\ TypeInv
    /\ PollSetInv
    /\ Connected
    /\ ServerInv
    /\ \A c \in Clients : ClientInv(c)

-----------------------------------------------------------------------------
(* The descriptors of clients are numbers, and none is that of the server  *)
(* socket.                                                                 *)
LEMMA SocketTypes ==
    ASSUME limit \in Limits
    PROVE  /\ Socket \subseteq Nat /\ ServerSocket \notin Socket /\ 0 \notin Socket
           /\ ServerSocket \in Nat /\ ServerSocket # 0
           /\ \A s \in Socket : ~ (s <= 0)
<1>1. Limits \in SUBSET Nat /\ IsFiniteSet(Limits) /\ Limits # {}
  BY LimitsAssumption
<1>2. Max(Limits) \in Nat
  BY <1>1, Greatest
<1> QED BY SMT, <1>2 DEF Socket, ClientSocket, ServerSocket

(* The initial states satisfy the inductive invariant.                     *)
LEMMA InitIInv == Init => IInv
<1> SUFFICES ASSUME Init PROVE IInv
  OBVIOUS
<1> USE DEF Init, ClientInit, ServerInit, setupPollSet
<1>1. DOMAIN <<>> = {} /\ <<>> \in Seq(Clients)
  BY SMT
<1>2. TypeInv
  BY <1>1 DEF TypeInv, ClientState, LinkState, Line, Sent
<1>3. Open = {ServerSocket}
  BY DEF Open
<1>4. PollSetInv
  <2>1. /\ POLL_SET_SIZE \in Nat /\ ServerSocket + 1 \in Nat
        /\ ServerSocket + 1 <= POLL_SET_SIZE /\ ServerSocket < ServerSocket + 1
    BY SMT, PollSetAssumption, EntryAssumption DEF ServerSocket
  <2>2. /\ DOMAIN pollFileDescriptors = 0 .. POLL_SET_SIZE - 1
        /\ \A i \in 0 .. POLL_SET_SIZE - 1 :
              pollFileDescriptors[i] = IF i = ServerSocket THEN Polled(i) ELSE Unused
    BY DEF Polled, Unused
  <2> QED BY <1>3, <2>1, <2>2 DEF PollSetInv
<1>5. Connected
  BY <1>1 DEF Connected
<1>6. ServerInv
  BY DEF ServerInv, EndsOnlyBecause
<1>7. ASSUME NEW c \in Clients PROVE ClientInv(c)
  <2>1. /\ cstate[c] = "START" /\ link[c] = "none" /\ heard[c] = NoLine
        /\ up[c] = NoLine /\ down[c] = NoLine /\ ~ PendingFor(c)
        /\ Exit # NoLine
    BY LinesAssumption DEF PendingFor
  <2> QED BY <1>1, <2>1 DEF ClientInv, EchoOf, TurnedOut
<1> QED BY <1>2, <1>4, <1>5, <1>6, <1>7 DEF IInv

-----------------------------------------------------------------------------
(* A client that a step leaves alone, or whose connection it closes, or    *)
(* reads to its end.                                                       *)
LEMMA ClientKept ==
    ASSUME NEW c \in Clients, ClientInv(c), TurnedOut(c)',
           cstate'[c] = cstate[c], said'[c] = said[c], heard'[c] = heard[c],
           down'[c] = down[c], up'[c] \in {up[c], NoLine},
           \/ link'[c] = link[c]
           \/ link[c] = "up" /\ link'[c] \in {"cut", "aborted"},
           cstate[c] = "START" => /\ c \notin served'
                                  /\ \A i \in DOMAIN backlog' : backlog'[i] # c,
           PendingFor(c)' => PendingFor(c) /\ pending' = pending
    PROVE  ClientInv(c)'
<1>1. EchoOf(c)'
  BY DEF ClientInv, EchoOf
<1>2. Ended(c)' <=> Ended(c)
  BY DEF Ended
<1>3. Exit # NoLine
  BY LinesAssumption
<1> QED BY <1>1, <1>2, <1>3 DEF ClientInv

(* A step of client c alone, which has not ended.                          *)
Own(c) ==
    /\ UNCHANGED <<serverVars, served>>
    /\ cstate[c] \in {"START", "TYPE", "RECV"}
    /\ TypeInv'
    /\ link'[c] \in {"cut", "aborted"} => link'[c] = link[c]
    /\ \A d \in Clients \ {c} :
          /\ link'[d] = link[d] /\ up'[d] = up[d] /\ down'[d] = down[d]
          /\ cstate'[d] = cstate[d] /\ said'[d] = said[d] /\ heard'[d] = heard[d]

(* A step of a client that leaves the server and the other clients alone   *)
(* need only be looked at for that client.                                 *)
LEMMA OwnStep ==
    ASSUME IInv, NEW c \in Clients, Own(c), TurnedOut(c)' => ClientInv(c)'
    PROVE  IInv'
<1> USE DEF serverVars, pollSetVars
<1>1. UNCHANGED <<serverVars, served>> /\ TypeInv'
  BY DEF Own
<1>2. ASSUME NEW d \in Clients, Ended(d)
      PROVE  cstate'[d] = cstate[d] /\ Ended(d)'
  BY <1>2 DEF Own, Ended
<1>3. \A d \in Clients : link'[d] \in {"cut", "aborted"} => link'[d] = link[d]
  BY DEF Own
<1>4. ASSUME NEW d \in Clients PROVE TurnedOut(d)'
  BY <1>1, <1>3 DEF IInv, ClientInv, TurnedOut
<1>5. served \subseteq Clients /\ \A i \in DOMAIN backlog : backlog[i] \in Clients
  BY ElementOfSeq, LenProperties DEF IInv, TypeInv
<1>6. PollSetInv'
  <2>1. Open' = Open
    BY <1>1 DEF Open
  <2> QED BY <1>1, <2>1 DEF IInv, PollSetInv
<1>7. Connected'
  BY <1>1, <1>3, <1>5 DEF IInv, Connected, Listening
<1>8. ServerInv'
  <2>1. FreeFD' = FreeFD
    BY <1>1 DEF FreeFD
  <2>2. \A d \in served : cstate[d] = "killed" => cstate'[d] = "killed"
    BY <1>2, <1>5 DEF Ended
  <2>3. \A d \in served : Ended(d) => Ended(d)'
    BY <1>2, <1>5
  <2> QED BY <1>1, <2>1, <2>2, <2>3 DEF IInv, ServerInv, EndsOnlyBecause
<1>9. ASSUME NEW d \in Clients, d # c PROVE ClientInv(d)'
  <2>1. PendingFor(d)' => PendingFor(d) /\ pending' = pending
    BY <1>1 DEF PendingFor
  <2>2. ClientInv(d)
    BY DEF IInv
  <2> QED BY <1>1, <1>4, <1>9, <2>1, <2>2, ClientKept DEF Own, ClientInv
<1> QED BY <1>1, <1>4, <1>6, <1>7, <1>8, <1>9 DEF IInv

(* A client sends a line.                                                  *)
LEMMA SendStep ==
    ASSUME IInv, NEW c \in Clients, NEW line \in Lines, sendToServer(c, line),
           UNCHANGED <<serverVars, served>>
    PROVE  IInv'
<1> USE DEF serverVars
<1>1. TypeInv /\ ClientInv(c)
  BY DEF IInv
<1>2. line # Exit /\ line # NoLine /\ cstate[c] = "TYPE"
  BY LinesAssumption DEF sendToServer, readFromStdin
<1>3. /\ cstate' = [cstate EXCEPT ![c] = "RECV"]
      /\ said' = [said EXCEPT ![c] = line]
      /\ heard' = [heard EXCEPT ![c] = NoLine]
      /\ down' = down
      /\ \/ link[c] = "up" /\ up' = [up EXCEPT ![c] = line] /\ link' = link
         \/ link[c] = "cut" /\ link' = [link EXCEPT ![c] = "broken"] /\ up' = up
         \/ link[c] = "aborted" /\ link' = link /\ up' = up
  BY DEF sendToServer, Sends, Goto, linkVars
<1>4. Own(c)
  <2>1. TypeInv'
    <3>1. "RECV" \in ClientState /\ "broken" \in LinkState /\ {line, NoLine} \subseteq Sent /\ Sent \subseteq Line
      BY DEF ClientState, LinkState, Line, Sent
    <3> QED BY <1>1, <1>3, <3>1 DEF TypeInv
  <2>2. link'[c] \in {"cut", "aborted"} => link'[c] = link[c]
    BY <1>1, <1>3 DEF TypeInv
  <2> QED BY <1>1, <1>2, <1>3, <2>1, <2>2 DEF Own, TypeInv
<1>5. ASSUME TurnedOut(c)' PROVE ClientInv(c)'
  <2>1. /\ cstate'[c] = "RECV" /\ said'[c] = line /\ heard'[c] = NoLine /\ down'[c] = down[c]
        /\ \/ link[c] = "up" /\ up'[c] = line /\ link'[c] = link[c]
           \/ link'[c] \in {"broken", "aborted"} /\ up'[c] = up[c]
    BY <1>1, <1>3 DEF TypeInv
  <2>2. down[c] = NoLine /\ ~ Ended(c)
    BY <1>1, <1>2 DEF ClientInv, Ended
  <2>3. link[c] = "up" => up[c] = NoLine /\ ~ PendingFor(c)
    BY <1>1, <1>2 DEF ClientInv
  <2>4. PendingFor(c)' <=> PendingFor(c)
    BY DEF PendingFor
  <2> QED BY <1>1, <1>2, <1>5, <2>1, <2>2, <2>3, <2>4 DEF ClientInv, EchoOf
<1> QED BY <1>4, <1>5, OwnStep

(* A client that ends without a word to the server.                        *)
LEMMA EndsStep ==
    ASSUME IInv, NEW c \in Clients, UNCHANGED <<serverVars, served>>,
           NEW s \in {"left", "failed", "killed"}, Ends(c, s),
           cstate[c] \in {"START", "TYPE", "RECV"},
           NEW l \in LinkState, link' = [link EXCEPT ![c] = l],
           l = link[c] \/ l \in {"fin", "reset", "broken"},
           l # "up",
           l = "reset" => s = "killed",
           NEW u \in {up[c], Exit}, up' = [up EXCEPT ![c] = u],
           down' = down \/ down' = [down EXCEPT ![c] = NoLine],
           cstate[c] = "RECV" => down'[c] = NoLine
    PROVE  IInv'
<1> USE DEF serverVars
<1>1. TypeInv /\ ClientInv(c)
  BY DEF IInv
<1>2. /\ cstate' = [cstate EXCEPT ![c] = s]
      /\ said' = [said EXCEPT ![c] = NoLine]
      /\ heard' = [heard EXCEPT ![c] = NoLine]
  BY DEF Ends, Goto
<1>3. Own(c)
  <2>1. s \in ClientState /\ u \in Sent /\ NoLine \in Line
    BY <1>1 DEF ClientState, Line, Sent, TypeInv
  <2>2. TypeInv'
    BY <1>1, <1>2, <2>1 DEF TypeInv
  <2> QED BY <1>1, <1>2, <2>2 DEF Own, TypeInv
<1>4. ASSUME TurnedOut(c)' PROVE ClientInv(c)'
  <2>1. /\ cstate'[c] = s /\ heard'[c] = NoLine /\ link'[c] = l
        /\ down'[c] \in {down[c], NoLine}
    BY <1>1, <1>2 DEF TypeInv
  <2>2. down'[c] = NoLine
    BY <1>1, <2>1 DEF ClientInv
  <2>3. Ended(c)'
    BY <2>1 DEF Ended
  <2> QED BY <1>4, <2>1, <2>2, <2>3 DEF ClientInv, EchoOf
<1> QED BY <1>3, <1>4, OwnStep

(* A client prints what it received, or what a broken connection left it.  *)
LEMMA PrintStep ==
    ASSUME IInv, NEW c \in Clients, UNCHANGED <<serverVars, served>>,
           recvFromServer(c) \/ RecvEnd(c) \/ (RecvFails(c) /\ Prints(c, Stale))
    PROVE  IInv'
<1> USE DEF serverVars
<1>1. TypeInv /\ ClientInv(c) /\ cstate[c] = "RECV"
  BY DEF IInv, recvFromServer, RecvEnd, RecvFails
<1>2. PICK what \in Line :
         /\ cstate' = [cstate EXCEPT ![c] = "TYPE"]
         /\ heard' = [heard EXCEPT ![c] = what]
         /\ \/ what = down[c] /\ down[c] # NoLine /\ down' = [down EXCEPT ![c] = NoLine]
               /\ link' = link
            \/ /\ what = Stale /\ down[c] = NoLine /\ down' = down
               /\ \/ link[c] \in {"cut", "broken"} /\ link' = link
                  \/ link[c] = "aborted" /\ link' = [link EXCEPT ![c] = "broken"]
         /\ UNCHANGED <<said, up>>
  <2>1. down[c] \in Line /\ Stale \in Line
    BY <1>1 DEF TypeInv, Line, Sent
  <2> QED BY <2>1 DEF recvFromServer, RecvEnd, RecvFails, Prints, Goto, linkVars
<1>3. Own(c)
  <2>1. "TYPE" \in ClientState /\ "broken" \in LinkState /\ NoLine \in Line
    BY DEF ClientState, LinkState, Line, Sent
  <2>2. TypeInv'
    BY <1>1, <1>2, <2>1 DEF TypeInv
  <2> QED BY <1>1, <1>2, <2>2 DEF Own, TypeInv
<1>4. ASSUME TurnedOut(c)' PROVE ClientInv(c)'
  <2>1. /\ cstate'[c] = "TYPE" /\ heard'[c] = what /\ said'[c] = said[c]
        /\ up'[c] = up[c] /\ down'[c] = NoLine
        /\ \/ what = down[c] /\ down[c] # NoLine /\ link'[c] = link[c]
           \/ what = Stale /\ down[c] = NoLine /\ link'[c] \in {"cut", "broken"}
    BY <1>1, <1>2 DEF TypeInv
  <2>2. ~ Ended(c)
    BY <1>1 DEF Ended
  <2>3. link'[c] = "up" => link[c] = "up" /\ down[c] # NoLine
    BY <2>1
  <2>4. link'[c] = "up" => up[c] = NoLine /\ ~ PendingFor(c)
    BY <1>1, <2>3 DEF ClientInv
  <2>5. EchoOf(c)'
    BY <1>1, <2>1 DEF ClientInv, EchoOf
  <2>6. PendingFor(c)' <=> PendingFor(c)
    BY DEF PendingFor
  <2> QED BY <1>1, <1>4, <2>1, <2>2, <2>4, <2>5, <2>6 DEF ClientInv
<1> QED BY <1>3, <1>4, OwnStep

(* Every step of a client, of its user and of its host.                    *)
LEMMA ClientsStep ==
    ASSUME IInv, NEW c \in Clients, UNCHANGED <<serverVars, served>>,
           ClientStep(c) \/ UserStep(c) \/ ConnectFails(c)
    PROVE  IInv'
<1>1. TypeInv /\ ClientInv(c)
  BY DEF IInv
<1>2. /\ link = [link EXCEPT ![c] = link[c]] /\ link[c] \in LinkState
      /\ up = [up EXCEPT ![c] = up[c]]
      /\ "up" # "none"
  BY <1>1 DEF TypeInv
<1>3. ASSUME NEW line \in Lines, sendToServer(c, line)
      PROVE  IInv'
  BY <1>3, SendStep
<1>4. CASE SendFails(c) \/ ConnectFails(c)
  <2>1. Ends(c, "failed") /\ UNCHANGED linkVars /\ cstate[c] \in {"START", "TYPE"}
        /\ link[c] # "up" /\ link[c] # "reset"
    BY <1>1, <1>4 DEF SendFails, ConnectFails, ClientInv, Ended
  <2>2. /\ link' = [link EXCEPT ![c] = link[c]] /\ up' = [up EXCEPT ![c] = up[c]]
        /\ down' = down
    BY <1>2, <2>1 DEF linkVars
  <2> QED BY <1>2, <2>1, <2>2, EndsStep
<1>5. CASE LeaveWithExit(c)
  <2>1. Ends(c, "left") /\ cstate[c] = "TYPE" /\ down' = down
    BY <1>5 DEF LeaveWithExit, readFromStdin, linkVars
  <2>2. CASE link[c] = "up"
    <3>1. up' = [up EXCEPT ![c] = Exit] /\ link' = [link EXCEPT ![c] = "fin"] /\ "fin" \in LinkState
      BY <1>5, <2>2 DEF LeaveWithExit, LinkState
    <3> QED BY <2>1, <3>1, EndsStep
  <2>3. CASE link[c] # "up"
    <3>1. link' = [link EXCEPT ![c] = link[c]] /\ up' = [up EXCEPT ![c] = up[c]]
      BY <1>2, <1>5, <2>3 DEF LeaveWithExit, linkVars
    <3>2. link[c] # "reset"
      BY <1>1, <2>1 DEF ClientInv
    <3> QED BY <1>2, <2>1, <2>3, <3>1, <3>2, EndsStep
  <2> QED BY <2>2, <2>3
<1>6. CASE Kill(c)
  <2>1. /\ Ends(c, "killed") /\ cstate[c] \in {"TYPE", "RECV"}
        /\ down' = [down EXCEPT ![c] = NoLine] /\ up' = up
    BY <1>6 DEF Kill
  <2>2. down'[c] = NoLine
    BY <1>1, <2>1 DEF TypeInv
  <2>3. PICK m \in {"fin", "reset"} : link' = [link EXCEPT ![c] = IF @ = "up" THEN m ELSE @]
    BY <1>6 DEF Kill
  <2> DEFINE l == IF link[c] = "up" THEN m ELSE link[c]
  <2>4. /\ l \in LinkState /\ link' = [link EXCEPT ![c] = l]
        /\ l = link[c] \/ l \in {"fin", "reset", "broken"}
        /\ l # "up"
    BY <1>2, <2>3 DEF LinkState
  <2> HIDE DEF l
  <2> QED BY <1>2, <2>1, <2>2, <2>4, EndsStep
<1>7. CASE RecvFails(c)
  <2>1. CASE Prints(c, Stale)
    BY <1>7, <2>1, PrintStep
  <2>2. CASE Ends(c, "failed")
    <3>1. /\ cstate[c] = "RECV" /\ down[c] = NoLine
          /\ link' = [link EXCEPT ![c] = "broken"] /\ up' = up /\ down' = down
          /\ "broken" \in LinkState
      BY <1>7 DEF RecvFails, LinkState
    <3> QED BY <1>2, <2>2, <3>1, EndsStep
  <2> QED BY <1>7, <2>1, <2>2 DEF RecvFails
<1>8. CASE recvFromServer(c) \/ RecvEnd(c)
  BY <1>8, PrintStep
<1>9. Fill \in Lines
  BY LinesAssumption
<1> QED BY <1>3, <1>4, <1>5, <1>6, <1>7, <1>8, <1>9 DEF ClientStep, UserStep

(* connect.                                                                *)
LEMMA ConnectsStep ==
    ASSUME IInv, NEW c \in Clients, Connects(c)
    PROVE  IInv'
<1>1. TypeInv /\ Connected /\ ClientInv(c)
  BY DEF IInv
<1>2. /\ cstate[c] = "START" /\ Listening
      /\ cstate' = [cstate EXCEPT ![c] = "TYPE"]
      /\ link' = [link EXCEPT ![c] = "up"]
      /\ backlog' = Append(backlog, c)
      /\ UNCHANGED <<said, heard, up, down, lab, server, fds, limit, pending, stdin,
                     pollFileDescriptors, maxFileDescriptor, served>>
  BY DEF Connects, tcpClientSetup, Goto, pollSetVars
<1>3. /\ backlog' \in Seq(Clients)
      /\ \A i \in DOMAIN backlog' :
            \/ i \in DOMAIN backlog /\ backlog'[i] = backlog[i]
            \/ backlog'[i] = c
  <2>1. backlog \in Seq(Clients)
    BY <1>1 DEF TypeInv
  <2> QED BY SMT, <1>2, <2>1
<1>4. \A i \in DOMAIN backlog : backlog[i] # c /\ backlog[i] \in Clients
  BY <1>1, <1>2, ElementOfSeq, LenProperties DEF ClientInv, TypeInv
<1>5. \A i, j \in DOMAIN backlog' : backlog'[i] = backlog'[j] => i = j
  <2>1. backlog \in Seq(Clients)
    BY <1>1 DEF TypeInv
  <2>2. \A i, j \in DOMAIN backlog : backlog[i] = backlog[j] => i = j
    BY <1>1 DEF Connected
  <2> QED BY SMT, <1>2, <1>4, <2>1, <2>2
<1>6. TypeInv'
  <2>1. "TYPE" \in ClientState /\ "up" \in LinkState
    BY DEF ClientState, LinkState
  <2> QED BY <1>1, <1>2, <1>3, <2>1 DEF TypeInv
<1>7. \A d \in Clients : /\ d # c => link'[d] = link[d] /\ cstate'[d] = cstate[d]
                         /\ d = c => link'[d] = "up" /\ cstate'[d] = "TYPE"
  BY <1>1, <1>2 DEF TypeInv
<1>8. PollSetInv'
  <2>1. Open' = Open
    BY <1>2 DEF Open
  <2> QED BY <1>2, <2>1 DEF IInv, PollSetInv
<1>9. Connected'
  BY <1>1, <1>2, <1>3, <1>4, <1>5, <1>7 DEF Connected, Listening, ClientInv
<1>10. ServerInv'
  <2>1. FreeFD' = FreeFD
    BY <1>2 DEF FreeFD
  <2>2. \A d \in served : d \in Clients /\ d # c
    BY <1>1, <1>2 DEF TypeInv, ClientInv
  <2>3. \A d \in served : cstate'[d] = cstate[d] /\ (Ended(d)' <=> Ended(d))
    BY <1>7, <2>2 DEF Ended
  <2> QED BY <1>2, <2>1, <2>3 DEF IInv, ServerInv, EndsOnlyBecause
<1>11. ClientInv(c)'
  <2>1. /\ cstate'[c] = "TYPE" /\ link'[c] = "up" /\ up'[c] = NoLine /\ down'[c] = NoLine
        /\ said'[c] = said[c] /\ heard'[c] = heard[c]
    BY <1>1, <1>2 DEF TypeInv, ClientInv
  <2>2. ~ PendingFor(c)'
    <3> SUFFICES ASSUME PendingFor(c)' PROVE FALSE
      OBVIOUS
    <3>1. pending # Idle /\ fds[pending.socket] = c
      BY <1>2 DEF PendingFor
    <3>2. c \in served
      BY <1>1, <3>1, EntryAssumption DEF TypeInv, Connected
    <3> QED BY <1>1, <1>2, <3>2 DEF ClientInv
  <2>3. EchoOf(c)'
    BY <1>1, <1>2, <2>1 DEF ClientInv, EchoOf
  <2>4. Exit # NoLine
    BY LinesAssumption
  <2> QED BY <2>1, <2>2, <2>3, <2>4 DEF ClientInv, TurnedOut
<1>12. ASSUME NEW d \in Clients, d # c PROVE ClientInv(d)'
  <2>1. ClientInv(d)
    BY DEF IInv
  <2>2. TurnedOut(d)'
    BY <1>2, <1>7, <1>12, <2>1 DEF ClientInv, TurnedOut
  <2>3. PendingFor(d)' => PendingFor(d) /\ pending' = pending
    BY <1>2 DEF PendingFor
  <2>4. cstate[d] = "START" => /\ d \notin served'
                               /\ \A i \in DOMAIN backlog' : backlog'[i] # d
    BY <1>2, <1>3, <1>12, <2>1 DEF ClientInv
  <2> QED BY <1>2, <1>7, <1>12, <2>1, <2>2, <2>3, <2>4, ClientKept
<1> QED BY <1>6, <1>8, <1>9, <1>10, <1>11, <1>12 DEF IInv

-----------------------------------------------------------------------------
(* The poll set.                                                           *)

(* What pollCall answers is an open socket, unless descriptor 0 hung up.   *)
LEMMA PollAnswers ==
    ASSUME IInv, lab = "LAB3_2", NEW s, pollCall(Readable, HungUp, s)
    PROVE  /\ s = ServerSocket => backlog # <<>>
           /\ s \in Socket => fds[s] # NoClient
           /\ s = 0 => stdin = "hung"
<1> DEFINE e == pollFileDescriptors
<1>1. PICK n \in Nat :
         /\ DOMAIN e = 0 .. n - 1
         /\ \A i \in 0 .. n - 1 : e[i] = IF i \in Open THEN Polled(i) ELSE Unused
         /\ maxFileDescriptor \in Nat
         /\ maxFileDescriptor <= n
  BY DEF IInv, PollSetInv
<1>2. /\ Socket \subseteq Nat /\ ServerSocket \notin Socket /\ 0 \notin Socket
      /\ ServerSocket # 0 /\ \A t \in Socket : ~ (t <= 0)
  BY SocketTypes DEF IInv, TypeInv
<1>3. /\ s \in 0 .. maxFileDescriptor - 1
      /\ \/ e[s].fd \in HungUp
         \/ e[s].fd \in Readable /\ "POLLIN" \in e[s].events
      /\ \A i \in Reported(Readable, HungUp) : s <= i
  BY DEF pollCall, Reported
<1>4. \A i \in 0 .. maxFileDescriptor - 1 : i \in 0 .. n - 1 /\ 0 \in 0 .. maxFileDescriptor - 1
  BY SMT, <1>1
<1>5. e[s] = (IF s \in Open THEN Polled(s) ELSE Unused) /\ 0 \notin Open
  BY <1>1, <1>2, <1>3, <1>4 DEF Open
<1>6. Unused.fd = 0 /\ Unused.events = {} /\ Polled(s).fd = s
  BY DEF Unused, Polled
<1>7. ServerSocket \notin HungUp
  BY <1>2 DEF HungUp
<1>8. s \notin Open => 0 \in HungUp
  BY <1>3, <1>5, <1>6
<1>9. 0 \in HungUp => stdin = "hung"
  BY <1>2 DEF HungUp
<1>10. CASE s = ServerSocket
  <2>1. s \in Readable
    BY <1>3, <1>5, <1>6, <1>7, <1>10 DEF Open
  <2> QED BY <1>2, <1>10, <2>1 DEF Readable
<1>11. CASE s \in Socket
  <2>1. ASSUME s \notin Open PROVE FALSE
    <3>1. 0 \in 0 .. maxFileDescriptor - 1 /\ e[0] = Unused
      BY <1>1, <1>3, <1>4, <1>5
    <3>2. 0 \in Reported(Readable, HungUp)
      BY <1>6, <1>8, <2>1, <3>1 DEF Reported
    <3> QED BY <1>2, <1>3, <1>11, <3>2
  <2> QED BY <1>2, <1>11, <2>1 DEF Open
<1>12. CASE s = 0
  BY <1>2, <1>5, <1>8, <1>9, <1>12
<1> QED BY <1>2, <1>10, <1>11, <1>12

(* addToPollSet, with the descriptor a new client has got.                 *)
LEMMA PollSetAdds ==
    ASSUME IInv, lab = "LAB3_2", lab' = lab, limit' = limit, NEW s \in Socket, addToPollSet(s),
           NEW c, c # NoClient, fds' = [fds EXCEPT ![s] = c]
    PROVE  PollSetInv'
<1> DEFINE e == pollFileDescriptors
           m == maxFileDescriptor
<1>1. PICK n \in Nat :
         /\ DOMAIN e = 0 .. n - 1
         /\ \A i \in 0 .. n - 1 : e[i] = IF i \in Open THEN Polled(i) ELSE Unused
         /\ m \in Nat /\ m <= n
         /\ \A t \in Open : t < m
  BY DEF IInv, PollSetInv
<1>2. currentPollSetSize = n
  <2>1. Cardinality(0 .. n - 1) = n
    BY SMT, FS_Interval
  <2> QED BY <1>1, <2>1 DEF currentPollSetSize
<1>3. s \in Nat /\ Socket \subseteq Nat /\ ServerSocket \notin Socket /\ ServerSocket \in Nat
  BY SocketTypes DEF IInv, TypeInv
<1>4. Open' = Open \cup {s}
  BY <1>3 DEF Open, IInv, TypeInv
<1> DEFINE k == IF s >= n THEN s + POLL_SET_SIZE ELSE n
           mm == IF s + 1 >= m THEN s + 1 ELSE m
<1>5. /\ k \in Nat /\ mm \in Nat /\ mm <= k /\ s < mm /\ m <= mm /\ s \in 0 .. k - 1
      /\ \A i \in 0 .. k - 1 : i < n <=> i \in 0 .. n - 1
      /\ \A i \in 0 .. n - 1 : i \in 0 .. k - 1
  BY SMT, <1>1, <1>3, PollSetAssumption
<1>6. \A t \in Open : t \in Nat /\ t < m /\ t \in 0 .. n - 1
  <2>1. \A t \in Open : t \in Nat
    BY <1>3 DEF Open
  <2> QED BY SMT, <1>1, <2>1
<1> DEFINE grown == IF s >= n THEN [i \in 0 .. k - 1 |-> IF i < n THEN e[i] ELSE Unused] ELSE e
<1>7. /\ e' = [grown EXCEPT ![s] = Polled(s)]
      /\ m' = mm
  BY <1>2 DEF addToPollSet, growPollSet
<1>8. /\ DOMAIN grown = 0 .. k - 1
      /\ \A i \in 0 .. k - 1 : grown[i] = IF i \in Open THEN Polled(i) ELSE Unused
  <2>1. CASE s >= n
    BY <1>1, <1>5, <1>6, <2>1
  <2>2. CASE ~ (s >= n)
    BY <1>1, <2>2
  <2> QED BY <2>1, <2>2
<1> HIDE DEF grown, k, mm
<1>9. /\ DOMAIN e' = 0 .. k - 1
      /\ \A i \in 0 .. k - 1 : e'[i] = IF i \in Open' THEN Polled(i) ELSE Unused
  BY <1>4, <1>5, <1>7, <1>8
<1>10. \A t \in Open' : t < m'
  <2>1. \A t \in Open : t < mm
    BY SMT, <1>1, <1>5, <1>6
  <2> QED BY <1>4, <1>5, <1>7, <2>1
<1> QED BY <1>5, <1>7, <1>9, <1>10 DEF PollSetInv

(* removeFromPollSet, with the descriptor of a client that is closed.      *)
LEMMA PollSetRemoves ==
    ASSUME IInv, lab' = lab, limit' = limit, NEW s \in Socket,
           lab = "LAB3_2" => removeFromPollSet(s),
           fds' = [fds EXCEPT ![s] = NoClient]
    PROVE  PollSetInv'
<1> SUFFICES ASSUME lab = "LAB3_2" PROVE PollSetInv'
  BY DEF PollSetInv
<1> DEFINE e == pollFileDescriptors
           m == maxFileDescriptor
<1>1. PICK n \in Nat :
         /\ DOMAIN e = 0 .. n - 1
         /\ \A i \in 0 .. n - 1 : e[i] = IF i \in Open THEN Polled(i) ELSE Unused
         /\ m \in Nat /\ m <= n
         /\ \A t \in Open : t < m
  BY DEF IInv, PollSetInv
<1>2. ServerSocket \notin Socket
  BY SocketTypes DEF IInv, TypeInv
<1>3. Open' = Open \ {s}
  BY <1>2 DEF Open, IInv, TypeInv
<1>4. e' = [e EXCEPT ![s] = Unused] /\ m' = m
  BY DEF removeFromPollSet
<1>5. /\ DOMAIN e' = 0 .. n - 1
      /\ \A i \in 0 .. n - 1 : e'[i] = IF i \in Open' THEN Polled(i) ELSE Unused
  BY <1>1, <1>3, <1>4
<1> QED BY <1>1, <1>3, <1>4, <1>5 DEF PollSetInv

-----------------------------------------------------------------------------
(* The steps of the server.                                                *)

Serving == served' = served \cup (Range(fds') \ {NoClient})

(* A step that accepts nobody serves nobody new.                           *)
LEMMA ServedKept ==
    ASSUME IInv, Serving,
           \/ fds' = fds
           \/ \E s \in Socket : fds' = [fds EXCEPT ![s] = NoClient]
    PROVE  served' = served
<1>1. fds \in [Socket -> Clients \cup {NoClient}] /\ \A s \in Socket : fds[s] # NoClient => fds[s] \in served
  BY DEF IInv, TypeInv, Connected
<1>2. \A x \in Range(fds') : x = NoClient \/ x \in served
  BY <1>1 DEF Range
<1> QED BY <1>2 DEF Serving

(* A step that accepts a client serves it.                                 *)
LEMMA ServedGrows ==
    ASSUME IInv, Serving, NEW s \in Socket, NEW c \in Clients, fds' = [fds EXCEPT ![s] = c]
    PROVE  served' = served \cup {c}
<1>1. fds \in [Socket -> Clients \cup {NoClient}] /\ \A t \in Socket : fds[t] # NoClient => fds[t] \in served
  BY DEF IInv, TypeInv, Connected
<1>2. \A x \in Range(fds') : x = NoClient \/ x \in served \cup {c}
  BY <1>1 DEF Range
<1>3. c \in Range(fds') /\ c # NoClient
  BY <1>1, EntryAssumption DEF Range
<1> QED BY <1>2, <1>3 DEF Serving

(* Which socket is served.                                                 *)
LEMMA ServesOpen ==
    ASSUME IInv, NEW s, Serves(s)
    PROVE  s \in Socket /\ fds[s] \in Clients /\ server = "RUNNING" /\ pending = Idle
<1>1. s \in Socket /\ server = "RUNNING" /\ pending = Idle
  BY DEF Serves, Ready
<1>2. fds[s] # NoClient
  <2>1. ServerSocket \notin Socket
    BY SocketTypes DEF IInv, TypeInv
  <2> QED BY <1>1, <2>1, PollAnswers DEF Serves, Readable
<1> QED BY <1>1, <1>2 DEF IInv, TypeInv

(* Descriptors, poll set and the list of those served stay as they are.    *)
LEMMA PollSetKept ==
    ASSUME IInv, UNCHANGED <<lab, fds, limit, pollSetVars>>
    PROVE  PollSetInv' /\ FreeFD' = FreeFD
<1>1. Open' = Open
  BY DEF Open
<1> QED BY <1>1 DEF IInv, PollSetInv, pollSetVars, FreeFD

(* The server reads the bytes of a PDU.                                    *)
LEMMA RecvPDUStep ==
    ASSUME IInv, NEW s \in Socket, recvPDU(s), Serving, UNCHANGED clientVars
    PROVE  IInv'
<1> USE DEF clientVars
<1>0. PICK c \in Clients : c = fds[s]
  BY ServesOpen DEF recvPDU
<1>1. TypeInv /\ Connected /\ ServerInv /\ ClientInv(c) /\ pending = Idle /\ server = "RUNNING"
  BY ServesOpen DEF IInv, recvPDU
<1>2. /\ up[c] \notin {NoLine, Exit}
      /\ up' = [up EXCEPT ![c] = NoLine]
      /\ pending' = [socket |-> s, pdu |-> up[c]]
      /\ UNCHANGED <<lab, server, backlog, fds, limit, stdin, pollSetVars, link, down>>
  BY <1>0 DEF recvPDU
<1>3. served' = served
  BY <1>2, ServedKept
<1>4. pending' # Idle /\ pending'.socket = s /\ pending'.pdu = up[c]
  BY <1>2 DEF Idle
<1>5. TypeInv'
  <2>1. up[c] \in Lines /\ NoLine \in Sent
    BY <1>1, <1>2 DEF TypeInv, Sent
  <2> QED BY <1>1, <1>2, <1>3, <1>4, <2>1 DEF TypeInv
<1>6. PollSetInv' /\ Connected' /\ ServerInv'
  BY <1>1, <1>2, <1>3, PollSetKept DEF Connected, Listening, ServerInv, EndsOnlyBecause, Ended
<1>7. ClientInv(c)'
  <2>1. /\ up'[c] = NoLine /\ down'[c] = down[c] /\ link'[c] = link[c] /\ fds' = fds
        /\ cstate'[c] = cstate[c] /\ said'[c] = said[c] /\ heard'[c] = heard[c]
    BY <1>1, <1>2 DEF TypeInv
  <2>2. Exit # NoLine
    BY LinesAssumption
  <2> QED BY <1>1, <1>2, <1>3, <1>4, <2>1, <2>2
          DEF ClientInv, EchoOf, TurnedOut, Ended
<1>8. ASSUME NEW d \in Clients, d # c PROVE ClientInv(d)'
  <2>1. ClientInv(d)
    BY DEF IInv
  <2>2. up'[d] = up[d]
    BY <1>1, <1>2, <1>8 DEF TypeInv
  <2>3. TurnedOut(d)'
    BY <1>2, <1>3, <2>1 DEF ClientInv, TurnedOut
  <2>4. ~ PendingFor(d)'
    BY <1>0, <1>2, <1>4, <1>8 DEF PendingFor
  <2> QED BY <1>2, <1>3, <2>1, <2>2, <2>3, <2>4, ClientKept DEF ClientInv
<1> QED BY <1>5, <1>6, <1>7, <1>8 DEF IInv

(* The server sends back what it has read.                                 *)
LEMMA EchoStep ==
    ASSUME IInv, Echo, Serving, UNCHANGED clientVars
    PROVE  IInv'
<1> USE DEF clientVars
<1> DEFINE c == fds[pending.socket]
           p == pending.pdu
<1>1. TypeInv /\ Connected /\ ServerInv
  BY DEF IInv
<1>2. /\ pending # Idle /\ pending' = Idle
      /\ down' = [down EXCEPT ![c] = IF link[c] = "up" THEN p ELSE @]
      /\ UNCHANGED <<lab, server, backlog, fds, limit, stdin, pollSetVars, link, up>>
  BY DEF Echo, sendPDU
<1>3. served' = served
  BY <1>2, ServedKept
<1>4. p \in Line
  BY <1>1, <1>2 DEF TypeInv, Line, Sent
<1> HIDE DEF c, p
<1>5. TypeInv'
  BY <1>1, <1>2, <1>3, <1>4 DEF TypeInv
<1>6. PollSetInv' /\ Connected' /\ ServerInv'
  BY <1>1, <1>2, <1>3, PollSetKept DEF Connected, Listening, ServerInv, EndsOnlyBecause, Ended
<1>7. ASSUME NEW d \in Clients PROVE ClientInv(d)'
  <2>1. ClientInv(d)
    BY DEF IInv
  <2>2. TurnedOut(d)'
    BY <1>2, <1>3, <2>1 DEF ClientInv, TurnedOut
  <2>3. ~ PendingFor(d)'
    BY <1>2 DEF PendingFor
  <2>4. down'[d] = IF d = c /\ link[c] = "up" THEN p ELSE down[d]
    BY <1>1, <1>2 DEF TypeInv
  <2>5. CASE d = c /\ link[c] = "up"
    <3>1. PendingFor(d)
      BY <1>2, <2>5 DEF PendingFor, c
    <3>2. cstate[d] = "RECV" /\ p = said[d] /\ up[d] = NoLine
      BY <2>1, <2>5, <3>1 DEF ClientInv, p
    <3>3. EchoOf(d)'
      BY <1>2, <2>1 DEF ClientInv, EchoOf
    <3>4. Exit # NoLine
      BY LinesAssumption
    <3> QED BY <1>2, <2>2, <2>3, <2>4, <2>5, <3>2, <3>3, <3>4 DEF ClientInv
  <2>6. CASE ~ (d = c /\ link[c] = "up")
    BY <1>2, <1>3, <2>1, <2>2, <2>3, <2>4, <2>6, ClientKept DEF ClientInv
  <2> QED BY <2>5, <2>6
<1> QED BY <1>5, <1>6, <1>7 DEF IInv

(* The server's connections, when it closes some of them.                  *)
LEMMA Closes ==
    ASSUME IInv, NEW C, CloseDown(C)
    PROVE  /\ link' \in [Clients -> LinkState]
           /\ \A d \in Clients :
                 \/ link'[d] = link[d]
                 \/ d \in C /\ link[d] = "up" /\ link'[d] \in {"cut", "aborted"}
<1>1. {"cut", "aborted"} \subseteq LinkState
  BY DEF LinkState
<1> QED BY <1>1 DEF CloseDown, IInv, TypeInv

(* The server ends.                                                        *)
LEMMA DiesStep ==
    ASSUME IInv, NEW of \in {"recv", "send", "stdin", "accept"}, ServerDies(of),
           UNCHANGED <<lab, limit, stdin, pollSetVars>>, Serving, UNCHANGED clientVars,
           of \in {"recv", "send"} => \E c \in served : cstate[c] = "killed",
           of = "stdin" => stdin = "hung",
           of = "accept" => FreeFD = {}
    PROVE  IInv'
<1> USE DEF clientVars
<1>1. TypeInv /\ Connected
  BY DEF IInv
<1>2. server' = of /\ pending' = Idle /\ UNCHANGED <<backlog, fds, up, down>>
  BY DEF ServerDies
<1>3. served' = served
  BY <1>2, ServedKept
<1>4. /\ link' \in [Clients -> LinkState]
      /\ \A d \in Clients :
            \/ link'[d] = link[d]
            \/ link[d] = "up" /\ link'[d] \in {"cut", "aborted"}
  BY Closes DEF ServerDies
<1>5. TypeInv'
  BY <1>1, <1>2, <1>3, <1>4 DEF TypeInv
<1>6. PollSetInv' /\ FreeFD' = FreeFD
  BY <1>2, PollSetKept
<1>7. Connected' /\ ServerInv'
  BY <1>1, <1>2, <1>3, <1>6 DEF Connected, Listening, ServerInv, EndsOnlyBecause
<1>8. ASSUME NEW d \in Clients PROVE ClientInv(d)'
  <2>1. ClientInv(d)
    BY DEF IInv
  <2>2. TurnedOut(d)' /\ ~ PendingFor(d)'
    BY <1>2 DEF TurnedOut, PendingFor
  <2> QED BY <1>2, <1>3, <1>4, <2>1, <2>2, ClientKept DEF ClientInv
<1> QED BY <1>5, <1>6, <1>7, <1>8 DEF IInv

(* The server closes a client; that of LAB3 closes its own socket as well, *)
(* and with it those of the clients it had not accepted.                   *)
LEMMA CloseStep ==
    ASSUME IInv, NEW s \in Socket, CloseClient(s), pending = Idle, server = "RUNNING",
           UNCHANGED <<lab, limit, pending, stdin, down>>, Serving, UNCHANGED clientVars,
           NEW c \in Clients, c = fds[s], Ended(c),
           up' = up \/ up' = [up EXCEPT ![c] = NoLine],
           lab \in {"LAB3", "LAB3_2"}
    PROVE  IInv'
<1> USE DEF clientVars
<1>1. TypeInv /\ Connected /\ ServerInv
  BY DEF IInv
<1>2. /\ fds' = [fds EXCEPT ![s] = NoClient]
      /\ \/ lab = "LAB3_2" /\ removeFromPollSet(s) /\ UNCHANGED <<server, backlog, link>>
         \/ lab = "LAB3" /\ server' = "CLOSED" /\ CloseDown(Range(backlog)) /\ backlog' = <<>>
  BY DEF CloseClient
<1>3. served' = served
  BY <1>2, ServedKept
<1>4. PollSetInv'
  BY <1>2, PollSetRemoves
<1>5. DOMAIN <<>> = {} /\ <<>> \in Seq(Clients)
  BY SMT
<1>6. /\ link' \in [Clients -> LinkState]
      /\ \A d \in Clients :
            \/ link'[d] = link[d]
            \/ /\ lab = "LAB3" /\ d \in Range(backlog)
               /\ link[d] = "up" /\ link'[d] \in {"cut", "aborted"}
  BY <1>1, <1>2, Closes DEF TypeInv
<1>7. \A d \in Clients : up'[d] \in {up[d], NoLine}
  BY <1>1 DEF TypeInv
<1>8. TypeInv'
  <2>1. NoLine \in Sent
    BY DEF Sent
  <2>2. up' \in [Clients -> Sent]
    BY <1>1, <2>1 DEF TypeInv
  <2> QED BY <1>1, <1>2, <1>3, <1>5, <1>6, <2>2 DEF TypeInv
<1>9. c \in served
  BY <1>1, EntryAssumption DEF Connected
<1>10. \A t \in Socket : fds'[t] = IF t = s THEN NoClient ELSE fds[t]
  BY <1>1, <1>2 DEF TypeInv
<1>11. Connected'
  <2>1. CASE lab = "LAB3_2"
    BY <1>1, <1>2, <1>3, <1>10, <2>1 DEF Connected, Listening
  <2>2. CASE lab = "LAB3"
    <3>1. backlog' = <<>> /\ DOMAIN backlog' = {}
      BY <1>2, <1>5, <2>2
    <3> QED BY <1>1, <1>3, <1>10, <3>1 DEF Connected
  <2> QED BY <1>2, <2>1, <2>2
<1>12. ServerInv'
  BY <1>1, <1>2, <1>3, <1>9 DEF ServerInv, EndsOnlyBecause, Ended
<1>13. ASSUME NEW d \in Clients PROVE ClientInv(d)'
  <2>1. ClientInv(d)
    BY DEF IInv
  <2>2. TurnedOut(d)'
    <3>1. CASE link'[d] = link[d]
      BY <1>2, <1>3, <2>1, <3>1 DEF ClientInv, TurnedOut
    <3>2. CASE lab = "LAB3" /\ d \in Range(backlog)
      <4>1. d \notin served
        BY <1>1, <3>2 DEF Connected, Range
      <4> QED BY <1>3, <3>2, <4>1 DEF TurnedOut
    <3> QED BY <1>6, <3>1, <3>2
  <2>3. ~ PendingFor(d)'
    BY DEF PendingFor, Idle
  <2>4. cstate[d] = "START" => /\ d \notin served'
                               /\ \A i \in DOMAIN backlog' : backlog'[i] # d
    <3>1. backlog' = backlog \/ DOMAIN backlog' = {}
      BY <1>2, <1>5
    <3> QED BY <1>3, <2>1, <3>1 DEF ClientInv
  <2> QED BY <1>3, <1>6, <1>7, <2>1, <2>2, <2>3, <2>4, ClientKept
<1> QED BY <1>4, <1>8, <1>11, <1>12, <1>13 DEF IInv

(* accept: a client is served once, and its socket was free.               *)
LEMMA AcceptStep ==
    ASSUME IInv, tcpAccept, backlog # <<>>, server = "RUNNING", pending = Idle,
           UNCHANGED <<lab, server, limit, pending, stdin, linkVars>>,
           Serving, UNCHANGED clientVars,
           lab = "LAB3_2" => addToPollSet(Min(FreeFD))
    PROVE  IInv'
<1> USE DEF clientVars, linkVars
<1> DEFINE s == Min(FreeFD)
           c == Head(backlog)
           rest == Tail(backlog)
<1>1. TypeInv /\ Connected /\ ServerInv
  BY DEF IInv
<1>2. s \in Socket
  <2>1. FreeFD \in SUBSET Nat /\ FreeFD # {}
    BY <1>1, SocketTypes DEF FreeFD, TypeInv, tcpAccept
  <2>2. s \in FreeFD
    BY <2>1, Least
  <2> QED BY <2>2 DEF FreeFD
<1>3. /\ c \in Clients /\ c = backlog[1] /\ 1 \in DOMAIN backlog /\ rest \in Seq(Clients)
      /\ \A i \in DOMAIN rest : /\ i + 1 \in DOMAIN backlog /\ rest[i] = backlog[i + 1]
                                /\ i \in Nat /\ i + 1 # 1
  <2>1. backlog \in Seq(Clients)
    BY <1>1 DEF TypeInv
  <2> QED BY SMT, <2>1, HeadTailProperties
<1> HIDE DEF s, c, rest
<1>4. fds' = [fds EXCEPT ![s] = c] /\ backlog' = rest
  BY DEF tcpAccept, s, c, rest
<1>5. served' = served \cup {c}
  BY <1>2, <1>3, <1>4, ServedGrows
<1>6. c # NoClient
  BY <1>3, EntryAssumption
<1>7. PollSetInv'
  <2>1. CASE lab = "LAB3_2"
    BY <1>2, <1>4, <1>6, <2>1, PollSetAdds DEF s
  <2>2. CASE lab # "LAB3_2"
    BY <2>2 DEF PollSetInv
  <2> QED BY <2>1, <2>2
<1>8. TypeInv'
  BY <1>1, <1>2, <1>3, <1>4, <1>5 DEF TypeInv
<1>9. \A t \in Socket : fds'[t] = IF t = s THEN c ELSE fds[t]
  BY <1>1, <1>4 DEF TypeInv
<1>10. \A i \in DOMAIN rest : rest[i] # c /\ rest[i] \notin served
  BY <1>1, <1>3 DEF Connected
<1>11. Connected'
  <2>1. \A i, j \in DOMAIN rest : rest[i] = rest[j] => i = j
    <3> SUFFICES ASSUME NEW i \in DOMAIN rest, NEW j \in DOMAIN rest, rest[i] = rest[j]
                 PROVE  i = j
      OBVIOUS
    <3>1. i + 1 = j + 1 /\ i \in Nat /\ j \in Nat
      BY <1>1, <1>3 DEF Connected
    <3> QED BY SMT, <3>1
  <2> QED BY <1>1, <1>3, <1>4, <1>5, <1>9, <1>10, <2>1 DEF Connected, Listening
<1>12. ServerInv'
  BY <1>1, <1>5 DEF ServerInv, EndsOnlyBecause
<1>13. ASSUME NEW d \in Clients PROVE ClientInv(d)'
  <2>1. ClientInv(d)
    BY DEF IInv
  <2>2. cstate[d] = "START" => /\ d \notin served'
                               /\ \A i \in DOMAIN backlog' : backlog'[i] # d
    BY <1>3, <1>4, <1>5, <2>1 DEF ClientInv
  <2>3. link[c] \notin {"cut", "aborted"}
    BY <1>1, <1>3 DEF Connected, Listening
  <2>4. TurnedOut(d)'
    BY <1>5, <2>1, <2>3 DEF ClientInv, TurnedOut
  <2>5. ~ PendingFor(d)'
    BY DEF PendingFor, Idle
  <2> QED BY <2>1, <2>2, <2>4, <2>5, ClientKept
<1> QED BY <1>7, <1>8, <1>11, <1>12, <1>13 DEF IInv

(* The server of LAB3 begins again, that of LAB3_2 loses itself in a loop, *)
(* or its standard input hangs up.                                         *)
LEMMA TurnStep ==
    ASSUME IInv, UNCHANGED <<lab, fds, limit, pollSetVars, backlog, pending, linkVars, served>>,
           UNCHANGED clientVars,
           \/ server = "CLOSED" /\ server' \in {"RUNNING", "bind"} /\ stdin' = stdin
           \/ /\ server = "RUNNING" /\ server' = "SPINS" /\ stdin = "hung" /\ stdin' = stdin
           \/ server' = server /\ stdin' = "hung"
    PROVE  IInv'
<1> USE DEF clientVars, linkVars
<1>1. TypeInv /\ Connected /\ ServerInv
  BY DEF IInv
<1>2. TypeInv'
  BY <1>1 DEF TypeInv
<1>3. PollSetInv' /\ FreeFD' = FreeFD
  BY PollSetKept
<1>4. Connected'
  BY <1>1 DEF Connected, Listening
<1>5. ServerInv'
  BY <1>1, <1>3 DEF ServerInv, EndsOnlyBecause, Ended
<1>6. ASSUME NEW d \in Clients PROVE ClientInv(d)'
  <2>1. ClientInv(d)
    BY DEF IInv
  <2>2. TurnedOut(d)'
    BY <2>1 DEF ClientInv, TurnedOut
  <2>3. PendingFor(d)' => PendingFor(d)
    BY DEF PendingFor
  <2> QED BY <2>1, <2>2, <2>3, ClientKept DEF ClientInv
<1> QED BY <1>2, <1>3, <1>4, <1>5, <1>6 DEF IInv

(* Every step of the server.                                               *)
LEMMA ServerKeeps ==
    ASSUME IInv, Server
    PROVE  IInv'
<1>1. ServerStep /\ Serving /\ UNCHANGED clientVars
  BY DEF Server, Serving
<1>2. lab \in {"LAB3", "LAB3_2"}
  BY LabsAssumption DEF IInv, TypeInv
<1>3. CASE addNewClient
  <2>1. backlog # <<>>
    BY <1>3, PollAnswers DEF addNewClient
  <2> QED BY <1>1, <1>3, <2>1, AcceptStep DEF addNewClient, Ready
<1>4. CASE AcceptFails
  BY <1>1, <1>4, DiesStep DEF AcceptFails
<1>5. ASSUME NEW s \in Socket, recvPDU(s) PROVE IInv'
  BY <1>1, <1>5, RecvPDUStep
<1>6. ASSUME NEW s \in Socket, ClientGone(s) PROVE IInv'
  <2>0. Serves(s)
    BY <1>6 DEF ClientGone
  <2>1. PICK c \in Clients : c = fds[s] /\ server = "RUNNING" /\ pending = Idle
    BY <2>0, ServesOpen
  <2>2. /\ up[c] = Exit \/ link[c] = "fin"
        /\ up' = [up EXCEPT ![c] = NoLine]
        /\ CloseClient(s)
        /\ UNCHANGED <<lab, limit, pending, stdin, down>>
    BY <1>6, <2>1 DEF ClientGone
  <2>3. Ended(c)
    BY <2>2 DEF IInv, ClientInv
  <2> QED BY <1>1, <1>2, <2>1, <2>2, <2>3, CloseStep
<1>7. ASSUME NEW s \in Socket, recvPDUFails(s) PROVE IInv'
  <2>0. Serves(s)
    BY <1>7 DEF recvPDUFails
  <2>1. PICK c \in Clients : c = fds[s] /\ server = "RUNNING" /\ pending = Idle
    BY <2>0, ServesOpen
  <2>2. c \in served /\ link[c] = "reset"
    BY <1>7, <2>1, EntryAssumption DEF recvPDUFails, IInv, Connected
  <2>3. cstate[c] = "killed" /\ Ended(c)
    BY <2>2 DEF IInv, ClientInv
  <2>4. CASE \E of \in {"recv", "send"} : ServerDies(of) /\ UNCHANGED pollSetVars
    BY <1>1, <1>7, <2>2, <2>3, <2>4, DiesStep DEF recvPDUFails
  <2>5. CASE CloseClient(s) /\ UNCHANGED <<pending, up, down>>
    BY <1>1, <1>2, <1>7, <2>1, <2>3, <2>5, CloseStep DEF recvPDUFails
  <2> QED BY <1>7, <2>4, <2>5 DEF recvPDUFails
<1>8. CASE ProcessStdin
  <2>1. stdin = "hung"
    BY <1>8, PollAnswers DEF ProcessStdin
  <2>2. CASE ServerDies("stdin")
    BY <1>1, <1>8, <2>1, <2>2, DiesStep DEF ProcessStdin
  <2>3. CASE server' = "SPINS" /\ UNCHANGED <<backlog, fds, pending, linkVars>>
    <3>1. served' = served
      BY <1>1, <2>3, ServedKept
    <3> QED BY <1>1, <1>8, <2>1, <2>3, <3>1, TurnStep DEF ProcessStdin, Ready
  <2> QED BY <1>8, <2>2, <2>3 DEF ProcessStdin
<1>9. CASE Echo
  BY <1>1, <1>9, EchoStep
<1>10. CASE AcceptOne
  BY <1>1, <1>10, AcceptStep DEF AcceptOne, Ready
<1>11. CASE tcpServerSetup
  <2>1. served' = served
    BY <1>1, <1>11, ServedKept DEF tcpServerSetup
  <2> QED BY <1>1, <1>11, <2>1, TurnStep DEF tcpServerSetup
<1> QED BY <1>1, <1>3, <1>4, <1>5, <1>6, <1>7, <1>8, <1>9, <1>10, <1>11 DEF ServerStep

-----------------------------------------------------------------------------
(* The theorems.                                                           *)

(* The inductive invariant is inductive.                                   *)
LEMMA StepKeeps == IInv /\ [Next]_vars => IInv'
<1> SUFFICES ASSUME IInv, [Next]_vars PROVE IInv'
  OBVIOUS
<1>1. CASE Server
  BY <1>1, ServerKeeps
<1>2. ASSUME NEW c \in Clients, Connects(c) PROVE IInv'
  BY <1>2, ConnectsStep
<1>3. ASSUME NEW c \in Clients, UNCHANGED <<serverVars, served>>,
             ClientStep(c) \/ UserStep(c) \/ ConnectFails(c)
      PROVE  IInv'
  BY <1>3, ClientsStep
<1>4. CASE StdinHangsUp /\ UNCHANGED <<clientVars, linkVars, served>>
  BY <1>4, TurnStep DEF StdinHangsUp
<1>5. CASE UNCHANGED vars
  <2> USE <1>5 DEF vars, serverVars, clientVars, linkVars, pollSetVars
  <2>1. TypeInv'
    BY DEF IInv, TypeInv
  <2>2. PollSetInv' /\ FreeFD' = FreeFD
    BY PollSetKept
  <2>3. Connected' /\ ServerInv'
    BY <2>2 DEF IInv, Connected, Listening, ServerInv, EndsOnlyBecause, Ended
  <2>4. ASSUME NEW d \in Clients PROVE ClientInv(d)'
    <3>1. ClientInv(d)
      BY DEF IInv
    <3>2. TurnedOut(d)' /\ (PendingFor(d)' => PendingFor(d))
      BY <3>1 DEF ClientInv, TurnedOut, PendingFor
    <3> QED BY <3>1, <3>2, ClientKept DEF ClientInv
  <2> QED BY <2>1, <2>2, <2>3, <2>4 DEF IInv
<1> QED BY <1>1, <1>2, <1>3, <1>4, <1>5 DEF Next, Client

(* Whatever the clients and their users do, in any order: a line is on its *)
(* way to the server, held by it, or on its way back, never two at once,   *)
(* and descriptors are used again only when poll set and clients have let  *)
(* them go (LAB3_2/myServer.c:58-111, LAB3_2/pollLib.c:37-104).             *)
THEOREM Invariance == Spec => []IInv
<1>1. Init => IInv
  BY InitIInv
<1>2. IInv /\ [Next]_vars => IInv'
  BY StepKeeps
<1> QED BY <1>1, <1>2, PTL DEF Spec

(* A client prints the line it has just sent, unless its connection is     *)
(* broken (myServer.c:82, myClient.c:118).                                 *)
THEOREM Echoes == Spec => []EchoIsOwn
<1>1. IInv => EchoIsOwn
  BY DEF IInv, ClientInv, EchoOf, EchoIsOwn
<1> QED BY <1>1, Invariance, PTL

(* Only LAB3's server closes a connection its client has not closed, and   *)
(* only one it has not accepted (LAB3/myServer.c:55).                      *)
THEOREM KeepsClients == Spec => []NobodyIsTurnedOut
<1>1. IInv => NobodyIsTurnedOut
  BY DEF IInv, ClientInv, TurnedOut, NobodyIsTurnedOut
<1> QED BY <1>1, Invariance, PTL

(* However large the array was and however often it grew, its entries are  *)
(* those of the open sockets (pollLib.c:37-61).                            *)
THEOREM PollSets == Spec => []PollSetIsOpen
<1>1. IInv => PollSetIsOpen
  <2> SUFFICES ASSUME IInv, lab = "LAB3_2"
               PROVE  /\ \A i \in DOMAIN pollFileDescriptors :
                            pollFileDescriptors[i] = IF i \in Open THEN Polled(i) ELSE Unused
                      /\ Open \subseteq DOMAIN pollFileDescriptors
                      /\ \A s \in Open : s < maxFileDescriptor
                      /\ maxFileDescriptor <= currentPollSetSize
    BY DEF PollSetIsOpen, Open
  <2>1. PICK n \in Nat :
           /\ DOMAIN pollFileDescriptors = 0 .. n - 1
           /\ \A i \in 0 .. n - 1 :
                 pollFileDescriptors[i] = IF i \in Open THEN Polled(i) ELSE Unused
           /\ maxFileDescriptor \in Nat /\ maxFileDescriptor <= n
           /\ \A s \in Open : s < maxFileDescriptor
    BY DEF IInv, PollSetInv
  <2>2. currentPollSetSize = n
    <3>1. Cardinality(0 .. n - 1) = n
      BY SMT, FS_Interval
    <3> QED BY <2>1, <3>1 DEF currentPollSetSize
  <2>3. \A s \in Open : s \in Nat
    BY SocketTypes DEF Open, IInv, TypeInv
  <2>4. \A s \in Open : s \in 0 .. n - 1
    BY SMT, <2>1, <2>3
  <2> QED BY <2>1, <2>2, <2>4
<1> QED BY <1>1, Invariance, PTL

(* The five reasons for which a server ends or is lost in a loop           *)
(* (PDUlab.c:8, pollLib.c:59, networks.c:79, 45).                          *)
THEOREM Endings == Spec => []EndsOnlyBecause
<1>1. IInv => EndsOnlyBecause
  BY DEF IInv, ServerInv
<1> QED BY <1>1, Invariance, PTL
=============================================================================
