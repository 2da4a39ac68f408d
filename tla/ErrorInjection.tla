--------------------------- MODULE ErrorInjection ---------------------------
(***************************************************************************)
(* libcpe464: the settings a process takes from its environment and from   *)
(* sendErr_init, the events they put into the two lists of PacketManager,  *)
(* what the events do to a packet that is sent, and what fork copies.      *)
(* The programs call sendErr_init once, before they send anything.  A      *)
(* server binds, a client does not; only the server of Program3 forks, and *)
(* then it leaves the sending to its children, which do not fork.          *)
(***************************************************************************)
EXTENDS Integers, Sequences, FiniteSets

CONSTANTS
    Process,    \* processes
    Root,       \* the one that runs main
    Environ,    \* the environments a run starts in
    Arguments,  \* the arguments a program gives sendErr_init
    Port,       \* ports a server is started with
    DRAWS,      \* drand48 answers one of DRAWS values, in steps of 1 / DRAWS
    LEN,        \* bytes of a packet
    Time,       \* what time(NULL) may answer
    UINT32,     \* how many values a uint32_t has: 2^32, fewer in a run
    MaxMsg,     \* bound: messages all processes send
    Absent,     \* a variable that is not in the environment
    Junk        \* a word that strtol does not take for a number

ASSUME RootAssumption  == Root \in Process
ASSUME DrawsAssumption == DRAWS \in Nat \ {0} /\ LEN \in Nat \ {0}
ASSUME TimeAssumption  == Time \subseteq Nat /\ Port \subseteq Nat /\ MaxMsg \in Nat
(* The numbers of the messages do not wrap within the bound.               *)
ASSUME WidthAssumption == UINT32 \in Nat /\ MaxMsg < UINT32

(* A variable of the environment is the sequence of its words.             *)
Word == Int \cup {Junk}
Variable == Seq(Word) \cup {Absent}

ASSUME EnvironAssumption ==
    Environ \subseteq [seed : Variable, rate : Variable, port : Variable,
                       drop : Variable, flip : Variable]
ASSUME ArgumentsAssumption ==
    Arguments \subseteq [rate : Nat, drop : BOOLEAN, flip : BOOLEAN,
                         random : BOOLEAN]
ASSUME WordAssumption == Junk \notin Int /\ Absent \notin Seq(Word)

VARIABLES
    env,        \* the environment
    lib,        \* lib[p]: the library's data in process p
    buf,        \* buf[p]: bytes complemented in the packet p keeps for sending
    log         \* log[p]: what became of each message of p

vars == <<env, lib, buf, log>>

-----------------------------------------------------------------------------
(* Events.  An errorDrop drops all or the messages on its list.            *)

Info        == [kind |-> "info", all |-> FALSE, list |-> {}]
DropAll     == [kind |-> "drop", all |-> TRUE, list |-> {}]
DropList(L) == [kind |-> "drop", all |-> FALSE, list |-> L]
FlipBits    == [kind |-> "flip", all |-> FALSE, list |-> {}]

UNCHANGED_PACKET == 0
CHANGED          == 1
DROPPED          == 2

run(e, msgNo) ==
    CASE e.kind = "info" -> UNCHANGED_PACKET
      [] e.kind = "flip" -> CHANGED
      [] e.kind = "drop" -> IF e.all \/ msgNo \in e.list
                            THEN DROPPED ELSE UNCHANGED_PACKET

-----------------------------------------------------------------------------
(* SettingsManager.  loadEnvData reads a number with strtol or strtof; a   *)
(* list is any string, also the empty one, up to its first junk.           *)

IsNumber(v) ==
    /\ v # Absent
    /\ v # <<>>
    /\ v[1] # Junk

parser2ListLong(v) ==
    {v[i] : i \in {j \in DOMAIN v : \A k \in 1 .. j : v[k] # Junk}}

(* A long that is not negative is kept, in the width of a message number.  *)
parserLong2Uint32(L) == {n % UINT32 : n \in {m \in L : m >= 0}}

Listed(v) ==
    IF v = Absent THEN {} ELSE parserLong2Uint32(parser2ListLong(v))

IsSet(key) ==
    IF key \in {"drop", "flip"} THEN env[key] # Absent ELSE IsNumber(env[key])

(* The two events that loadEnvData_ErrDrop can add: one for the numbers    *)
(* given, or one that errors are drawn from.  A list of numbers to flip is *)
(* not implemented and adds nothing.                                       *)
loadEnvData_ErrDrop ==
    IF ~ IsSet("drop") THEN [constant |-> <<>>, chance |-> <<>>]
    ELSE IF Listed(env.drop) = {}
         THEN [constant |-> <<>>, chance |-> <<DropAll>>]
         ELSE [constant |-> <<DropList(Listed(env.drop))>>, chance |-> <<>>]

loadEnvData_ErrFlip ==
    IF IsSet("flip") /\ Listed(env.flip) = {} THEN <<FlipBits>> ELSE <<>>

RANDOM_SEED == 10
UNBOUND     == -1

Unborn ==
    [state |-> "none", rate |-> 0, seed |-> 0, nextSeed |-> 0, msgNo |-> 0,
     constant |-> <<>>, chance |-> <<>>, history |-> 0, port |-> UNBOUND]

(* The constructors of PacketManager and SettingsManager run before main.  *)
Loaded(t) ==
    [Unborn EXCEPT
        !.state = "loaded",
        !.rate = IF IsSet("rate") THEN env.rate[1] ELSE 0,
        !.seed = IF IsSet("seed") THEN env.seed[1] ELSE t,
        !.nextSeed = RANDOM_SEED,
        !.constant = loadEnvData_ErrDrop.constant,
        !.chance = loadEnvData_ErrDrop.chance \o loadEnvData_ErrFlip]

setUserMode_SeedRand(l, seed) ==
    IF IsSet("seed") THEN l ELSE [l EXCEPT !.seed = seed]

setUserMode_ErrRate(l, rate) ==
    IF IsSet("rate") THEN l ELSE [l EXCEPT !.rate = rate]

(* Mutant: the program adds its event to those of the environment.         *)
setUserMode_ErrDropTwice(l, isEnabled) ==
    IF isEnabled THEN [l EXCEPT !.chance = Append(@, DropAll)] ELSE l

setUserMode_ErrDrop(l, isEnabled) ==
    IF ~ IsSet("drop") /\ isEnabled
    THEN [l EXCEPT !.chance = Append(@, DropAll)] ELSE l

setUserMode_ErrFlip(l, isEnabled) ==
    IF ~ IsSet("flip") /\ isEnabled
    THEN [l EXCEPT !.chance = Append(@, FlipBits)] ELSE l

Init ==
    /\ env \in Environ
    /\ \E t \in Time :
          lib = [p \in Process |-> IF p = Root THEN Loaded(t) ELSE Unborn]
    /\ buf = [p \in Process |-> {}]
    /\ log = [p \in Process |-> <<>>]

-----------------------------------------------------------------------------
(* network-hooks.c.  time(NULL) is asked twice, and may have gone on.      *)

sendErr_init(a) ==
    /\ lib[Root].state = "loaded"
    /\ \E t1, t2 \in Time :
          LET seed == IF a.random THEN t1 ELSE lib[Root].nextSeed
              next == IF a.random THEN t2 ELSE lib[Root].nextSeed + 1
              told == [lib[Root] EXCEPT !.constant = Append(@, Info)]
          IN  /\ t1 \in {t2, t2 - 1}
              /\ lib' = [lib EXCEPT ![Root] =
                    [setUserMode_SeedRand(
                       setUserMode_ErrFlip(
                         setUserMode_ErrDrop(
                           setUserMode_ErrRate(told, a.rate), a.drop), a.flip), seed)
                     EXCEPT !.nextSeed = next, !.state = "ready"]]
    /\ UNCHANGED <<env, buf, log>>

(* A server binds once.  The port is then taken from the environment, with *)
(* atol, which makes 0 (any free port) of what is no number, and put into  *)
(* a uint16_t.                                                             *)
bindMod(port) ==
    /\ lib[Root].state = "ready"
    /\ lib[Root].port = UNBOUND
    /\ log[Root] = <<>>
    /\ lib' = [lib EXCEPT ![Root].port = IF env.port = Absent THEN port
                                         ELSE IF IsNumber(env.port) THEN env.port[1] % 65536
                                         ELSE 0]
    /\ UNCHANGED <<env, buf, log>>

Forks == lib[Root].state = "ready" /\ lib[Root].port # UNBOUND /\ log[Root] = <<>>

(* Mutant: the parent keeps the seed it gave its child.                    *)
forkModSameSeed(c) ==
    /\ Forks
    /\ lib[c].state = "none"
    /\ lib' = [lib EXCEPT ![c] = setUserMode_SeedRand(lib[Root], lib[Root].nextSeed)]
    /\ buf' = [buf EXCEPT ![c] = buf[Root]]
    /\ UNCHANGED <<env, log>>

(* The child gets a copy of everything and a seed of its own.              *)
forkMod(c) ==
    /\ Forks
    /\ lib[c].state = "none"
    /\ LET parent == [lib[Root] EXCEPT !.nextSeed = @ + 1]
       IN  lib' = [lib EXCEPT
                     ![Root] = parent,
                     ![c] = setUserMode_SeedRand(parent, lib[Root].nextSeed)]
    /\ buf' = [buf EXCEPT ![c] = buf[Root]]
    /\ UNCHANGED <<env, log>>

-----------------------------------------------------------------------------
(* PacketManager.                                                          *)

(* The index of n things that a draw d chooses: (int)(n * drand48()).      *)
Chosen(n, d) == (n * d) \div DRAWS

(* The constant events run in the order in which they were added, and none *)
(* after one that drops the packet.                                        *)
Ran(events, msgNo) ==
    {i \in DOMAIN events :
        \A j \in 1 .. i - 1 : run(events[j], msgNo) # DROPPED}

runMsgEvents(events, msgNo) ==
    LET Answers == {run(events[i], msgNo) : i \in Ran(events, msgNo)}
    IN  IF DROPPED \in Answers THEN DROPPED
        ELSE IF CHANGED \in Answers THEN CHANGED
        ELSE UNCHANGED_PACKET

(* At most one of the chance events runs, if the first draw says so.       *)
Hit(l, d) == l.chance # <<>> /\ d <= l.rate

ChanceEvent(l, d) == l.chance[Chosen(Len(l.chance), d) + 1]

(* Mutant: the chance event's answer replaces the drop of a listed message.*)
processEventsForgets(l, msgNo, d1, d2) ==
    IF Hit(l, d1) THEN run(ChanceEvent(l, d2), msgNo)
                  ELSE runMsgEvents(l.constant, msgNo)

(* What it answers.  A chance event that changes nothing takes back what   *)
(* the constant ones have answered, but for a drop.                        *)
processEvents(l, msgNo, d1, d2) ==
    LET constant == runMsgEvents(l.constant, msgNo)
        chance   == IF Hit(l, d1) THEN run(ChanceEvent(l, d2), msgNo)
                                  ELSE constant
    IN  IF DROPPED \in {constant, chance} THEN DROPPED ELSE chance

Flip(bytes, b) == (bytes \ {b}) \cup ({b} \ bytes)

(* The packet after the events, in a copy of the caller's buffer: a flip   *)
(* complements one byte.                                                   *)
Processed(l, bytes, msgNo, d1, d2, d3) ==
    IF Hit(l, d1) /\ run(ChanceEvent(l, d2), msgNo) = CHANGED
    THEN Flip(bytes, Chosen(LEN, d3)) ELSE bytes

(* All that has been sent, by process and place in its log.                *)
Messages == UNION {{p} \X DOMAIN log[p] : p \in Process}

(* Mutant: a program that sends before it has called sendErr_init.         *)
SendsEarly(p) ==
    /\ lib[p].state \in {"loaded", "ready"}
    /\ p = Root => \A c \in Process \ {Root} : lib[c].state = "none"
    /\ Cardinality(Messages) < MaxMsg

Sends(p) ==
    /\ lib[p].state = "ready"
    /\ p = Root => \A c \in Process \ {Root} : lib[c].state = "none"
    /\ Cardinality(Messages) < MaxMsg

Out == {"sent", "dropped", "failed"}

Entry(no, verdict, bytes, out) ==
    [no |-> no, verdict |-> verdict, out |-> out,
     bytes |-> IF out = "dropped" THEN {} ELSE bytes]

(* Mutant: the events work on the caller's buffer.                         *)
sendto_ErrInPlace(p, d1, d2, d3, out) ==
    LET no      == lib[p].msgNo + 1
        verdict == processEvents(lib[p], no, d1, d2)
        bytes   == Processed(lib[p], buf[p], no, d1, d2, d3)
    IN  /\ Sends(p)
        /\ (verdict = DROPPED) <=> (out = "dropped")
        /\ lib' = [lib EXCEPT ![p].msgNo = no, ![p].history = @ + 1]
        /\ log' = [log EXCEPT ![p] = Append(@, Entry(no, verdict, bytes, out))]
        /\ buf' = [buf EXCEPT ![p] = bytes]
        /\ UNCHANGED env

(* One message: numbered, processed, then dropped or handed to the socket, *)
(* whose sendto may fail: the caller then ends the process.  A drop is     *)
(* reported like a packet that was sent.                                   *)
sendto_Err(p, d1, d2, d3, out) ==
    LET no      == lib[p].msgNo + 1
        verdict == processEvents(lib[p], no, d1, d2)
        infos   == {i \in Ran(lib[p].constant, no) :
                       lib[p].constant[i].kind = "info"}
        bytes   == Processed(lib[p], buf[p], no, d1, d2, d3)
    IN  /\ Sends(p)
        /\ (verdict = DROPPED) <=> (out = "dropped")
        /\ lib' = [lib EXCEPT ![p].msgNo = no,
                              ![p].history = @ + Cardinality(infos),
                              ![p].state = IF out = "failed" THEN "gone" ELSE @]
        /\ log' = [log EXCEPT ![p] = Append(@, Entry(no, verdict, bytes, out))]
        /\ UNCHANGED <<env, buf>>

(* The process ends; its destructors report and free the events.           *)
Exit(p) ==
    /\ lib[p].state = "ready"
    /\ lib' = [lib EXCEPT ![p].state = "gone"]
    /\ UNCHANGED <<env, buf, log>>

Next ==
    \/ \E a \in Arguments : sendErr_init(a)
    \/ \E port \in Port : bindMod(port)
    \/ \E c \in Process \ {Root} : forkMod(c)
    \/ \E p \in Process : Exit(p)
    \/ \E p \in Process, d1, d2, d3 \in 0 .. DRAWS - 1, out \in Out :
          sendto_Err(p, d1, d2, d3, out)

Spec == Init /\ [][Next]_vars
-----------------------------------------------------------------------------
Kinds(events) == {events[i].kind : i \in DOMAIN events}

(* What the environment sets, no call of the program changes, and there is *)
(* one event of a kind to draw from, whoever asked for it                  *)
(* (SettingsManager.cpp:284-361).                                          *)
OverridesWin ==
    \A p \in Process :
        LET l == lib[p]
        IN  l.state \in {"loaded", "ready"} =>
              /\ IsNumber(env.rate) => l.rate = env.rate[1]
              /\ IsNumber(env.seed) => l.seed = env.seed[1]
              /\ Len(l.chance) = Cardinality(Kinds(l.chance))
              /\ Listed(env.drop) # {} => "drop" \notin Kinds(l.chance)
              /\ Listed(env.flip) # {} => "flip" \notin Kinds(l.chance)

(* A message whose number is on the list does not leave the process, of    *)
(* whatever process it is the message with that number, and an empty list  *)
(* is no list (PacketManager.cpp:157-189).                                 *)
ListedAreDropped ==
    \A p \in Process : \A i \in DOMAIN log[p] :
        log[p][i].no \in Listed(env.drop) => log[p][i].out = "dropped"

(* What leaves differs from what the caller keeps for sending again in one *)
(* byte at most, however often it is sent (PacketManager.cpp:343-347), and *)
(* the answer of the events says so.                                       *)
OneByteAtMost ==
    \A p \in Process : \A i \in DOMAIN log[p] :
        LET e == log[p][i]
        IN  /\ Cardinality(e.bytes) <= 1
            /\ e.verdict = CHANGED <=> e.bytes # {}

(* No two children draw their errors from the same seed, unless the        *)
(* environment gives one (network-hooks.c:49-64).                          *)
SiblingSeedsDiffer ==
    \A c, d \in Process \ {Root} :
        /\ c # d
        /\ lib[c].state # "none"
        /\ lib[d].state # "none"
        /\ ~ IsNumber(env.seed)
        => lib[c].seed # lib[d].seed

(* What Datagram assumes.                                                  *)
Outcome(e) ==
    CASE e.out = "dropped" -> "drop"
      [] e.out = "failed"  -> "failed"
      [] e.out = "sent"    -> IF e.bytes = {} THEN "sent" ELSE "flip"

FaultsOf(p) ==
    Kinds(lib[p].chance) \cup Kinds(lib[p].constant)

Link == INSTANCE FaultyLink WITH
    faults   <- [p \in Process |->
                   IF lib[p].state \in {"ready", "gone"} THEN FaultsOf(p) \ {"info"} ELSE {}],
    outcomes <- [p \in Process |->
                   [i \in DOMAIN log[p] |-> Outcome(log[p][i])]]

IsFaultyLink == Link!LinkSpec
=============================================================================
