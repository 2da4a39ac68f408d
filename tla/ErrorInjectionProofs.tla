------------------------ MODULE ErrorInjectionProofs ------------------------
(***************************************************************************)
(* ErrorInjection, for every environment, all arguments of sendErr_init,   *)
(* any number of processes and messages and every grain of drand48: what   *)
(* the environment sets wins, listed messages are dropped, a packet loses  *)
(* one byte at most, children draw from seeds of their own, and the link   *)
(* that Datagram assumes is implemented.                                   *)
(***************************************************************************)
EXTENDS ErrorInjection, FiniteSetTheorems, SequenceTheorems, TLAPS

State == {"none", "loaded", "ready", "gone"}

Event == [kind : {"info", "drop", "flip"}, all : BOOLEAN, list : SUBSET Nat]

Library ==
    [state : State, rate : Int, seed : Int, nextSeed : Int, msgNo : Nat,
     constant : Seq(Event), chance : Seq(Event), history : Nat, port : Int]

Verdict == {UNCHANGED_PACKET, CHANGED, DROPPED}

Sent == [no : Nat, verdict : Verdict, bytes : SUBSET Int, out : Out]

(* The chance events that a process can have: one of a kind at most.       *)
Chances ==
    {<<>>, <<DropAll>>, <<FlipBits>>, <<DropAll, FlipBits>>, <<FlipBits, DropAll>>}

(* The constant ones: the list of the environment, and after sendErr_init  *)
(* the report.                                                             *)
Constants ==
    loadEnvData_ErrDrop.constant

TypeInv ==
    /\ env \in Environ
    /\ lib \in [Process -> Library]
    /\ buf = [p \in Process |-> {}]
    /\ log \in [Process -> Seq(Sent)]

(* What the settings of a process are, by its state.                       *)
Settings ==
    \A p \in Process :
        LET l == lib[p]
        IN  /\ l.state = "none" => p # Root /\ log[p] = <<>>
            /\ l.state = "loaded" =>
                 /\ p = Root
                 /\ log[p] = <<>>
                 /\ \A c \in Process \ {Root} : lib[c].state = "none"
                 /\ l.constant = Constants
                 /\ l.chance = loadEnvData_ErrDrop.chance \o loadEnvData_ErrFlip
            /\ l.state \in {"ready", "gone"} =>
                 /\ l.constant = Append(Constants, Info)
                 /\ l.chance \in Chances
            /\ l.state # "none" =>
                 /\ IsNumber(env.rate) => l.rate = env.rate[1]
                 /\ IsNumber(env.seed) => l.seed = env.seed[1]
                 /\ Listed(env.drop) # {} => "drop" \notin Kinds(l.chance)
                 /\ Listed(env.flip) # {} => "flip" \notin Kinds(l.chance)

(* A seed once given is not given again.                                   *)
SeedsGrow ==
    ~ IsNumber(env.seed) =>
        \A c \in Process \ {Root} :
            lib[c].state # "none" => lib[c].seed < lib[Root].nextSeed

IInv ==
    /\ TypeInv
    /\ Settings
    /\ SeedsGrow
    /\ SiblingSeedsDiffer
    /\ ListedAreDropped
    /\ OneByteAtMost

-----------------------------------------------------------------------------
(* Sequences of one and two.                                               *)
LEMMA Tuples ==
    ASSUME NEW S, NEW e \in S, NEW f \in S
    PROVE  /\ Append(<<>>, f) = <<f>>
           /\ Append(<<e>>, f) = <<e, f>>
           /\ <<>> \o <<f>> = <<f>> /\ <<e>> \o <<f>> = <<e, f>>
           /\ <<>> \o <<>> = <<>> /\ <<e>> \o <<>> = <<e>>
<1>1. <<>> \in Seq(S) /\ <<e>> \in Seq(S) /\ <<f>> \in Seq(S) /\ <<e, f>> \in Seq(S)
  BY SMT
<1>2. Append(<<>>, f) = <<f>>
  BY SMT, <1>1, SeqEqual, AppendProperties
<1>3. Append(<<e>>, f) = <<e, f>>
  <2>1. /\ Append(<<e>>, f) \in Seq(S) /\ Len(Append(<<e>>, f)) = 2
        /\ Append(<<e>>, f)[1] = e /\ Append(<<e>>, f)[2] = f
    BY SMT, <1>1, AppendProperties
  <2>2. Len(<<e, f>>) = 2 /\ <<e, f>>[1] = e /\ <<e, f>>[2] = f
    BY SMT
  <2>3. \A i \in 1 .. 2 : i = 1 \/ i = 2
    BY SMT
  <2>4. \A i \in 1 .. Len(Append(<<e>>, f)) : Append(<<e>>, f)[i] = <<e, f>>[i]
    BY <2>1, <2>2, <2>3
  <2> QED BY <1>1, <2>1, <2>2, <2>4, SeqEqual
<1>4. <<>> \o <<f>> = <<f>> 
  BY SMT, <1>1, ConcatEmptySeq
<1>5. <<e>> \o <<f>> = <<e, f>>
  BY <1>1, <1>3, AppendIsConcat
<1>6. <<>> \o <<>> = <<>> /\ <<e>> \o <<>> = <<e>>
  BY <1>1, ConcatEmptySeq
<1> QED BY <1>2, <1>3, <1>4, <1>5, <1>6

(* The environment.                                                        *)

(* The types of the environment variables.                                 *)
LEMMA EnvTypes ==
    ASSUME env \in Environ
    PROVE  /\ env.seed \in Variable /\ env.rate \in Variable
           /\ env.port \in Variable /\ env.drop \in Variable
           /\ env.flip \in Variable
  BY EnvironAssumption

(* A variable that holds a number.                                         *)
LEMMA NumberIsInt ==
    ASSUME NEW v \in Variable, IsNumber(v)
    PROVE  v[1] \in Int
<1>1. v \in Seq(Word) /\ v # <<>> /\ v[1] # Junk
  BY DEF IsNumber, Variable
<1>2. v[1] \in Word
  BY SMT, <1>1
<1> QED BY <1>1, <1>2 DEF Word

(* The message numbers that a variable lists.                              *)
LEMMA ListedAreNat ==
    ASSUME NEW v \in Variable
    PROVE  Listed(v) \subseteq Nat
<1>1. CASE v = Absent
  BY <1>1 DEF Listed
<1>2. CASE v # Absent
  <2>1. v \in Seq(Word)
    BY <1>2 DEF Variable
  <2>2. \A i \in DOMAIN v : (\A k \in 1 .. i : v[k] # Junk) => v[i] \in Int
    <3> SUFFICES ASSUME NEW i \in DOMAIN v, \A k \in 1 .. i : v[k] # Junk
                 PROVE  v[i] \in Int
      OBVIOUS
    <3>1. i \in 1 .. i /\ v[i] \in Word
      BY SMT, <2>1
    <3> QED BY <3>1 DEF Word
  <2>3. parser2ListLong(v) \subseteq Int
    BY <2>2 DEF parser2ListLong
  <2>4. UINT32 \in Nat \ {0}
    BY SMT, TimeAssumption, WidthAssumption
  <2>5. \A n \in Nat : n % UINT32 \in Nat
    BY SMT, <2>4
  <2>6. parserLong2Uint32(parser2ListLong(v)) \subseteq Nat
    BY SMT, <2>3, <2>5 DEF parserLong2Uint32
  <2> QED BY <1>2, <2>6 DEF Listed
<1> QED BY <1>1, <1>2

(* The events are of the type of events.                                   *)
LEMMA EventTypes ==
    /\ Info \in Event
    /\ DropAll \in Event
    /\ FlipBits \in Event
    /\ \A L \in SUBSET Nat : DropList(L) \in Event
  BY DEF Info, DropAll, FlipBits, DropList, Event

(* The lists that the environment fills.                                   *)
LEMMA EnvLists ==
    ASSUME env \in Environ
    PROVE  /\ Constants =
                IF Listed(env.drop) = {} THEN <<>> ELSE <<DropList(Listed(env.drop))>>
           /\ loadEnvData_ErrDrop.chance =
                IF IsSet("drop") /\ Listed(env.drop) = {} THEN <<DropAll>> ELSE <<>>
           /\ IsSet("drop") <=> env.drop # Absent
           /\ IsSet("flip") <=> env.flip # Absent
           /\ IsSet("rate") <=> IsNumber(env.rate)
           /\ IsSet("seed") <=> IsNumber(env.seed)
  BY DEF Constants, loadEnvData_ErrDrop, IsSet, Listed

(* The events that are installed whatever is drawn.                        *)
LEMMA ConstantTypes ==
    ASSUME env \in Environ
    PROVE  Constants \in Seq(Event) /\ Append(Constants, Info) \in Seq(Event)
<1>1. Listed(env.drop) \in SUBSET Nat
  BY EnvTypes, ListedAreNat
<1>2. DropList(Listed(env.drop)) \in Event
  BY <1>1, EventTypes
<1>3. \A e, f \in Event :
         /\ <<>> \in Seq(Event) /\ <<e>> \in Seq(Event)
         /\ Append(<<>>, f) \in Seq(Event) /\ Append(<<e>>, f) \in Seq(Event)
  BY SMT
<1> QED BY <1>2, <1>3, EnvLists, EventTypes

(* The events that are drawn.                                              *)
LEMMA ChanceTypes == Chances \subseteq Seq(Event)
<1>1. \A e, f \in Event : <<>> \in Seq(Event) /\ <<e>> \in Seq(Event) /\ <<e, f>> \in Seq(Event)
  BY SMT
<1> QED BY <1>1, EventTypes DEF Chances

(* The kinds of the chance events, and how many there are.                 *)
LEMMA ChanceKinds ==
    /\ Kinds(<<>>) = {}
    /\ Kinds(<<DropAll>>) = {"drop"}
    /\ Kinds(<<FlipBits>>) = {"flip"}
    /\ Kinds(<<DropAll, FlipBits>>) = {"drop", "flip"}
    /\ Kinds(<<FlipBits, DropAll>>) = {"drop", "flip"}
  BY SMT DEF Kinds, DropAll, FlipBits

(* No kind of event is installed twice among those that are drawn.         *)
LEMMA ChancesDiffer ==
    ASSUME NEW s \in Chances
    PROVE  Len(s) = Cardinality(Kinds(s))
<1>1. /\ Cardinality({}) = 0
      /\ Cardinality({"drop"}) = 1
      /\ Cardinality({"flip"}) = 1
  BY FS_EmptySet, FS_Singleton
<1>2. Cardinality({"drop", "flip"}) = 2
  <2>1. IsFiniteSet({"drop"}) /\ "flip" \notin {"drop"}
    BY FS_Singleton
  <2>2. Cardinality({"drop"} \cup {"flip"}) = Cardinality({"drop"}) + 1
    BY <2>1, FS_AddElement
  <2>3. {"drop"} \cup {"flip"} = {"drop", "flip"}
    OBVIOUS
  <2> QED BY SMT, <1>1, <2>2, <2>3
<1>3. /\ Len(<<>>) = 0
      /\ Len(<<DropAll>>) = 1
      /\ Len(<<FlipBits>>) = 1
      /\ Len(<<DropAll, FlipBits>>) = 2
      /\ Len(<<FlipBits, DropAll>>) = 2
  BY SMT
<1> QED BY <1>1, <1>2, <1>3, ChanceKinds DEF Chances

(* What the environment leaves to chance.                                  *)
LEMMA LoadedChances ==
    ASSUME env \in Environ,
           NEW s, s = loadEnvData_ErrDrop.chance \o loadEnvData_ErrFlip
    PROVE  /\ s \in Chances
           /\ "drop" \in Kinds(s) => env.drop # Absent /\ Listed(env.drop) = {}
           /\ "flip" \in Kinds(s) => env.flip # Absent /\ Listed(env.flip) = {}
           /\ env.drop = Absent => s \in {<<>>, <<FlipBits>>}
           /\ env.flip = Absent => s \in {<<>>, <<DropAll>>}
<1>1. loadEnvData_ErrDrop.chance =
         IF env.drop # Absent /\ Listed(env.drop) = {} THEN <<DropAll>> ELSE <<>>
  BY EnvLists
<1>2. loadEnvData_ErrFlip =
         IF env.flip # Absent /\ Listed(env.flip) = {} THEN <<FlipBits>> ELSE <<>>
  BY EnvLists DEF loadEnvData_ErrFlip
<1>3. /\ <<>> \o <<>> = <<>> /\ <<DropAll>> \o <<>> = <<DropAll>>
      /\ <<>> \o <<FlipBits>> = <<FlipBits>>
      /\ <<DropAll>> \o <<FlipBits>> = <<DropAll, FlipBits>>
  BY Tuples, EventTypes
<1>4. s = IF env.drop # Absent /\ Listed(env.drop) = {}
          THEN IF env.flip # Absent /\ Listed(env.flip) = {}
               THEN <<DropAll, FlipBits>> ELSE <<DropAll>>
          ELSE IF env.flip # Absent /\ Listed(env.flip) = {}
               THEN <<FlipBits>> ELSE <<>>
  BY <1>1, <1>2, <1>3
<1> QED BY <1>4, ChanceKinds DEF Chances

(* What the program adds.                                                  *)
LEMMA AddedChances ==
    /\ Append(<<>>, DropAll) = <<DropAll>>
    /\ Append(<<>>, FlipBits) = <<FlipBits>>
    /\ Append(<<FlipBits>>, DropAll) = <<FlipBits, DropAll>>
    /\ Append(<<DropAll>>, FlipBits) = <<DropAll, FlipBits>>
  BY Tuples, EventTypes

(* A library stays one when a field is set.                                *)
LEMMA Updated ==
    ASSUME NEW l \in Library
    PROVE  /\ \A s \in State : [l EXCEPT !.state = s] \in Library
           /\ \A i \in Int :
                 /\ [l EXCEPT !.rate = i] \in Library
                 /\ [l EXCEPT !.seed = i] \in Library
                 /\ [l EXCEPT !.nextSeed = i] \in Library
                 /\ [l EXCEPT !.port = i] \in Library
           /\ \A n \in Nat :
                 /\ [l EXCEPT !.msgNo = n] \in Library
                 /\ [l EXCEPT !.history = n] \in Library
           /\ \A e \in Seq(Event) :
                 /\ [l EXCEPT !.constant = e] \in Library
                 /\ [l EXCEPT !.chance = e] \in Library
  BY DEF Library

-----------------------------------------------------------------------------
(* The initial state.                                                      *)

(* The initial states satisfy the inductive invariant.                     *)
LEMMA InitIInv == Init => IInv
<1> SUFFICES ASSUME Init PROVE IInv
  OBVIOUS
<1>1. env \in Environ /\ buf = [p \in Process |-> {}] /\ log = [p \in Process |-> <<>>]
  BY DEF Init
<1>2. PICK t \in Time :
         lib = [p \in Process |-> IF p = Root THEN Loaded(t) ELSE Unborn]
  BY DEF Init
<1>3. Unborn \in Library /\ Unborn.state = "none"
  BY SMT DEF Unborn, Library, State, UNBOUND
<1>4. /\ Loaded(t).state = "loaded"
      /\ Loaded(t).constant = Constants
      /\ Loaded(t).chance = loadEnvData_ErrDrop.chance \o loadEnvData_ErrFlip
      /\ IsNumber(env.rate) => Loaded(t).rate = env.rate[1]
      /\ IsNumber(env.seed) => Loaded(t).seed = env.seed[1]
      /\ Loaded(t).rate \in Int /\ Loaded(t).seed \in Int
      /\ Loaded(t).nextSeed \in Int /\ Loaded(t).msgNo = 0
      /\ Loaded(t).history = 0 /\ Loaded(t).port = UNBOUND
  <2>1. Loaded(t).rate = IF IsNumber(env.rate) THEN env.rate[1] ELSE 0
    BY EnvLists, <1>1 DEF Loaded, Unborn
  <2>2. Loaded(t).seed = IF IsNumber(env.seed) THEN env.seed[1] ELSE t
    BY EnvLists, <1>1 DEF Loaded, Unborn
  <2>3. t \in Int
    BY SMT, TimeAssumption
  <2>4. Loaded(t).rate \in Int /\ Loaded(t).seed \in Int
    BY <1>1, <2>1, <2>2, <2>3, EnvTypes, NumberIsInt, SMT
  <2> QED BY <2>1, <2>2, <2>4, SMT DEF Loaded, Unborn, Constants, RANDOM_SEED
<1>5. Loaded(t).chance \in Chances /\ Loaded(t).constant \in Seq(Event)
  BY <1>1, <1>4, LoadedChances, ConstantTypes
<1>6. Loaded(t) \in Library
  <2>1. Loaded(t).chance \in Seq(Event)
    BY <1>5, ChanceTypes
  <2> DEFINE l1 == [Unborn EXCEPT !.state = "loaded"]
             l2 == [l1 EXCEPT !.rate = Loaded(t).rate]
             l3 == [l2 EXCEPT !.seed = Loaded(t).seed]
             l4 == [l3 EXCEPT !.nextSeed = RANDOM_SEED]
             l5 == [l4 EXCEPT !.constant = Constants]
             l6 == [l5 EXCEPT !.chance = Loaded(t).chance]
  <2>2. l3 \in Library
    BY <1>3, <1>4, Updated DEF State
  <2>3. l6 \in Library
    <3> HIDE DEF l3
    <3>1. RANDOM_SEED \in Int
      BY SMT DEF RANDOM_SEED
    <3> QED BY <2>1, <2>2, <3>1, <1>1, Updated, ConstantTypes
  <2>4. Loaded(t) = l6
    BY <1>4 DEF Loaded, Unborn
  <2> QED BY <2>3, <2>4
<1>7. TypeInv
  BY <1>1, <1>2, <1>3, <1>6, SMT DEF TypeInv
<1>8. Settings
  BY <1>1, <1>2, <1>3, <1>4, <1>5, LoadedChances, RootAssumption DEF Settings
<1>9. SeedsGrow /\ SiblingSeedsDiffer
  BY <1>2, <1>3 DEF SeedsGrow, SiblingSeedsDiffer
<1>10. ListedAreDropped /\ OneByteAtMost
  BY <1>1 DEF ListedAreDropped, OneByteAtMost
<1> QED BY <1>7, <1>8, <1>9, <1>10 DEF IInv
-----------------------------------------------------------------------------
(* The steps that change the settings.                                     *)

(* What sendErr_init makes of a library that is loaded.                    *)
LEMMA InitIsSet ==
    ASSUME IInv, NEW a \in Arguments, sendErr_init(a)
    PROVE  /\ lib[Root].state = "loaded"
           /\ env' = env /\ buf' = buf /\ log' = log
           /\ \E l \in Library :
                 /\ lib' = [lib EXCEPT ![Root] = l]
                 /\ l.state = "ready"
                 /\ l.constant = Append(Constants, Info)
                 /\ l.chance \in Chances
                 /\ IsNumber(env.rate) => l.rate = env.rate[1]
                 /\ IsNumber(env.seed) => l.seed = env.seed[1]
                 /\ Listed(env.drop) # {} => "drop" \notin Kinds(l.chance)
                 /\ Listed(env.flip) # {} => "flip" \notin Kinds(l.chance)
<1> DEFINE old == lib[Root]
           told == [old EXCEPT !.constant = Append(@, Info)]
           rated == setUserMode_ErrRate(told, a.rate)
           dropping == setUserMode_ErrDrop(rated, a.drop)
           flipping == setUserMode_ErrFlip(dropping, a.flip)
<1>1. /\ env \in Environ /\ old \in Library /\ old.state = "loaded"
      /\ old.constant = Constants
      /\ old.chance = loadEnvData_ErrDrop.chance \o loadEnvData_ErrFlip
      /\ IsNumber(env.rate) => old.rate = env.rate[1]
      /\ IsNumber(env.seed) => old.seed = env.seed[1]
  BY RootAssumption DEF IInv, TypeInv, Settings, sendErr_init
<1>2. PICK t1, t2 \in Time :
         lib' = [lib EXCEPT ![Root] =
                   [setUserMode_SeedRand(flipping, IF a.random THEN t1 ELSE old.nextSeed)
                    EXCEPT !.nextSeed = IF a.random THEN t2 ELSE old.nextSeed + 1,
                           !.state = "ready"]]
  BY DEF sendErr_init
<1>3. a.rate \in Int /\ old.nextSeed \in Int /\ old.nextSeed + 1 \in Int
      /\ t1 \in Int /\ t2 \in Int
  BY SMTT(30), <1>1, ArgumentsAssumption, TimeAssumption DEF Library
<1>4. told \in Library /\ told.constant = Append(Constants, Info)
      /\ told.chance = old.chance /\ told.rate = old.rate /\ told.seed = old.seed
  BY <1>1, ConstantTypes, Updated DEF Library
<1>5. /\ rated \in Library /\ rated.constant = told.constant
      /\ rated.chance = old.chance /\ rated.seed = old.seed
      /\ IsNumber(env.rate) => rated.rate = env.rate[1]
  <2> HIDE DEF told
  <2> QED BY <1>1, <1>3, <1>4, EnvLists, Updated DEF setUserMode_ErrRate, Library
<1>6. /\ old.chance \in Chances
      /\ "drop" \in Kinds(old.chance) => env.drop # Absent /\ Listed(env.drop) = {}
      /\ "flip" \in Kinds(old.chance) => env.flip # Absent /\ Listed(env.flip) = {}
      /\ env.drop = Absent => old.chance \in {<<>>, <<FlipBits>>}
      /\ env.flip = Absent => old.chance \in {<<>>, <<DropAll>>}
  BY <1>1, LoadedChances
<1>7. Listed(Absent) = {}
  BY DEF Listed
<1>8. /\ dropping.chance \in Chances
      /\ dropping.chance \in {old.chance, Append(old.chance, DropAll)}
      /\ env.drop # Absent => dropping.chance = old.chance
      /\ dropping \in Library /\ dropping.constant = told.constant
      /\ dropping.seed = old.seed /\ dropping.rate = rated.rate
  <2>1. dropping = IF env.drop = Absent /\ a.drop
                   THEN [rated EXCEPT !.chance = Append(old.chance, DropAll)] ELSE rated
    BY <1>1, <1>5, EnvLists DEF setUserMode_ErrDrop
  <2>2. env.drop = Absent => Append(old.chance, DropAll) \in Chances
    BY <1>6, AddedChances DEF Chances
  <2>3. CASE env.drop = Absent /\ a.drop
    <3>1. Append(old.chance, DropAll) \in Chances /\ Append(old.chance, DropAll) \in Seq(Event)
      BY <2>2, <2>3, ChanceTypes
    <3>2. /\ dropping \in Library /\ dropping.chance = Append(old.chance, DropAll)
          /\ dropping.constant = rated.constant
          /\ dropping.seed = rated.seed /\ dropping.rate = rated.rate
      <4> HIDE DEF rated, dropping, old
      <4> QED BY <2>1, <2>3, <3>1, <1>5, Updated DEF Library
    <3> HIDE DEF rated, dropping, old
    <3> QED BY <2>3, <3>1, <3>2, <1>5
  <2>4. CASE ~ (env.drop = Absent /\ a.drop)
    <3> HIDE DEF rated, dropping, old
    <3> QED BY <2>1, <2>4, <1>5, <1>6
  <2> QED BY <2>3, <2>4
<1>9. /\ flipping.chance \in Chances
      /\ "drop" \in Kinds(flipping.chance) => Listed(env.drop) = {}
      /\ "flip" \in Kinds(flipping.chance) => Listed(env.flip) = {}
      /\ flipping \in Library /\ flipping.constant = told.constant
      /\ flipping.seed = old.seed /\ flipping.rate = rated.rate
  <2>1. flipping = IF env.flip = Absent /\ a.flip
                   THEN [dropping EXCEPT !.chance = Append(dropping.chance, FlipBits)]
                   ELSE dropping
    BY <1>1, EnvLists DEF setUserMode_ErrFlip
  <2>2. /\ "drop" \in Kinds(dropping.chance) => Listed(env.drop) = {}
        /\ "flip" \in Kinds(dropping.chance) => Listed(env.flip) = {}
        /\ env.flip = Absent => dropping.chance \in {<<>>, <<DropAll>>}
    <3> HIDE DEF dropping, old
    <3>1. CASE env.drop = Absent
      BY <3>1, <1>6, <1>7, <1>8, AddedChances, ChanceKinds
    <3>2. CASE env.drop # Absent
      BY <3>2, <1>6, <1>7, <1>8
    <3> QED BY <3>1, <3>2
  <2>3. CASE env.flip = Absent /\ a.flip
    <3> DEFINE added == Append(dropping.chance, FlipBits)
    <3>1. /\ added \in {<<FlipBits>>, <<DropAll, FlipBits>>} /\ added \in Seq(Event)
          /\ added \in Chances
          /\ "drop" \in Kinds(added) => Listed(env.drop) = {}
      <4> HIDE DEF dropping
      <4> QED BY <2>2, <2>3, AddedChances, ChanceKinds, ChanceTypes DEF Chances
    <3>2. /\ flipping \in Library /\ flipping.chance = added
          /\ flipping.constant = dropping.constant
          /\ flipping.seed = dropping.seed /\ flipping.rate = dropping.rate
      <4> HIDE DEF dropping, flipping
      <4>1. flipping = [dropping EXCEPT !.chance = added]
        BY <2>1, <2>3
      <4> HIDE DEF added
      <4> QED BY <4>1, <3>1, <1>8, Updated DEF Library
    <3>3. Listed(env.flip) = {}
      BY <2>3, <1>7
    <3> HIDE DEF dropping, flipping, added, told, old, rated
    <3> QED BY <3>1, <3>2, <3>3, <1>8
  <2>4. CASE ~ (env.flip = Absent /\ a.flip)
    <3> HIDE DEF dropping, flipping
    <3> QED BY <2>1, <2>2, <2>4, <1>8
  <2> QED BY <2>3, <2>4
<1> DEFINE seed == IF a.random THEN t1 ELSE old.nextSeed
           next == IF a.random THEN t2 ELSE old.nextSeed + 1
           seeded == setUserMode_SeedRand(flipping, seed)
           counted == [seeded EXCEPT !.nextSeed = next]
           new == [counted EXCEPT !.state = "ready"]
<1>10. seed \in Int /\ next \in Int
  BY <1>3
<1>11. /\ seeded \in Library /\ seeded.constant = flipping.constant
       /\ seeded.chance = flipping.chance /\ seeded.rate = flipping.rate
       /\ IsNumber(env.seed) => seeded.seed = env.seed[1]
  <2> HIDE DEF flipping, seed
  <2> QED BY <1>1, <1>9, <1>10, EnvLists, Updated DEF setUserMode_SeedRand, Library
<1>12. new \in Library /\ new.state = "ready" /\ new.constant = seeded.constant
       /\ new.chance = seeded.chance /\ new.rate = seeded.rate /\ new.seed = seeded.seed
  <2> HIDE DEF seeded, next
  <2>1. /\ counted \in Library /\ counted.constant = seeded.constant
        /\ counted.chance = seeded.chance /\ counted.rate = seeded.rate
        /\ counted.seed = seeded.seed
    BY <1>10, <1>11, Updated DEF Library
  <2> HIDE DEF counted
  <2> QED BY <2>1, Updated DEF Library, State
<1>13. lib' = [lib EXCEPT ![Root] = new]
  <2> HIDE DEF flipping
  <2> QED BY <1>2
<1>14. env' = env /\ buf' = buf /\ log' = log
  BY DEF sendErr_init
<1> HIDE DEF new, counted, seeded, flipping, dropping, rated, told, old
<1> QED BY <1>1, <1>4, <1>5, <1>9, <1>11, <1>12, <1>13, <1>14 DEF old

(* The environment is never changed.                                       *)
LEMMA EnvKept ==
    ASSUME env' = env
    PROVE  /\ Constants' = Constants
           /\ (loadEnvData_ErrDrop.chance \o loadEnvData_ErrFlip)'
                = loadEnvData_ErrDrop.chance \o loadEnvData_ErrFlip
  BY DEF Constants, loadEnvData_ErrDrop, loadEnvData_ErrFlip, IsSet

(* A step that sends nothing leaves what is true of the log.               *)
LEMMA LogKept ==
    ASSUME IInv, UNCHANGED <<env, log>>
    PROVE  ListedAreDropped' /\ OneByteAtMost'
  BY DEF IInv, ListedAreDropped, OneByteAtMost

(* The first process calls the initialisation of the library.              *)
LEMMA InitStep ==
    ASSUME IInv, NEW a \in Arguments, sendErr_init(a)
    PROVE  IInv'
<1>1. env' = env /\ buf' = buf /\ log' = log /\ lib[Root].state = "loaded"
  BY InitIsSet
<1>2. PICK l \in Library :
         /\ lib' = [lib EXCEPT ![Root] = l]
         /\ l.state = "ready"
         /\ l.constant = Append(Constants, Info)
         /\ l.chance \in Chances
         /\ IsNumber(env.rate) => l.rate = env.rate[1]
         /\ IsNumber(env.seed) => l.seed = env.seed[1]
         /\ Listed(env.drop) # {} => "drop" \notin Kinds(l.chance)
         /\ Listed(env.flip) # {} => "flip" \notin Kinds(l.chance)
  BY InitIsSet
<1>3. lib \in [Process -> Library] /\ TypeInv
  BY DEF IInv, TypeInv
<1>4. lib'[Root] = l /\ \A c \in Process \ {Root} : lib'[c] = lib[c]
  BY <1>2, <1>3, RootAssumption
<1>5. \A c \in Process \ {Root} : lib[c].state = "none"
  BY <1>1, RootAssumption DEF IInv, Settings
<1>6. TypeInv'
  BY <1>1, <1>2, <1>3 DEF TypeInv
<1>7. Settings'
  BY <1>1, <1>2, <1>4, <1>5, EnvKept DEF IInv, Settings
<1>8. SeedsGrow' /\ SiblingSeedsDiffer'
  BY <1>4, <1>5 DEF SeedsGrow, SiblingSeedsDiffer
<1> QED BY <1>1, <1>6, <1>7, <1>8, LogKept DEF IInv

(* The first process binds its socket.                                     *)
LEMMA BindStep ==
    ASSUME IInv, NEW port \in Port, bindMod(port)
    PROVE  IInv'
<1>1. /\ env' = env /\ buf' = buf /\ log' = log /\ lib[Root].state = "ready"
      /\ lib \in [Process -> Library] /\ env \in Environ
  BY DEF bindMod, IInv, TypeInv
<1> DEFINE i == IF env.port = Absent THEN port
                ELSE IF IsNumber(env.port) THEN env.port[1] % 65536 ELSE 0
<1>2. lib' = [lib EXCEPT ![Root] = [lib[Root] EXCEPT !.port = i]]
  BY DEF bindMod
<1>3. i \in Int
  <2>1. IsNumber(env.port) => env.port[1] \in Int
    BY <1>1, EnvTypes, NumberIsInt
  <2>2. IsNumber(env.port) => env.port[1] % 65536 \in Int
    BY <2>1, SMT
  <2> QED BY <2>2, TimeAssumption, SMT
<1> HIDE DEF i
<1>4. [lib[Root] EXCEPT !.port = i] \in Library
  BY <1>1, <1>3, RootAssumption, Updated
<1>5. TypeInv'
  BY <1>1, <1>2, <1>4 DEF TypeInv, IInv
<1>6. \A p \in Process :
         /\ lib'[p].state = lib[p].state /\ lib'[p].rate = lib[p].rate
         /\ lib'[p].seed = lib[p].seed /\ lib'[p].nextSeed = lib[p].nextSeed
         /\ lib'[p].constant = lib[p].constant /\ lib'[p].chance = lib[p].chance
  BY <1>1, <1>2 DEF Library
<1>7. Settings'
  BY <1>1, <1>6, EnvKept DEF IInv, Settings
<1>8. SeedsGrow' /\ SiblingSeedsDiffer'
  BY <1>1, <1>6, RootAssumption DEF IInv, SeedsGrow, SiblingSeedsDiffer
<1> QED BY <1>1, <1>5, <1>7, <1>8, LogKept DEF IInv

(* A process ends.                                                         *)
LEMMA ExitStep ==
    ASSUME IInv, NEW q \in Process, Exit(q)
    PROVE  IInv'
<1>1. /\ env' = env /\ buf' = buf /\ log' = log /\ lib[q].state = "ready"
      /\ lib \in [Process -> Library]
      /\ lib' = [lib EXCEPT ![q] = [lib[q] EXCEPT !.state = "gone"]]
  BY DEF Exit, IInv, TypeInv
<1>2. [lib[q] EXCEPT !.state = "gone"] \in Library
  BY <1>1, Updated DEF State
<1>3. TypeInv'
  BY <1>1, <1>2 DEF TypeInv, IInv
<1>4. \A p \in Process :
         /\ lib'[p].rate = lib[p].rate
         /\ lib'[p].seed = lib[p].seed /\ lib'[p].nextSeed = lib[p].nextSeed
         /\ lib'[p].constant = lib[p].constant /\ lib'[p].chance = lib[p].chance
         /\ lib'[p].state = IF p = q THEN "gone" ELSE lib[p].state
  BY <1>1 DEF Library
<1>5. Settings'
  BY <1>1, <1>4, EnvKept DEF IInv, Settings
<1>6. SeedsGrow' /\ SiblingSeedsDiffer'
  BY <1>1, <1>4, RootAssumption DEF IInv, SeedsGrow, SiblingSeedsDiffer
<1> QED BY <1>1, <1>3, <1>5, <1>6, LogKept DEF IInv

(* The child's seed is the one the parent counts past.                     *)
LEMMA ForkIsSet ==
    ASSUME IInv, NEW c \in Process \ {Root}, forkMod(c)
    PROVE  /\ env' = env /\ log' = log /\ buf' = buf
           /\ lib[c].state = "none" /\ lib[Root].state = "ready"
           /\ \E parent, child \in Library :
                 /\ lib' = [lib EXCEPT ![Root] = parent, ![c] = child]
                 /\ parent.state = "ready" /\ child.state = "ready"
                 /\ parent.rate = lib[Root].rate /\ child.rate = lib[Root].rate
                 /\ parent.constant = lib[Root].constant /\ child.constant = lib[Root].constant
                 /\ parent.chance = lib[Root].chance /\ child.chance = lib[Root].chance
                 /\ parent.seed = lib[Root].seed
                 /\ child.seed = IF IsNumber(env.seed) THEN lib[Root].seed
                                 ELSE lib[Root].nextSeed
                 /\ parent.nextSeed = lib[Root].nextSeed + 1
<1> DEFINE old == lib[Root]
           parent == [old EXCEPT !.nextSeed = old.nextSeed + 1]
           child == IF IsNumber(env.seed) THEN parent ELSE [parent EXCEPT !.seed = old.nextSeed]
<1>1. /\ env' = env /\ log' = log
      /\ lib[c].state = "none" /\ old.state = "ready"
      /\ buf = [p \in Process |-> {}] /\ buf' = [buf EXCEPT ![c] = buf[Root]]
      /\ old \in Library /\ env \in Environ
  BY RootAssumption DEF forkMod, Forks, IInv, TypeInv
<1>2. buf' = buf
  BY <1>1, RootAssumption
<1>3. old.nextSeed \in Int /\ old.nextSeed + 1 \in Int
  BY SMT, <1>1 DEF Library
<1>4. /\ parent \in Library /\ parent.state = old.state /\ parent.rate = old.rate
      /\ parent.constant = old.constant /\ parent.chance = old.chance
      /\ parent.seed = old.seed /\ parent.nextSeed = old.nextSeed + 1
  BY <1>1, <1>3, Updated DEF Library
<1>5. /\ child \in Library /\ child.state = parent.state /\ child.rate = parent.rate
      /\ child.constant = parent.constant /\ child.chance = parent.chance
      /\ child.seed = IF IsNumber(env.seed) THEN parent.seed ELSE old.nextSeed
  <2> HIDE DEF parent
  <2> QED BY <1>3, <1>4, Updated DEF Library
<1>6. lib' = [lib EXCEPT ![Root] = parent, ![c] = child]
  BY <1>1, EnvLists DEF forkMod, setUserMode_SeedRand
<1> HIDE DEF child, parent
<1>7. /\ child.state = "ready" /\ child.rate = old.rate
      /\ child.constant = old.constant /\ child.chance = old.chance
      /\ child.seed = IF IsNumber(env.seed) THEN old.seed ELSE old.nextSeed
  BY <1>1, <1>4, <1>5
<1>8. \E par, chi \in Library :
         /\ lib' = [lib EXCEPT ![Root] = par, ![c] = chi]
         /\ par.state = "ready" /\ chi.state = "ready"
         /\ par.rate = old.rate /\ chi.rate = old.rate
         /\ par.constant = old.constant /\ chi.constant = old.constant
         /\ par.chance = old.chance /\ chi.chance = old.chance
         /\ par.seed = old.seed
         /\ chi.seed = IF IsNumber(env.seed) THEN old.seed ELSE old.nextSeed
         /\ par.nextSeed = old.nextSeed + 1
  <2>1. parent \in Library /\ child \in Library
    BY <1>4, <1>5
  <2> HIDE DEF old
  <2> USE <2>1
  <2> WITNESS parent \in Library, child \in Library
  <2> QED BY <1>1, <1>4, <1>6, <1>7
<1> QED BY <1>1, <1>2, <1>8

(* The first process forks a child.                                        *)
LEMMA ForkStep ==
    ASSUME IInv, NEW c \in Process \ {Root}, forkMod(c)
    PROVE  IInv'
<1>1. /\ env' = env /\ log' = log /\ buf' = buf
      /\ lib[c].state = "none" /\ lib[Root].state = "ready"
      /\ TypeInv /\ lib \in [Process -> Library]
  BY ForkIsSet DEF IInv, TypeInv
<1>2. PICK parent, child \in Library :
         /\ lib' = [lib EXCEPT ![Root] = parent, ![c] = child]
         /\ parent.state = "ready" /\ child.state = "ready"
         /\ parent.rate = lib[Root].rate /\ child.rate = lib[Root].rate
         /\ parent.constant = lib[Root].constant /\ child.constant = lib[Root].constant
         /\ parent.chance = lib[Root].chance /\ child.chance = lib[Root].chance
         /\ parent.seed = lib[Root].seed
         /\ child.seed = IF IsNumber(env.seed) THEN lib[Root].seed
                         ELSE lib[Root].nextSeed
         /\ parent.nextSeed = lib[Root].nextSeed + 1
  BY ForkIsSet
<1>3. /\ lib'[Root] = parent /\ lib'[c] = child
      /\ \A p \in Process : p # Root /\ p # c => lib'[p] = lib[p]
  BY <1>1, <1>2, RootAssumption
<1>4. TypeInv'
  BY <1>1, <1>2 DEF TypeInv
<1>5. Settings'
  <2> SUFFICES ASSUME NEW p \in Process
               PROVE  /\ lib'[p].state = "none" => p # Root /\ log[p] = <<>>
                      /\ lib'[p].state # "loaded"
                      /\ lib'[p].state \in {"ready", "gone"} =>
                           /\ lib'[p].constant = Append(Constants, Info)
                           /\ lib'[p].chance \in Chances
                      /\ lib'[p].state # "none" =>
                           /\ IsNumber(env.rate) => lib'[p].rate = env.rate[1]
                           /\ IsNumber(env.seed) => lib'[p].seed = env.seed[1]
                           /\ Listed(env.drop) # {} => "drop" \notin Kinds(lib'[p].chance)
                           /\ Listed(env.flip) # {} => "flip" \notin Kinds(lib'[p].chance)
    BY <1>1, EnvKept DEF Settings
  <2>1. CASE p = Root \/ p = c
    BY <1>1, <1>2, <1>3, <2>1, RootAssumption DEF IInv, Settings
  <2>2. CASE p # Root /\ p # c
    BY <1>1, <1>3, <2>2 DEF IInv, Settings
  <2> QED BY <2>1, <2>2
<1>6. /\ lib[Root].nextSeed \in Int
      /\ \A p \in Process : lib[p].seed \in Int
  BY <1>1, RootAssumption DEF Library
<1>7. SeedsGrow'
  <2> SUFFICES ASSUME ~ IsNumber(env.seed), NEW d \in Process \ {Root},
                      lib'[d].state # "none"
               PROVE  lib'[d].seed < lib[Root].nextSeed + 1
    BY <1>1, <1>2, <1>3 DEF SeedsGrow
  <2>1. CASE d = c
    BY SMT, <1>2, <1>3, <1>6, <2>1
  <2>2. CASE d # c
    <3>1. lib[d].seed < lib[Root].nextSeed /\ lib'[d] = lib[d]
      BY <1>3, <2>2 DEF IInv, SeedsGrow
    <3> QED BY SMT, <1>6, <3>1
  <2> QED BY <2>1, <2>2
<1>8. SiblingSeedsDiffer'
  <2> SUFFICES ASSUME NEW d \in Process \ {Root}, NEW e \in Process \ {Root}, d # e,
                      lib'[d].state # "none", lib'[e].state # "none",
                      ~ IsNumber(env.seed)
               PROVE  lib'[d].seed # lib'[e].seed
    BY <1>1 DEF SiblingSeedsDiffer
  <2>1. \A f \in Process \ {Root} : f # c /\ lib'[f].state # "none" =>
           lib'[f].seed = lib[f].seed /\ lib[f].seed < lib[Root].nextSeed /\ lib[f].state # "none"
    BY <1>3 DEF IInv, SeedsGrow
  <2>2. lib'[c].seed = lib[Root].nextSeed
    BY <1>2, <1>3
  <2>3. \A f \in Process : lib[f].seed < lib[Root].nextSeed => lib[f].seed # lib[Root].nextSeed
    BY SMT, <1>6
  <2> QED BY <2>1, <2>2, <2>3 DEF IInv, SiblingSeedsDiffer
<1> QED BY <1>1, <1>4, <1>5, <1>7, <1>8, LogKept DEF IInv

-----------------------------------------------------------------------------
(* A message.                                                              *)

(* A draw chooses one of the events, or one of the bytes.                  *)
LEMMA ChosenIsOne ==
    ASSUME NEW n \in Nat \ {0}, NEW d \in 0 .. DRAWS - 1
    PROVE  Chosen(n, d) \in 0 .. n - 1
<1>1. PICK D \in Nat \ {0} : D = DRAWS
  BY DrawsAssumption
<1>2. PICK m \in Int : m = n * d
  BY SMT, <1>1
<1>3. d <= D - 1 /\ d >= 0 /\ d \in Int
  BY SMT, <1>1
<1>4. m >= 0 /\ m < n * D
  BY SMT, <1>2, <1>3
<1>5. PICK q \in Int : q = m \div D
  BY SMT
<1>6. D * q <= m /\ m < D * q + D
  BY SMT, <1>5
<1>7. q >= 0
  BY SMT, <1>4, <1>6
<1>8. q < n
  <2> SUFFICES ASSUME q >= n PROVE FALSE
    BY SMT
  <2>1. D * q >= n * D
    BY SMT
  <2> QED BY SMT, <2>1, <1>4, <1>6
<1> QED BY SMT, <1>1, <1>2, <1>5, <1>7, <1>8 DEF Chosen

(* What the events answer.                                                 *)
LEMMA Answers ==
    ASSUME NEW no
    PROVE  /\ run(Info, no) = UNCHANGED_PACKET
           /\ run(DropAll, no) = DROPPED
           /\ run(FlipBits, no) = CHANGED
           /\ \A L : run(DropList(L), no) = IF no \in L THEN DROPPED ELSE UNCHANGED_PACKET
  BY DEF run, Info, DropAll, FlipBits, DropList

(* The constant events of a process that has been set up.                  *)
LEMMA ConstantEvents ==
    ASSUME IInv, NEW p \in Process, lib[p].state \in {"ready", "gone"}
    PROVE  lib[p].constant = IF Listed(env.drop) = {} THEN <<Info>>
                             ELSE <<DropList(Listed(env.drop)), Info>>
<1>1. env \in Environ /\ lib[p].constant = Append(Constants, Info)
  BY DEF IInv, TypeInv, Settings
<1>2. Listed(env.drop) \in SUBSET Nat
  BY <1>1, EnvTypes, ListedAreNat
<1>3. DropList(Listed(env.drop)) \in Event
  BY <1>2, EventTypes
<1>4. CASE Listed(env.drop) = {}
  BY <1>1, <1>4, EnvLists, EventTypes, Tuples
<1>5. CASE Listed(env.drop) # {}
  BY <1>1, <1>3, <1>5, EnvLists, EventTypes, Tuples
<1> QED BY <1>4, <1>5

(* What the constant events make of message no.                            *)
LEMMA ConstantAnswers ==
    ASSUME IInv, NEW p \in Process, lib[p].state \in {"ready", "gone"}, NEW no \in Nat
    PROVE  runMsgEvents(lib[p].constant, no) =
              IF no \in Listed(env.drop) THEN DROPPED ELSE UNCHANGED_PACKET
<1> DEFINE L == Listed(env.drop)
<1>1. DROPPED # UNCHANGED_PACKET /\ CHANGED # UNCHANGED_PACKET /\ CHANGED # DROPPED
  BY SMT DEF DROPPED, CHANGED, UNCHANGED_PACKET
<1>2. CASE L = {}
  <2>1. lib[p].constant = <<Info>>
    BY <1>2, ConstantEvents
  <2>2. DOMAIN <<Info>> = {1} /\ <<Info>>[1] = Info
    BY SMT
  <2>3. \A i \in Ran(<<Info>>, no) : run(<<Info>>[i], no) = UNCHANGED_PACKET
    BY <2>2, Answers DEF Ran
  <2> QED BY <1>1, <1>2, <2>1, <2>3 DEF runMsgEvents
<1>3. CASE L # {}
  <2> DEFINE s == <<DropList(L), Info>>
  <2>1. lib[p].constant = s
    BY <1>3, ConstantEvents
  <2>2. DOMAIN s = {1, 2} /\ s[1] = DropList(L) /\ s[2] = Info
    BY SMT
  <2>3. 1 \in Ran(s, no)
    <3>1. 1 .. 1 - 1 = {}
      BY SMT
    <3> HIDE DEF s
    <3> QED BY <2>2, <3>1 DEF Ran
  <2> HIDE DEF s, L
  <2>4. CASE no \in L
    <3>1. run(s[1], no) = DROPPED
      BY <2>2, <2>4, Answers
    <3> QED BY <2>1, <2>3, <2>4, <3>1 DEF runMsgEvents, L
  <2>5. CASE no \notin L
    <3>1. \A i \in Ran(s, no) : run(s[i], no) = UNCHANGED_PACKET
      BY <2>2, <2>5, Answers DEF Ran
    <3> QED BY <1>1, <2>1, <2>5, <3>1 DEF runMsgEvents, L
  <2> QED BY <2>4, <2>5
<1> QED BY <1>2, <1>3

(* The event that is drawn is one of those installed.                      *)
LEMMA ChanceIsOne ==
    ASSUME IInv, NEW p \in Process, lib[p].state \in {"ready", "gone"},
           NEW d1, NEW d2 \in 0 .. DRAWS - 1, Hit(lib[p], d1)
    PROVE  LET e == ChanceEvent(lib[p], d2)
           IN  /\ e \in {DropAll, FlipBits}
               /\ e.kind \in Kinds(lib[p].chance)
<1> DEFINE s == lib[p].chance
           i == Chosen(Len(s), d2)
<1>1. s \in Chances /\ s # <<>> /\ s \in Seq(Event)
  BY ChanceTypes DEF Hit, IInv, Settings
<1>2. Len(s) \in Nat \ {0} /\ DOMAIN s = 1 .. Len(s)
  <2> HIDE DEF s
  <2> QED BY SMT, <1>1
<1>3. i \in 0 .. Len(s) - 1
  <2> HIDE DEF s
  <2> QED BY <1>2, ChosenIsOne
<1>4. i + 1 \in DOMAIN s
  <2> HIDE DEF s, i
  <2> QED BY SMT, <1>2, <1>3
<1>5. \A j \in DOMAIN s : s[j] \in {DropAll, FlipBits}
  <2> HIDE DEF s
  <2>1. /\ DOMAIN <<>> = {} /\ DOMAIN <<DropAll>> = {1} /\ DOMAIN <<FlipBits>> = {1}
        /\ DOMAIN <<DropAll, FlipBits>> = {1, 2} /\ DOMAIN <<FlipBits, DropAll>> = {1, 2}
        /\ <<DropAll>>[1] = DropAll /\ <<FlipBits>>[1] = FlipBits
        /\ <<DropAll, FlipBits>>[1] = DropAll /\ <<DropAll, FlipBits>>[2] = FlipBits
        /\ <<FlipBits, DropAll>>[1] = FlipBits /\ <<FlipBits, DropAll>>[2] = DropAll
    BY SMT
  <2> QED BY <1>1, <2>1 DEF Chances
<1>6. ChanceEvent(lib[p], d2) = s[i + 1]
  BY DEF ChanceEvent
<1> HIDE DEF s, i
<1> QED BY <1>4, <1>5, <1>6 DEF Kinds, s

(* The verdict on a message and what becomes of its bytes.                 *)
Fits(p, no, verdict, bytes) ==
    /\ verdict \in Verdict
    /\ no \in Listed(env.drop) => verdict = DROPPED
    /\ verdict # DROPPED => (verdict = CHANGED <=> bytes # {})
    /\ bytes # {} => \E b \in Int : bytes = {b}
    /\ verdict = DROPPED => "drop" \in FaultsOf(p)
    /\ bytes # {} => "flip" \in FaultsOf(p)

(* What becomes of message no.                                             *)
LEMMA VerdictOf ==
    ASSUME IInv, NEW p \in Process, lib[p].state = "ready", NEW no \in Nat,
           NEW d1 \in 0 .. DRAWS - 1, NEW d2 \in 0 .. DRAWS - 1, NEW d3 \in 0 .. DRAWS - 1,
           NEW verdict, verdict = processEvents(lib[p], no, d1, d2),
           NEW bytes, bytes = Processed(lib[p], buf[p], no, d1, d2, d3)
    PROVE  Fits(p, no, verdict, bytes)
<1> DEFINE l == lib[p]
           e == ChanceEvent(l, d2)
           constant == runMsgEvents(l.constant, no)
           chance == IF Hit(l, d1) THEN run(e, no) ELSE constant
<1>1. DROPPED # UNCHANGED_PACKET /\ CHANGED # UNCHANGED_PACKET /\ CHANGED # DROPPED
  BY SMT DEF DROPPED, CHANGED, UNCHANGED_PACKET
<1>2. constant = IF no \in Listed(env.drop) THEN DROPPED ELSE UNCHANGED_PACKET
  BY ConstantAnswers
<1>3. buf[p] = {}
  BY DEF IInv, TypeInv
<1>4. verdict = IF DROPPED \in {constant, chance} THEN DROPPED ELSE chance
  BY DEF processEvents
<1>5. bytes = IF Hit(l, d1) /\ run(e, no) = CHANGED THEN {Chosen(LEN, d3)} ELSE {}
  BY <1>3 DEF Processed, Flip
<1>6. Chosen(LEN, d3) \in Int
  <2>1. Chosen(LEN, d3) \in 0 .. LEN - 1
    BY ChosenIsOne, DrawsAssumption
  <2> QED BY SMT, <2>1, DrawsAssumption
<1>7. no \in Listed(env.drop) => "drop" \in FaultsOf(p)
  <2> SUFFICES ASSUME no \in Listed(env.drop) PROVE "drop" \in FaultsOf(p)
    OBVIOUS
  <2> DEFINE s == <<DropList(Listed(env.drop)), Info>>
  <2>1. l.constant = s
    BY ConstantEvents
  <2>2. 1 \in DOMAIN s /\ s[1] = DropList(Listed(env.drop))
    BY SMT
  <2>3. s[1].kind = "drop"
    BY <2>2 DEF DropList
  <2> HIDE DEF s
  <2> QED BY <2>1, <2>2, <2>3 DEF FaultsOf, Kinds
<1>8. CASE Hit(l, d1)
  <2>1. e \in {DropAll, FlipBits} /\ e.kind \in FaultsOf(p)
    BY <1>8, ChanceIsOne DEF FaultsOf
  <2>2. CASE e = DropAll
    <3>1. run(e, no) = DROPPED /\ "drop" \in FaultsOf(p)
      BY <2>1, <2>2, Answers DEF DropAll
    <3>2. bytes = {} /\ verdict = DROPPED
      BY <1>1, <1>4, <1>5, <1>8, <3>1
    <3> QED BY <1>1, <1>2, <1>7, <3>1, <3>2 DEF Verdict, Fits
  <2>3. CASE e = FlipBits
    <3>1. run(e, no) = CHANGED /\ "flip" \in FaultsOf(p)
      BY <2>1, <2>3, Answers DEF FlipBits
    <3>2. /\ bytes = {Chosen(LEN, d3)}
          /\ verdict = IF constant = DROPPED THEN DROPPED ELSE CHANGED
      BY <1>1, <1>4, <1>5, <1>8, <3>1
    <3> HIDE DEF constant
    <3> QED BY <1>1, <1>2, <1>6, <1>7, <3>1, <3>2 DEF Verdict, Fits
  <2> QED BY <2>1, <2>2, <2>3
<1>9. CASE ~ Hit(l, d1)
  <2>1. bytes = {} /\ verdict = constant
    BY <1>4, <1>5, <1>9
  <2> HIDE DEF constant
  <2> QED BY <1>1, <1>2, <1>7, <2>1 DEF Verdict, Fits
<1> QED BY <1>8, <1>9

(* What a call of sendto_Err changes.                                      *)
SameSettings(l, k) ==
    /\ l.rate = k.rate /\ l.seed = k.seed /\ l.nextSeed = k.nextSeed
    /\ l.constant = k.constant /\ l.chance = k.chance

Logged(p, out, m) ==
    /\ m.out = out
    /\ m.no \in Listed(env.drop) => m.out = "dropped"
    /\ m.bytes # {} => \E b \in Int : m.bytes = {b}
    /\ m.verdict = CHANGED <=> m.bytes # {}
    /\ m.out = "dropped" => "drop" \in FaultsOf(p)
    /\ m.bytes # {} => "flip" \in FaultsOf(p)

(* What sendto_Err leaves behind: the settings as they were, and a true    *)
(* entry in the log.                                                       *)
LEMMA SendIsLogged ==
    ASSUME IInv, NEW p \in Process,
           NEW d1 \in 0 .. DRAWS - 1, NEW d2 \in 0 .. DRAWS - 1, NEW d3 \in 0 .. DRAWS - 1,
           NEW out \in Out, sendto_Err(p, d1, d2, d3, out)
    PROVE  /\ env' = env /\ buf' = buf /\ lib[p].state = "ready"
           /\ \E l \in Library :
                 /\ lib' = [lib EXCEPT ![p] = l]
                 /\ l.state = IF out = "failed" THEN "gone" ELSE "ready"
                 /\ SameSettings(l, lib[p])
           /\ \E m \in Sent :
                 /\ log' = [log EXCEPT ![p] = Append(log[p], m)]
                 /\ Logged(p, out, m)
<1> DEFINE old == lib[p]
           no == old.msgNo + 1
           verdict == processEvents(old, no, d1, d2)
           bytes == Processed(old, buf[p], no, d1, d2, d3)
           m == Entry(no, verdict, bytes, out)
           infos == {i \in Ran(old.constant, no) : old.constant[i].kind = "info"}
           history == old.history + Cardinality(infos)
           state == IF out = "failed" THEN "gone" ELSE old.state
           l1 == [old EXCEPT !.msgNo = no]
           l2 == [l1 EXCEPT !.history = history]
           l == [l2 EXCEPT !.state = state]
<1>1. /\ env' = env /\ buf' = buf /\ old.state = "ready"
      /\ (verdict = DROPPED) <=> (out = "dropped")
      /\ log' = [log EXCEPT ![p] = Append(log[p], m)]
      /\ old \in Library /\ lib \in [Process -> Library]
  BY DEF sendto_Err, Sends, IInv, TypeInv
<1>2. lib' = [lib EXCEPT ![p] = l]
  <2>1. lib' = [lib EXCEPT ![p].msgNo = no, ![p].history = history,
                           ![p].state = IF out = "failed" THEN "gone" ELSE @]
    <3> HIDE DEF no, history
    <3> QED BY DEF sendto_Err, no, history
  <2> HIDE DEF no, history
  <2> QED BY <1>1, <2>1
<1>3. no \in Nat /\ old.constant \in Seq(Event) /\ old.history \in Nat
  BY SMT, <1>1 DEF Library
<1>4. Cardinality(infos) \in Nat
  <2>1. Len(old.constant) \in Nat /\ DOMAIN old.constant = 1 .. Len(old.constant)
    BY <1>3, LenProperties
  <2>2. infos \subseteq 1 .. Len(old.constant)
    BY <2>1 DEF Ran
  <2>3. IsFiniteSet(1 .. Len(old.constant))
    <3>1. 1 \in Int /\ Len(old.constant) \in Int
      <4> HIDE DEF old
      <4> QED BY SMT, <2>1
    <3> QED BY <3>1, FS_Interval
  <2> QED BY <2>2, <2>3, FS_Subset, FS_CardinalityType
<1>5. history \in Nat /\ state \in State
  <2> HIDE DEF infos
  <2> QED BY SMT, <1>1, <1>3, <1>4 DEF State
<1>6. /\ l \in Library /\ l.state = state
      /\ l.rate = old.rate /\ l.seed = old.seed /\ l.nextSeed = old.nextSeed
      /\ l.constant = old.constant /\ l.chance = old.chance
  <2> HIDE DEF old, no, history, state
  <2>1. /\ l1 \in Library
        /\ l1.rate = old.rate /\ l1.seed = old.seed /\ l1.nextSeed = old.nextSeed
        /\ l1.constant = old.constant /\ l1.chance = old.chance
    BY <1>1, <1>3, Updated DEF Library
  <2> HIDE DEF l1
  <2>2. /\ l2 \in Library
        /\ l2.rate = old.rate /\ l2.seed = old.seed /\ l2.nextSeed = old.nextSeed
        /\ l2.constant = old.constant /\ l2.chance = old.chance
    BY <2>1, <1>5, Updated DEF Library
  <2> HIDE DEF l2
  <2> QED BY <2>2, <1>5, Updated DEF Library
<1>7. \E x \in Library :
         /\ lib' = [lib EXCEPT ![p] = x]
         /\ x.state = IF out = "failed" THEN "gone" ELSE "ready"
         /\ SameSettings(x, lib[p])
  <2> HIDE DEF l
  <2> QED BY <1>1, <1>2, <1>6 DEF SameSettings
<1>8. Fits(p, no, verdict, bytes)
  <2>1. verdict = processEvents(lib[p], no, d1, d2)
        /\ bytes = Processed(lib[p], buf[p], no, d1, d2, d3)
    OBVIOUS
  <2>2. lib[p].state = "ready"
    BY <1>1
  <2> HIDE DEF no, verdict, bytes
  <2> QED BY <1>3, <2>1, <2>2, VerdictOf
<1>9. /\ m.no = no /\ m.verdict = verdict /\ m.out = out
      /\ m.bytes = IF out = "dropped" THEN {} ELSE bytes
      /\ m = [no |-> no, verdict |-> verdict, out |-> out, bytes |-> m.bytes]
  BY DEF Entry
<1>10. CHANGED # DROPPED
  BY SMT DEF CHANGED, DROPPED
<1>11. m \in Sent
  <2> HIDE DEF verdict, bytes, no, m
  <2>1. m.bytes \in SUBSET Int
    BY <1>8, <1>9 DEF Fits
  <2> QED BY <1>3, <1>8, <1>9, <2>1 DEF Sent, Fits
<1>12. Logged(p, out, m)
  <2> HIDE DEF verdict, bytes, no, m
  <2> QED BY <1>1, <1>8, <1>9, <1>10 DEF Fits, Logged
<1> HIDE DEF m
<1> QED BY <1>1, <1>7, <1>9, <1>11, <1>12

(* sendto_Err.                                                             *)
LEMMA SendStep ==
    ASSUME IInv, NEW p \in Process,
           NEW d1 \in 0 .. DRAWS - 1, NEW d2 \in 0 .. DRAWS - 1, NEW d3 \in 0 .. DRAWS - 1,
           NEW out \in Out, sendto_Err(p, d1, d2, d3, out)
    PROVE  IInv'
<1>1. /\ env' = env /\ buf' = buf /\ lib[p].state = "ready"
      /\ lib \in [Process -> Library] /\ log \in [Process -> Seq(Sent)] /\ TypeInv
  BY SendIsLogged DEF IInv, TypeInv
<1>2. PICK l \in Library :
         /\ lib' = [lib EXCEPT ![p] = l]
         /\ l.state = IF out = "failed" THEN "gone" ELSE "ready"
         /\ SameSettings(l, lib[p])
  BY SendIsLogged
<1>3. PICK m \in Sent :
         /\ log' = [log EXCEPT ![p] = Append(log[p], m)]
         /\ Logged(p, out, m)
  BY SendIsLogged
<1>4. Append(log[p], m) \in Seq(Sent)
  BY <1>1, AppendProperties
<1>5. TypeInv'
  BY <1>1, <1>2, <1>3, <1>4 DEF TypeInv
<1>6. /\ lib'[p] = l
      /\ \A q \in Process : q # p => lib'[q] = lib[q] /\ log'[q] = log[q]
  BY <1>1, <1>2, <1>3
<1>7. lib'[p].state \in {"ready", "gone"}
  BY <1>2, <1>6
<1>8. Settings'
  <2> SUFFICES ASSUME NEW q \in Process
               PROVE  /\ lib'[q].state = "none" => q # Root /\ log'[q] = <<>>
                      /\ lib'[q].state # "loaded"
                      /\ lib'[q].state \in {"ready", "gone"} =>
                           /\ lib'[q].constant = Append(Constants, Info)
                           /\ lib'[q].chance \in Chances
                      /\ lib'[q].state # "none" =>
                           /\ IsNumber(env.rate) => lib'[q].rate = env.rate[1]
                           /\ IsNumber(env.seed) => lib'[q].seed = env.seed[1]
                           /\ Listed(env.drop) # {} => "drop" \notin Kinds(lib'[q].chance)
                           /\ Listed(env.flip) # {} => "flip" \notin Kinds(lib'[q].chance)
    BY <1>1, EnvKept DEF Settings
  <2>1. CASE q = p
    BY <1>1, <1>2, <1>6, <1>7, <2>1 DEF IInv, Settings, SameSettings
  <2>2. CASE q # p
    BY <1>1, <1>6, <2>2 DEF IInv, Settings
  <2> QED BY <2>1, <2>2
<1>9. \A q \in Process :
          /\ lib'[q].seed = lib[q].seed /\ lib'[q].nextSeed = lib[q].nextSeed
          /\ lib'[q].state # "none" => lib[q].state # "none"
  BY <1>1, <1>2, <1>6 DEF SameSettings
<1>10. SeedsGrow' /\ SiblingSeedsDiffer'
  BY <1>1, <1>9, RootAssumption DEF IInv, SeedsGrow, SiblingSeedsDiffer
<1>11. \A q \in Process : \A i \in DOMAIN log'[q] :
         \/ i \in DOMAIN log[q] /\ log'[q][i] = log[q][i]
         \/ q = p /\ log'[q][i] = m
  <2> SUFFICES ASSUME NEW i \in DOMAIN log'[p]
               PROVE  \/ i \in DOMAIN log[p] /\ log'[p][i] = log[p][i]
                      \/ log'[p][i] = m
    BY <1>6
  <2>1. log'[p] = Append(log[p], m) /\ log[p] \in Seq(Sent)
    BY <1>1, <1>3
  <2> QED BY SMT, <2>1
<1>12. ListedAreDropped'
  BY <1>1, <1>3, <1>11 DEF IInv, ListedAreDropped, Logged
<1>13. Cardinality(m.bytes) <= 1
  <2>1. CASE m.bytes = {}
    BY SMT, <2>1, FS_EmptySet
  <2>2. CASE m.bytes # {}
    <3>1. PICK b \in Int : m.bytes = {b}
      BY <1>3, <2>2 DEF Logged
    <3>2. Cardinality({b}) = 1
      BY FS_Singleton
    <3> QED BY SMT, <3>1, <3>2
  <2> QED BY <2>1, <2>2
<1>14. OneByteAtMost'
  BY <1>3, <1>11, <1>13 DEF IInv, OneByteAtMost, Logged
<1> QED BY <1>5, <1>8, <1>10, <1>12, <1>14 DEF IInv

-----------------------------------------------------------------------------
(* The inductive invariant is inductive.                                   *)
LEMMA Step == IInv /\ [Next]_vars => IInv'
<1> SUFFICES ASSUME IInv, [Next]_vars PROVE IInv'
  OBVIOUS
<1>1. CASE Next
  BY <1>1, InitStep, BindStep, ForkStep, ExitStep, SendStep DEF Next
<1>2. CASE UNCHANGED vars
  <2>1. TypeInv' /\ Settings' /\ SeedsGrow' /\ SiblingSeedsDiffer'
    BY <1>2, EnvKept DEF vars, IInv, TypeInv, Settings, SeedsGrow, SiblingSeedsDiffer
  <2> QED BY <1>2, <2>1, LogKept DEF IInv, vars
<1> QED BY <1>1, <1>2

(* The inductive invariant, from which the theorems below follow: the      *)
(* settings of every process are those of the environment, and the log is  *)
(* true to what was sent.                                                  *)
THEOREM Invariance == Spec => []IInv
<1>1. Init => IInv
  BY InitIInv
<1>2. IInv /\ [Next]_vars => IInv'
  BY Step
<1> QED BY <1>1, <1>2, PTL DEF Spec

(* What the environment sets stays, and each kind of error is drawn from   *)
(* one event at most: the calls of SettingsManager do not add up           *)
(* (SettingsManager.cpp:284-361).                                          *)
THEOREM Overrides == Spec => []OverridesWin
<1>1. IInv => OverridesWin
  <2> SUFFICES ASSUME IInv, NEW p \in Process, lib[p].state \in {"loaded", "ready"}
               PROVE  /\ IsNumber(env.rate) => lib[p].rate = env.rate[1]
                      /\ IsNumber(env.seed) => lib[p].seed = env.seed[1]
                      /\ Len(lib[p].chance) = Cardinality(Kinds(lib[p].chance))
                      /\ Listed(env.drop) # {} => "drop" \notin Kinds(lib[p].chance)
                      /\ Listed(env.flip) # {} => "flip" \notin Kinds(lib[p].chance)
    BY DEF OverridesWin
  <2>1. lib[p].chance \in Chances
    <3>1. CASE lib[p].state = "loaded"
      BY <3>1, LoadedChances DEF IInv, TypeInv, Settings
    <3>2. CASE lib[p].state = "ready"
      BY <3>2 DEF IInv, Settings
    <3> QED BY <3>1, <3>2
  <2> QED BY <2>1, ChancesDiffer DEF IInv, Settings
<1> QED BY <1>1, Invariance, PTL

(* A message that is listed is dropped in every process, whatever else is  *)
(* drawn for it (PacketManager.cpp:157-189).                               *)
THEOREM Dropped == Spec => []ListedAreDropped
<1>1. IInv => ListedAreDropped
  BY DEF IInv
<1> QED BY <1>1, Invariance, PTL

(* However often a buffer is sent, what leaves differs from it in one byte *)
(* at most, and the verdict tells (PacketManager.cpp:343-347).             *)
THEOREM Flipped == Spec => []OneByteAtMost
<1>1. IInv => OneByteAtMost
  BY DEF IInv
<1> QED BY <1>1, Invariance, PTL

(* Children that are forked draw from seeds that differ                    *)
(* (network-hooks.c:49-64).                                                *)
THEOREM Seeds == Spec => []SiblingSeedsDiffer
<1>1. IInv => SiblingSeedsDiffer
  BY DEF IInv
<1> QED BY <1>1, Invariance, PTL

-----------------------------------------------------------------------------
(* The refinement of FaultyLink.                                           *)

Faults ==
    [p \in Process |->
        IF lib[p].state \in {"ready", "gone"} THEN FaultsOf(p) \ {"info"} ELSE {}]

Outcomes ==
    [p \in Process |-> [i \in DOMAIN log[p] |-> Outcome(log[p][i])]]

(* FaultyLink under the mapping, in the variables of the library.          *)
LEMMA Mapping ==
    /\ Link!LinkInit <=> /\ Faults = [p \in Process |-> {}]
                         /\ Outcomes = [p \in Process |-> <<>>]
    /\ [Link!LinkNext]_Link!linkVars <=>
         \/ \E p \in Process :
              \/ /\ Outcomes[p] = <<>>
                 /\ \E F \in SUBSET {"drop", "flip"} : Faults' = [Faults EXCEPT ![p] = F]
                 /\ UNCHANGED Outcomes
              \/ /\ \E o \in {"sent", "failed"} \cup Faults[p] :
                       Outcomes' = [Outcomes EXCEPT ![p] = Append(@, o)]
                 /\ UNCHANGED Faults
         \/ UNCHANGED <<Faults, Outcomes>>
  BY DEF Link!LinkInit, Link!LinkNext, Link!Settle, Link!Transmit, Link!linkVars,
         Link!Fault, Faults, Outcomes

(* No fault but a drop and a flip.                                         *)
LEMMA FaultsAreKnown ==
    ASSUME NEW l \in Library
    PROVE  Kinds(l.chance) \cup Kinds(l.constant) \subseteq {"info", "drop", "flip"}
<1>1. l.constant \in Seq(Event) /\ l.chance \in Seq(Event)
  BY DEF Library
<1>2. \A s \in Seq(Event) : Kinds(s) \subseteq {"info", "drop", "flip"}
  <2> SUFFICES ASSUME NEW s \in Seq(Event), NEW i \in DOMAIN s
               PROVE  s[i].kind \in {"info", "drop", "flip"}
    BY DEF Kinds
  <2>1. s[i] \in Event
    BY SMT
  <2> QED BY <2>1 DEF Event
<1> QED BY <1>1, <1>2

(* Only the settings count for the faults, and only the log for what       *)
(* became of the packets.                                                  *)
LEMMA FaultsKept ==
    ASSUME NEW q \in Process,
           \/ lib'[q] = lib[q]
           \/ /\ lib[q].state \in {"ready", "gone"} /\ lib'[q].state \in {"ready", "gone"}
              /\ lib'[q].constant = lib[q].constant /\ lib'[q].chance = lib[q].chance
    PROVE  Faults'[q] = Faults[q]
<1>1. FaultsOf(q)' = FaultsOf(q)
  BY DEF FaultsOf
<1> QED BY <1>1 DEF Faults

(* A process is set up before it has sent anything.                        *)
LEMMA SettleStep ==
    ASSUME TypeInv, TypeInv', NEW p \in Process, log[p] = <<>>, log' = log,
           \A q \in Process \ {p} : Faults'[q] = Faults[q]
    PROVE  [Link!LinkNext]_Link!linkVars
<1>1. Outcomes[p] = <<>>
  <2>1. DOMAIN log[p] = {}
    BY SMT
  <2> QED BY <2>1 DEF Outcomes
<1>2. Outcomes' = Outcomes
  BY DEF Outcomes
<1> DEFINE F == Faults'[p]
<1>3. F \in SUBSET {"drop", "flip"}
  <2>1. lib'[p] \in Library
    BY DEF TypeInv
  <2>2. Kinds(lib'[p].chance) \cup Kinds(lib'[p].constant) \subseteq {"info", "drop", "flip"}
    BY <2>1, FaultsAreKnown
  <2>3. F = IF lib'[p].state \in {"ready", "gone"}
            THEN (Kinds(lib'[p].chance) \cup Kinds(lib'[p].constant)) \ {"info"} ELSE {}
    BY DEF Faults, FaultsOf
  <2> QED BY <2>2, <2>3
<1>4. Faults' = [Faults EXCEPT ![p] = F]
  <2>1. Faults' = [q \in Process |-> Faults'[q]] /\ DOMAIN Faults = Process
    BY DEF Faults
  <2>2. \A q \in Process : [Faults EXCEPT ![p] = F][q] = Faults'[q]
    BY <2>1
  <2> QED BY <2>1, <2>2
<1> QED BY <1>1, <1>2, <1>3, <1>4, Mapping

(* Nothing that counts for the abstract link changes.                      *)
LEMMA StutterStep ==
    ASSUME log' = log, \A q \in Process : Faults'[q] = Faults[q]
    PROVE  [Link!LinkNext]_Link!linkVars
<1>1. Faults' = Faults
  BY DEF Faults
<1>2. Outcomes' = Outcomes
  BY DEF Outcomes
<1> QED BY <1>1, <1>2, Mapping

(* sendto_Err transmits once.                                              *)
LEMMA TransmitStep ==
    ASSUME IInv, NEW p \in Process,
           NEW d1 \in 0 .. DRAWS - 1, NEW d2 \in 0 .. DRAWS - 1, NEW d3 \in 0 .. DRAWS - 1,
           NEW out \in Out, sendto_Err(p, d1, d2, d3, out)
    PROVE  [Link!LinkNext]_Link!linkVars
<1>1. /\ lib[p].state = "ready" /\ lib \in [Process -> Library]
      /\ log \in [Process -> Seq(Sent)]
  BY SendIsLogged DEF IInv, TypeInv
<1>2. PICK l \in Library :
         /\ lib' = [lib EXCEPT ![p] = l]
         /\ l.state = IF out = "failed" THEN "gone" ELSE "ready"
         /\ SameSettings(l, lib[p])
  BY SendIsLogged
<1>3. PICK m \in Sent :
         /\ log' = [log EXCEPT ![p] = Append(log[p], m)]
         /\ Logged(p, out, m)
  BY SendIsLogged
<1>4. Faults' = Faults
  <2>1. lib'[p] = l /\ \A q \in Process : q # p => lib'[q] = lib[q]
    BY <1>1, <1>2
  <2>2. \A q \in Process : Faults'[q] = Faults[q]
    BY <1>1, <1>2, <2>1, FaultsKept DEF SameSettings
  <2> QED BY <2>2 DEF Faults
<1> DEFINE o == Outcome(m)
<1>5. o \in {"sent", "failed"} \cup Faults[p]
  <2>1. Faults[p] = FaultsOf(p) \ {"info"}
    BY <1>1 DEF Faults
  <2> QED BY <1>3, <2>1 DEF Outcome, Logged, Out
<1> HIDE DEF o
<1> DEFINE was == Outcomes[p]
<1>6. was = [i \in DOMAIN log[p] |-> Outcome(log[p][i])]
  BY DEF Outcomes
<1>7. Outcomes'[p] = Append(was, o)
  <2> DEFINE s == log[p]
  <2>1. s \in Seq(Sent) /\ log'[p] = Append(s, m)
    BY <1>1, <1>3
  <2> HIDE DEF s, was
  <2>2. /\ DOMAIN s = 1 .. Len(s) /\ Len(s) \in Nat
        /\ DOMAIN Append(s, m) = 1 .. Len(s) + 1
        /\ \A i \in 1 .. Len(s) : Append(s, m)[i] = s[i]
        /\ Append(s, m)[Len(s) + 1] = m
    BY SMT, <2>1
  <2> DEFINE T == {Outcome(e) : e \in Sent}
  <2>3. was \in Seq(T) /\ Len(was) = Len(s) /\ o \in T
    <3>1. was = [i \in 1 .. Len(s) |-> Outcome(s[i])]
      BY <1>6, <2>2 DEF s
    <3>2. \A i \in 1 .. Len(s) : s[i] \in Sent
      BY SMT, <2>1
    <3>3. \A i \in 1 .. Len(s) : Outcome(s[i]) \in T
      BY <3>2
    <3>4. o \in T
      BY DEF o
    <3> HIDE DEF T
    <3> QED BY SMT, <2>2, <3>1, <3>3, <3>4
  <2> HIDE DEF T
  <2>4. /\ DOMAIN Append(was, o) = 1 .. Len(s) + 1
        /\ \A i \in 1 .. Len(s) : Append(was, o)[i] = was[i]
        /\ Append(was, o)[Len(s) + 1] = o
        /\ Append(was, o) = [i \in 1 .. Len(s) + 1 |-> Append(was, o)[i]]
    <3>1. Append(was, o) \in Seq(T) /\ Len(Append(was, o)) = Len(s) + 1
      BY <2>3, AppendProperties
    <3>2. \A q \in Seq(T) : DOMAIN q = 1 .. Len(q) /\ q = [i \in 1 .. Len(q) |-> q[i]]
      BY SMT
    <3>3. /\ \A i \in 1 .. Len(was) : Append(was, o)[i] = was[i]
          /\ Append(was, o)[Len(was) + 1] = o
      BY <2>3, AppendProperties
    <3> DEFINE q == Append(was, o)
    <3>4. DOMAIN q = 1 .. Len(q) /\ q = [i \in 1 .. Len(q) |-> q[i]]
      BY <3>1, <3>2
    <3> QED BY <2>3, <3>1, <3>3, <3>4
  <2>5. Outcomes'[p] = [i \in 1 .. Len(s) + 1 |-> Outcome(Append(s, m)[i])]
    BY <2>1, <2>2 DEF Outcomes
  <2>6. \A i \in 1 .. Len(s) + 1 : Outcome(Append(s, m)[i]) = Append(was, o)[i]
    <3> SUFFICES ASSUME NEW i \in 1 .. Len(s) + 1
                 PROVE  Outcome(Append(s, m)[i]) = Append(was, o)[i]
      OBVIOUS
    <3>1. i \in 1 .. Len(s) \/ i = Len(s) + 1
      BY SMT, <2>2
    <3>2. CASE i \in 1 .. Len(s)
      BY <1>6, <2>2, <2>4, <3>2 DEF s
    <3>3. CASE i = Len(s) + 1
      BY <2>2, <2>4, <3>3 DEF o
    <3> QED BY <3>1, <3>2, <3>3
  <2> QED BY <2>4, <2>5, <2>6
<1>8. Outcomes' = [Outcomes EXCEPT ![p] = Append(@, o)]
  <2>1. \A q \in Process : q # p => Outcomes'[q] = Outcomes[q]
    BY <1>1, <1>3 DEF Outcomes
  <2>2. Outcomes' = [q \in Process |-> Outcomes'[q]] /\ DOMAIN Outcomes = Process
    BY DEF Outcomes
  <2>3. \A q \in Process : [Outcomes EXCEPT ![p] = Append(Outcomes[p], o)][q] = Outcomes'[q]
    BY <1>7, <2>1, <2>2
  <2> QED BY <2>2, <2>3
<1> QED BY <1>4, <1>5, <1>8, Mapping

(* Every step is one of the abstract link, or a stutter.                   *)
LEMMA LinkStep == IInv /\ IInv' /\ [Next]_vars => [Link!LinkNext]_Link!linkVars
<1> SUFFICES ASSUME IInv, IInv', [Next]_vars PROVE [Link!LinkNext]_Link!linkVars
  OBVIOUS
<1>1. TypeInv /\ TypeInv' /\ lib \in [Process -> Library]
  BY DEF IInv, TypeInv
<1>2. ASSUME NEW a \in Arguments, sendErr_init(a)
      PROVE  [Link!LinkNext]_Link!linkVars
  <2>1. log' = log /\ lib[Root].state = "loaded"
    BY <1>2, InitIsSet
  <2>2. log[Root] = <<>>
    BY <2>1, RootAssumption DEF IInv, Settings
  <2>3. \A q \in Process \ {Root} : lib'[q] = lib[q]
    BY <1>1, <1>2, InitIsSet
  <2>4. \A q \in Process \ {Root} : Faults'[q] = Faults[q]
    BY <2>3, FaultsKept
  <2> QED BY <1>1, <2>1, <2>2, <2>4, SettleStep, RootAssumption
<1>3. ASSUME NEW port \in Port, bindMod(port)
      PROVE  [Link!LinkNext]_Link!linkVars
  <2>1. log' = log /\ lib[Root].state = "ready"
    BY <1>3 DEF bindMod
  <2> DEFINE i == IF env.port = Absent THEN port
                  ELSE IF IsNumber(env.port) THEN env.port[1] % 65536 ELSE 0
  <2>2. lib' = [lib EXCEPT ![Root] = [lib[Root] EXCEPT !.port = i]]
    BY <1>3 DEF bindMod
  <2> HIDE DEF i
  <2>3. \A q \in Process \ {Root} : lib'[q] = lib[q]
    BY <1>1, <2>2
  <2>4. /\ lib'[Root].state = "ready" /\ lib'[Root].constant = lib[Root].constant
        /\ lib'[Root].chance = lib[Root].chance
    BY <1>1, <2>1, <2>2, RootAssumption DEF Library
  <2>5. \A q \in Process : Faults'[q] = Faults[q]
    BY <2>1, <2>3, <2>4, FaultsKept
  <2> QED BY <2>1, <2>5, StutterStep
<1>4. ASSUME NEW c \in Process \ {Root}, forkMod(c)
      PROVE  [Link!LinkNext]_Link!linkVars
  <2>1. log' = log /\ lib[c].state = "none" /\ lib[Root].state = "ready"
    BY <1>4, ForkIsSet
  <2>2. log[c] = <<>>
    BY <2>1 DEF IInv, Settings
  <2>3. PICK parent, child \in Library :
           /\ lib' = [lib EXCEPT ![Root] = parent, ![c] = child]
           /\ parent.state = "ready"
           /\ parent.constant = lib[Root].constant /\ parent.chance = lib[Root].chance
    BY <1>4, ForkIsSet
  <2>4. lib'[Root] = parent /\ \A q \in Process : q # Root /\ q # c => lib'[q] = lib[q]
    BY <1>1, <2>3, RootAssumption
  <2>5. \A q \in Process \ {c} : Faults'[q] = Faults[q]
    BY <2>1, <2>3, <2>4, FaultsKept
  <2> QED BY <1>1, <2>1, <2>2, <2>5, SettleStep
<1>5. ASSUME NEW p \in Process, Exit(p)
      PROVE  [Link!LinkNext]_Link!linkVars
  <2>1. /\ log' = log /\ lib[p].state = "ready"
        /\ lib' = [lib EXCEPT ![p] = [lib[p] EXCEPT !.state = "gone"]]
    BY <1>5 DEF Exit
  <2>2. /\ \A q \in Process \ {p} : lib'[q] = lib[q]
        /\ lib'[p].state = "gone" /\ lib'[p].constant = lib[p].constant
        /\ lib'[p].chance = lib[p].chance
    BY <1>1, <2>1 DEF Library
  <2>3. \A q \in Process : Faults'[q] = Faults[q]
    BY <2>1, <2>2, FaultsKept
  <2> QED BY <2>1, <2>3, StutterStep
<1>6. CASE UNCHANGED vars
  <2>1. log' = log /\ \A q \in Process : Faults'[q] = Faults[q]
    BY <1>6, FaultsKept DEF vars
  <2> QED BY <2>1, StutterStep
<1> QED BY <1>2, <1>3, <1>4, <1>5, <1>6, TransmitStep DEF Next

(* The library is the link that Datagram assumes: which faults can happen  *)
(* is settled before the first packet, and each packet is sent as it is,   *)
(* refused, or suffers exactly one of them.                                *)
THEOREM Refinement == Spec => IsFaultyLink
<1>1. Init => Link!LinkInit
  <2> SUFFICES ASSUME Init PROVE Link!LinkInit
    OBVIOUS
  <2>1. \A p \in Process : lib[p].state \in {"none", "loaded"} /\ log[p] = <<>>
    BY DEF Init, Loaded, Unborn
  <2>2. Faults = [p \in Process |-> {}]
    BY <2>1 DEF Faults
  <2>3. \A p \in Process : DOMAIN log[p] = {}
    BY SMT, <2>1
  <2>4. Outcomes = [p \in Process |-> <<>>]
    BY <2>1, <2>3 DEF Outcomes
  <2> QED BY <2>2, <2>4, Mapping
<1>2. IInv /\ IInv' /\ [Next]_vars => [Link!LinkNext]_Link!linkVars
  BY LinkStep
<1> QED BY <1>1, <1>2, Invariance, PTL DEF Spec, IsFaultyLink, Link!LinkSpec
=============================================================================
