-------------------------- MODULE DualSetupProofs --------------------------
(***************************************************************************)
(* Proofs about DualSetup, for any threads, any number of bundles and any  *)
(* number of messages.                                                     *)
(*                                                                         *)
(* Up to a clash, each connection is one thread's and one channel's, and   *)
(* what the server knows of it, together with the frames on their way, is  *)
(* what that thread has sent (ServerInv, FramesInv).  That the two frames  *)
(* with the roles come before all messages, on both connections, is what   *)
(* pairs the two super_states in time (MeetInv).                           *)
(***************************************************************************)
EXTENDS DualSetup, FiniteSetTheorems, SequenceTheorems, TLAPS

Conns == Bundles \X Ids
Kinds == {"empty", "role", "message"}
FrameType == [id : Ids, kind : Kinds, is_data : BOOLEAN, value : Nat]
EventType == [event : {"none", "data", "control"}, value : Nat]
PairType  == [data : Conns, control : Conns]

Both    == {"await1", "await2", "tell1", "tell2"}
Places  == {"start", "read1", "bump1", "read2", "bump2", "spawned"} \cup Both
Returned(t) == wants[t] = "dual" /\ at[t] = "spawned"

\* How far a thread is with one of its connections: it has drawn the id, made
\* the connection, received the number, sent the role.
HasId(t, ch) ==
  IF ch = "data" THEN at[t] \notin {"start", "read1"}
  ELSE at[t] \in {"bump2"} \cup Both \/ Returned(t)
Made(t, ch) ==
  IF ch = "data" THEN at[t] \notin {"start", "read1", "bump1"}
  ELSE at[t] \in Both \/ Returned(t)
Numbered(t, ch) ==
  at[t] \in {"tell1", "tell2"} \/ Returned(t) \/ (ch = "data" /\ at[t] = "await2")
Told(t, ch) == Returned(t) \/ (ch = "data" /\ at[t] = "tell2")

ClientTypeOK ==
  /\ modulus \in Moduli /\ current \in Nat
  /\ unused \in [Bundles -> Ids]
  /\ wants \in [Threads -> {"dual", "single"}] /\ at \in [Threads -> Places]
  /\ first \in [Threads -> Nat]
  /\ id \in [Threads -> [Channels -> Ids \cup {None}]]
  /\ number \in [Threads -> [Channels -> Nat \cup {None}]]
  /\ said \in [Threads -> [Channels -> Nat]]
  /\ queues \subseteq Conns
  /\ clash \in BOOLEAN /\ overlapped \in BOOLEAN
WireTypeOK ==
  up \in [Bundles -> Seq(FrameType)] /\ down \in [Conns -> Seq(Nat)]
ServerTypeOK ==
  /\ used_ids \in Nat
  /\ super \in [Conns -> SuperStates \cup {None}]
  /\ \E size \in Nat : house \in [0..(size - 1) -> Conns \cup {None}]
  /\ looking \in [Bundles -> Conns \cup {None}]
  /\ pairs \in Seq(PairType)
  /\ heard \in [Conns -> Seq(EventType)]
SetupTypeOK == ClientTypeOK /\ WireTypeOK /\ ServerTypeOK

SpawnRow(t) ==
  /\ wants[t] = "single" => at[t] \in {"start", "read1", "bump1", "spawned"}
  /\ \A ch \in Channels : /\ id[t][ch] # None <=> HasId(t, ch)
                          /\ ~Returned(t) => said[t][ch] = 0
SpawnInv == \A t \in Threads : SpawnRow(t)

\* A connection is of one thread and channel.
ConnsInv ==
  /\ queues = {c \in Conns : \E t \in Threads, ch \in Channels :
                               Made(t, ch) /\ c = ConnOf(t, ch)}
  /\ \A t, u \in Threads, ch, dh \in Channels :
       Made(t, ch) /\ Made(u, dh) /\ ConnOf(t, ch) = ConnOf(u, dh) => t = u /\ ch = dh

\* A connection of a dual_connection.
Live(t, ch) == wants[t] = "dual" /\ Made(t, ch)

Alive(c) == super[c] # None
Knows(c) == Alive(c) /\ super[c].my_partner # -1
Ready(c) == Alive(c) /\ super[c].child # "none"

\* What the server knows of a connection is what the thread told it.
ServerRow(t, ch, c) ==
  /\ ~Alive(c) => down[c] = <<>> /\ ~Numbered(t, ch)
  /\ Alive(c) =>
       /\ super[c].my_id < used_ids
       /\ down[c] = IF Numbered(t, ch) THEN <<>> ELSE <<super[c].my_id>>
       /\ Numbered(t, ch) => number[t][ch] = super[c].my_id
  /\ Knows(c) => /\ Told(t, ch)
                 /\ super[c].my_partner = number[t][Other(ch)]
                 /\ super[c].i_am_data <=> ch = "data"
  /\ Ready(c) => Knows(c) /\ super[c].child = ch
HeardRow(t, ch, c) ==
  /\ ~Ready(c) => heard[c] = <<>>
  /\ Len(heard[c]) <= said[t][ch]
  /\ \A k \in 1..Len(heard[c]) : heard[c][k] = [event |-> ch, value |-> k]

ServerInv ==
  /\ \A t \in Threads, ch \in Channels :
       Live(t, ch) => ServerRow(t, ch, ConnOf(t, ch)) /\ HeardRow(t, ch, ConnOf(t, ch))
  /\ \A c \in Conns :
       \/ \E t \in Threads, ch \in Channels : Live(t, ch) /\ c = ConnOf(t, ch)
       \/ ~Alive(c) /\ down[c] = <<>> /\ heard[c] = <<>>
  /\ \A c, d \in Conns : Alive(c) /\ Alive(d) /\ super[c].my_id = super[d].my_id => c = d

HouseInv ==
  /\ \A n \in Nat : n < used_ids => n \in DOMAIN house
  /\ \A n \in DOMAIN house : house[n] # None => Knows(house[n]) /\ super[house[n]].my_id = n
  /\ \A c \in Conns : Knows(c) => house[super[c].my_id] = c

\* The two super_states of a dual_connection: the data one hears its role first;
\* once both have, they are initialised unless the worker is about to.
Meet(t, d, c) ==
  /\ Knows(c) => Knows(d)
  /\ Ready(c) <=> Ready(d)
  /\ Knows(c) => Ready(c) \/ looking[BundleOf(t, "data")] = c
  /\ looking[BundleOf(t, "data")] = d => Knows(d) /\ ~Knows(c)
  /\ looking[BundleOf(t, "data")] = c => Knows(c) /\ ~Ready(c)
MeetInv ==
  /\ \A t \in Threads : Live(t, "control") => Meet(t, ConnOf(t, "data"), ConnOf(t, "control"))
  /\ \A b \in Bundles : looking[b] # None =>
       \E t \in Threads, ch \in Channels : Live(t, ch) /\ Live(t, "control")
                                           /\ b = BundleOf(t, ch) /\ looking[b] = ConnOf(t, ch)

PairsInv ==
  /\ \A i \in 1..Len(pairs) : \E t \in Threads :
       /\ Live(t, "control") /\ Ready(ConnOf(t, "data"))
       /\ pairs[i] = [data |-> ConnOf(t, "data"), control |-> ConnOf(t, "control")]
  /\ IsInjective(pairs)

\* The frames on their way.
Owns(t, ch, b, f) == Live(t, ch) /\ ConnOf(t, ch) = <<b, f.id>>

FrameOK(t, ch, c, f) ==
  /\ f.kind = "empty" => ~Alive(c)
  /\ f.kind = "role" => /\ Told(t, ch) /\ Alive(c) /\ ~Knows(c)
                        /\ f.is_data <=> ch = "data"
                        /\ f.value = number[t][Other(ch)]
  /\ f.kind = "message" => /\ Returned(t)
                           /\ Len(heard[c]) < f.value /\ f.value <= said[t][ch]

Before(ch, f, dh, g) ==
  /\ f.kind = "empty" /\ g.kind = "empty" => ch # dh
  /\ g.kind = "role" => f.kind # "message"
  /\ f.kind = "role" /\ g.kind = "role" => ch = "data" /\ dh = "control"
  /\ f.kind = "message" /\ g.kind = "message" /\ ch = dh => f.value < g.value

FramesInv == \A b \in Bundles : \A i \in 1..Len(up[b]) :
  /\ \E t \in Threads, ch \in Channels : Owns(t, ch, b, up[b][i])
  /\ \A t \in Threads, ch \in Channels :
       Owns(t, ch, b, up[b][i]) => FrameOK(t, ch, ConnOf(t, ch), up[b][i])
OrderInv == \A b \in Bundles : \A i, j \in 1..Len(up[b]) : i < j =>
  \A t \in Threads, ch, dh \in Channels :
    Owns(t, ch, b, up[b][i]) /\ Owns(t, dh, b, up[b][j]) => Before(ch, up[b][i], dh, up[b][j])

\* A frame of that kind and value is on its way.
OnWay(c, kind, value) == \E i \in 1..Len(up[c[1]]) :
  /\ up[c[1]][i].id = c[2] /\ up[c[1]][i].kind = kind
  /\ kind = "message" => up[c[1]][i].value = value
Awaited(t, ch, c) ==
  /\ Told(t, ch) => Knows(c) \/ OnWay(c, "role", 0)
  /\ \A v \in Nat : Len(heard[c]) < v /\ v <= said[t][ch] => OnWay(c, "message", v)
AwaitedInv == \A t \in Threads, ch \in Channels :
  Live(t, ch) => Awaited(t, ch, ConnOf(t, ch))

SetupInv ==
  /\ SetupTypeOK
  /\ ~clash => /\ SpawnInv /\ ConnsInv /\ ServerInv /\ HouseInv /\ MeetInv /\ PairsInv
               /\ FramesInv /\ OrderInv /\ AwaitedInv

\* The connections made on a bundle, and those for which an id was drawn only.
MadeOn(b) == {x \in Threads \X Channels : Made(x[1], x[2]) /\ BundleOf(x[1], x[2]) = b}
Drawn(t, ch, b) == HasId(t, ch) /\ ~Made(t, ch) /\ BundleOf(t, ch) = b
Enough == \A b \in Bundles : Cardinality(TakenIds(b)) <= IdMod
\* With m connections made, the ids below m are taken, and m is the next.
IdsRow(b, m) ==
  /\ m < IdMod => unused[b] = m
  /\ \A c \in queues : c[1] = b => c[2] < m
  /\ \A t \in Threads, ch \in Channels : Drawn(t, ch, b) =>
       /\ id[t][ch] = m
       /\ \A u \in Threads, dh \in Channels : Drawn(u, dh, b) => u = t /\ dh = ch
IdsInv ==
  /\ \A b \in Bundles : IsFiniteSet(TakenIds(b))
  /\ ~overlapped /\ Enough => \A b \in Bundles : IdsRow(b, Cardinality(MadeOn(b)))
ClashInv == ClashOnlyByOverlap /\ (~clash => IdsInv)

----------------------------------------------------------------------------
(* Threads and their connections.                                          *)

LEMMA ConnTypes ==
  ASSUME SetupTypeOK
  PROVE  /\ modulus \in Nat /\ modulus > 0 /\ IdMod \in Nat /\ IdMod > 0
         /\ Bundles \subseteq Nat /\ Ids \subseteq Nat
         /\ \A c \in Conns : /\ c[1] \in Bundles /\ c[2] \in Ids /\ c = <<c[1], c[2]>>
                             /\ c # None
         /\ \A t \in Threads, ch \in Channels :
              /\ BundleOf(t, ch) \in Bundles /\ BundleOf(t, ch) = BundleOf(t, "data")
              /\ ConnOf(t, ch) = <<BundleOf(t, ch), id[t][ch]>>
              /\ id[t][ch] \in Ids \/ id[t][ch] = None
              /\ id[t][ch] \in Ids => ConnOf(t, ch) \in Conns
<1>1. modulus \in Nat /\ modulus > 0 /\ IdMod \in Nat /\ IdMod > 0
  BY ModuliAssumption, NumbersAssumption DEF SetupTypeOK, ClientTypeOK
<1>2. Bundles \subseteq Nat /\ Ids \subseteq Nat  BY <1>1 DEF Bundles, Ids
<1>3. \A c \in Conns : /\ c[1] \in Bundles /\ c[2] \in Ids /\ c = <<c[1], c[2]>>
                       /\ c \in Nat \X Nat
  <2> TAKE c \in Conns
  <2>1. c[1] \in Bundles /\ c[2] \in Ids  BY DEF Conns
  <2>2. c = <<c[1], c[2]>>  BY DEF Conns
  <2>3. c[1] \in Nat /\ c[2] \in Nat  BY <1>2, <2>1
  <2>4. <<c[1], c[2]>> \in Nat \X Nat  BY <2>3
  <2> QED BY <2>1, <2>2, <2>4, Zenon
<1>4. \A c \in Conns : c # None  BY <1>3, NoneAssumption
<1>5. ASSUME NEW t \in Threads, NEW ch \in Channels
      PROVE  /\ BundleOf(t, ch) \in Bundles /\ BundleOf(t, ch) = BundleOf(t, "data")
             /\ ConnOf(t, ch) = <<BundleOf(t, ch), id[t][ch]>>
             /\ id[t][ch] \in Ids \/ id[t][ch] = None
             /\ id[t][ch] \in Ids => ConnOf(t, ch) \in Conns
  <2>1. first[t] \in Nat  BY DEF SetupTypeOK, ClientTypeOK
  <2>2. BundleOf(t, ch) \in Bundles  BY <1>1, <2>1 DEF BundleOf, Bundles
  <2>3. BundleOf(t, ch) = BundleOf(t, "data") /\ ConnOf(t, ch) = <<BundleOf(t, ch), id[t][ch]>>
    BY DEF BundleOf, ConnOf
  <2>4. id[t][ch] \in Ids \/ id[t][ch] = None  BY DEF SetupTypeOK, ClientTypeOK
  <2> QED BY <2>2, <2>3, <2>4 DEF Conns
<1>6. \A c \in Conns : c[1] \in Bundles /\ c[2] \in Ids /\ c = <<c[1], c[2]>> /\ c # None
  BY <1>3, <1>4, Zenon
<1> QED BY <1>1, <1>2, <1>5, <1>6, Zenon

\* A thread that a step leaves alone.
ThreadSame(t) ==
  UNCHANGED <<at[t], wants[t], first[t], id[t], number[t], said[t], modulus>>

LEMMA SameThread ==
  ASSUME NEW t \in Threads, ThreadSame(t), NEW ch \in Channels
  PROVE  /\ HasId(t, ch)' = HasId(t, ch) /\ Made(t, ch)' = Made(t, ch)
         /\ Numbered(t, ch)' = Numbered(t, ch) /\ Told(t, ch)' = Told(t, ch)
         /\ Returned(t)' = Returned(t) /\ Live(t, ch)' = Live(t, ch)
         /\ BundleOf(t, ch)' = BundleOf(t, ch) /\ ConnOf(t, ch)' = ConnOf(t, ch)
BY DEF ThreadSame, HasId, Made, Numbered, Told, Returned, Live, BundleOf, ConnOf

\* What a step that is not its own leaves of a connection.
SameLink(t, ch) ==
  /\ Live(t, ch)' = Live(t, ch)
  /\ Live(t, ch) =>
       /\ ConnOf(t, ch)' = ConnOf(t, ch) /\ BundleOf(t, ch)' = BundleOf(t, ch)
       /\ Numbered(t, ch)' = Numbered(t, ch) /\ Told(t, ch)' = Told(t, ch)
       /\ Returned(t)' = Returned(t) /\ number'[t] = number[t] /\ said'[t] = said[t]

LEMMA SameThreadLink ==
  ASSUME NEW t \in Threads, ThreadSame(t), NEW ch \in Channels
  PROVE  SameLink(t, ch)
<1>1. number'[t] = number[t] /\ said'[t] = said[t]  BY DEF ThreadSame
<1> QED BY <1>1, SameThread, Zenon DEF SameLink

LEMMA SameServer ==
  ASSUME UNCHANGED serverVars
  PROVE  \A c : Alive(c)' = Alive(c) /\ Knows(c)' = Knows(c) /\ Ready(c)' = Ready(c)
BY DEF serverVars, Alive, Knows, Ready

LEMMA SameRows ==
  ASSUME NEW t \in Threads, NEW ch \in Channels, Live(t, ch), SameLink(t, ch),
         NEW c, UNCHANGED serverVars, down'[c] = down[c]
  PROVE  /\ ServerRow(t, ch, c) => ServerRow(t, ch, c)'
         /\ HeardRow(t, ch, c) => HeardRow(t, ch, c)'
<1>1. Alive(c)' = Alive(c) /\ Knows(c)' = Knows(c) /\ Ready(c)' = Ready(c)
  BY SameServer
<1>2. /\ Numbered(t, ch)' = Numbered(t, ch) /\ Told(t, ch)' = Told(t, ch)
      /\ number'[t] = number[t] /\ said'[t] = said[t]
  BY DEF SameLink
<1>3. UNCHANGED <<super, used_ids, heard>>  BY DEF serverVars
<1>4. ServerRow(t, ch, c) => ServerRow(t, ch, c)'  BY <1>1, <1>2, <1>3 DEF ServerRow
<1>5. HeardRow(t, ch, c) => HeardRow(t, ch, c)'  BY <1>1, <1>2, <1>3 DEF HeardRow
<1> QED BY <1>4, <1>5

LEMMA SameFrame ==
  ASSUME NEW t \in Threads, NEW ch \in Channels, Live(t, ch), SameLink(t, ch),
         NEW c, NEW f, UNCHANGED serverVars, FrameOK(t, ch, c, f)
  PROVE  FrameOK(t, ch, c, f)'
<1>1. Alive(c)' = Alive(c) /\ Knows(c)' = Knows(c)  BY SameServer
<1>2. /\ Told(t, ch)' = Told(t, ch) /\ Returned(t)' = Returned(t)
      /\ number'[t] = number[t] /\ said'[t] = said[t]
  BY DEF SameLink
<1>3. UNCHANGED heard  BY DEF serverVars
<1> QED BY <1>1, <1>2, <1>3 DEF FrameOK

\* A connection that is live is the thread's and the channel's alone.
LEMMA OneOwner ==
  ASSUME ConnsInv, NEW t \in Threads, NEW u \in Threads, NEW ch \in Channels, NEW dh \in Channels,
         Live(t, ch), Live(u, dh), ConnOf(t, ch) = ConnOf(u, dh)
  PROVE  t = u /\ ch = dh
BY Zenon DEF ConnsInv, Live

\* The thread whose connection has id and bundle of a frame owns the frame.
LEMMA LiveConn ==
  ASSUME SetupTypeOK, SpawnInv, NEW t \in Threads, NEW ch \in Channels, Made(t, ch)
  PROVE  /\ HasId(t, ch) /\ id[t][ch] \in Ids /\ ConnOf(t, ch) \in Conns
         /\ ConnOf(t, ch) = <<BundleOf(t, ch), id[t][ch]>>
         /\ ConnOf(t, ch)[1] = BundleOf(t, ch) /\ ConnOf(t, ch)[2] = id[t][ch]
<1>1. HasId(t, ch)  BY DEF Made, HasId, Channels
<1>2. id[t][ch] # None  BY <1>1 DEF SpawnInv, SpawnRow
<1>3. id[t][ch] \in Ids /\ ConnOf(t, ch) \in Conns /\ ConnOf(t, ch) = <<BundleOf(t, ch), id[t][ch]>>
  BY <1>2, ConnTypes
<1> QED BY <1>1, <1>3

LinksStay == \A t \in Threads, ch \in Channels : Live(t, ch) =>
  Live(t, ch)' /\ ConnOf(t, ch)' = ConnOf(t, ch) /\ BundleOf(t, ch)' = BundleOf(t, ch)

LEMMA SameLinksStay ==
  (\A t \in Threads, ch \in Channels : SameLink(t, ch)) => LinksStay
BY Zenon DEF SameLink, LinksStay

LEMMA ControlAfterData ==
  \A t \in Threads : Live(t, "control") => Live(t, "data")
BY DEF Live, Made, Returned, Both

LEMMA PairsStay ==
  ASSUME PairsInv, LinksStay, \A c : Ready(c) => Ready(c)', UNCHANGED pairs
  PROVE  PairsInv'
<1>1. ASSUME NEW i \in 1..Len(pairs)
      PROVE  \E t \in Threads :
               /\ Live(t, "control")' /\ Ready(ConnOf(t, "data"))'
               /\ pairs[i] = [data |-> ConnOf(t, "data")', control |-> ConnOf(t, "control")']
  <2>1. PICK t \in Threads :
          /\ Live(t, "control") /\ Ready(ConnOf(t, "data"))
          /\ pairs[i] = [data |-> ConnOf(t, "data"), control |-> ConnOf(t, "control")]
    BY Zenon DEF PairsInv
  <2>2. PICK d : d = ConnOf(t, "data")  OBVIOUS
  <2>3. ConnOf(t, "data")' = d /\ ConnOf(t, "control")' = ConnOf(t, "control") /\ Live(t, "control")'
    BY <2>1, <2>2, ControlAfterData, Zenon DEF LinksStay, Channels
  <2>4. Ready(d)'  BY <2>1, <2>2, Zenon
  <2>5. Ready(ConnOf(t, "data"))'  BY <2>3, <2>4 DEF Ready, Alive
  <2> QED BY <2>1, <2>2, <2>3, <2>5, Zenon
<1>2. IsInjective(pairs')  BY DEF PairsInv
<1> QED BY <1>1, <1>2 DEF PairsInv

LEMMA MeetStay ==
  ASSUME MeetInv, LinksStay, UNCHANGED <<serverVars, modulus>>,
         \A t \in Threads : Live(t, "control")' =>
           Live(t, "control") \/ Meet(t, ConnOf(t, "data"), ConnOf(t, "control"))'
  PROVE  MeetInv'
<1>u. UNCHANGED <<looking, super>> /\ Bundles' = Bundles  BY DEF serverVars, Bundles
<1>1. ASSUME NEW t \in Threads, Live(t, "control")'
      PROVE  Meet(t, ConnOf(t, "data"), ConnOf(t, "control"))'
  <2>1. CASE Live(t, "control")
    <3>1. Meet(t, ConnOf(t, "data"), ConnOf(t, "control"))  BY <2>1 DEF MeetInv
    <3>2. /\ ConnOf(t, "data")' = ConnOf(t, "data") /\ ConnOf(t, "control")' = ConnOf(t, "control")
          /\ BundleOf(t, "data")' = BundleOf(t, "data")
      BY <2>1, ControlAfterData, Zenon DEF LinksStay, Channels
    <3> QED BY <1>u, <3>1, <3>2 DEF Meet, Knows, Ready, Alive
  <2> QED BY <1>1, <2>1
<1>2. ASSUME NEW b \in Bundles, looking[b] # None
      PROVE  \E t \in Threads, ch \in Channels :
               Live(t, ch)' /\ Live(t, "control")' /\ b = BundleOf(t, ch)' /\ looking[b] = ConnOf(t, ch)'
  <2>1. PICK t \in Threads, ch \in Channels :
          Live(t, ch) /\ Live(t, "control") /\ b = BundleOf(t, ch) /\ looking[b] = ConnOf(t, ch)
    BY <1>2, Zenon DEF MeetInv
  <2> QED BY <2>1, Zenon DEF LinksStay, Channels
<1> QED BY <1>u, <1>1, <1>2 DEF MeetInv

LEMMA HouseStays ==
  ASSUME HouseInv, UNCHANGED <<serverVars, modulus>>
  PROVE  HouseInv'
<1>1. \A c : Knows(c)' = Knows(c)  BY SameServer
<1>2. UNCHANGED <<super, house, used_ids>> /\ Conns' = Conns
  BY DEF serverVars, Conns, Bundles, Ids
<1> QED BY <1>1, <1>2 DEF HouseInv

LEMMA OnWayStays ==
  ASSUME UNCHANGED up, NEW c, NEW k, NEW v, OnWay(c, k, v)
  PROVE  OnWay(c, k, v)'
BY DEF OnWay

\* A thread that neither makes a connection of a dual_connection nor sends.
LEMMA QuietKeeps ==
  ASSUME SetupTypeOK, ConnsInv, ServerInv, HouseInv, MeetInv, PairsInv,
         FramesInv, OrderInv, AwaitedInv,
         UNCHANGED <<serverVars, modulus, up, down>>,
         \A t \in Threads, ch \in Channels : SameLink(t, ch)
  PROVE  /\ ServerInv' /\ HouseInv' /\ MeetInv' /\ PairsInv'
         /\ FramesInv' /\ OrderInv' /\ AwaitedInv'
<1>u. UNCHANGED <<up, down, super, heard, used_ids, pairs>> /\ Bundles' = Bundles /\ Conns' = Conns
  BY DEF serverVars, Conns, Bundles, Ids
<1>l. \A t \in Threads, ch \in Channels : SameLink(t, ch)  OBVIOUS
<1>s. \A c : Alive(c)' = Alive(c) /\ Knows(c)' = Knows(c) /\ Ready(c)' = Ready(c)
  BY SameServer
<1>c. \A t \in Threads, ch \in Channels :
        Live(t, ch)' = Live(t, ch) /\ (Live(t, ch) => ConnOf(t, ch)' = ConnOf(t, ch))
  BY <1>l, Zenon DEF SameLink
<1>1. ServerInv'
  <2>1. ASSUME NEW t \in Threads, NEW ch \in Channels, Live(t, ch)'
        PROVE  ServerRow(t, ch, ConnOf(t, ch))' /\ HeardRow(t, ch, ConnOf(t, ch))'
    <3>1. PICK c : c = ConnOf(t, ch)  OBVIOUS
    <3>2. Live(t, ch) /\ ConnOf(t, ch)' = c  BY <1>c, <2>1, <3>1
    <3>3. ServerRow(t, ch, c) /\ HeardRow(t, ch, c)  BY <3>1, <3>2 DEF ServerInv
    <3>4. ServerRow(t, ch, c)' /\ HeardRow(t, ch, c)'  BY <1>l, <1>u, <3>2, <3>3, SameRows
    <3> QED BY <3>2, <3>4 DEF ServerRow, HeardRow, Alive, Knows, Ready
  <2>2. \A c \in Conns :
          \/ \E t \in Threads, ch \in Channels : Live(t, ch)' /\ c = ConnOf(t, ch)'
          \/ ~Alive(c)' /\ down'[c] = <<>> /\ heard'[c] = <<>>
    BY <1>u, <1>s, <1>c DEF ServerInv
  <2>3. \A c, d \in Conns :
          Alive(c)' /\ Alive(d)' /\ super'[c].my_id = super'[d].my_id => c = d
    BY <1>u, <1>s DEF ServerInv
  <2> QED BY <1>u, <2>1, <2>2, <2>3 DEF ServerInv
<1>2. HouseInv'  BY HouseStays
<1>3. MeetInv'
  <2>1. LinksStay  BY <1>l, SameLinksStay
  <2>2. \A t \in Threads : Live(t, "control")' => Live(t, "control")  BY <1>c DEF Channels
  <2>3. UNCHANGED <<serverVars, modulus>>  OBVIOUS
  <2> QED BY <2>1, <2>2, <2>3, MeetStay
<1>4. PairsInv'  BY <1>u, <1>l, <1>s, SameLinksStay, PairsStay
<1>5. FramesInv'
  <2> SUFFICES ASSUME NEW b \in Bundles, NEW i \in 1..Len(up[b])
               PROVE  /\ \E t \in Threads, ch \in Channels : Owns(t, ch, b, up[b][i])'
                      /\ \A t \in Threads, ch \in Channels :
                           Owns(t, ch, b, up[b][i])' => FrameOK(t, ch, ConnOf(t, ch), up[b][i])'
    BY <1>u DEF FramesInv
  <2>1. \A t \in Threads, ch \in Channels : Owns(t, ch, b, up[b][i])' = Owns(t, ch, b, up[b][i])
    BY <1>u, <1>c DEF Owns
  <2>2. ASSUME NEW t \in Threads, NEW ch \in Channels, Owns(t, ch, b, up[b][i])
        PROVE  FrameOK(t, ch, ConnOf(t, ch), up[b][i])'
    <3>1. PICK c, f : c = ConnOf(t, ch) /\ f = up[b][i]  OBVIOUS
    <3>2. Live(t, ch) /\ ConnOf(t, ch)' = c /\ up'[b][i] = f  BY <1>u, <1>c, <2>2, <3>1 DEF Owns
    <3>3. FrameOK(t, ch, c, f)  BY <2>2, <3>1 DEF FramesInv
    <3>4. FrameOK(t, ch, c, f)'  BY <1>l, <3>2, <3>3, SameFrame
    <3> QED BY <3>2, <3>4 DEF FrameOK, Alive, Knows
  <2>3. \E t \in Threads, ch \in Channels : Owns(t, ch, b, up[b][i])  BY DEF FramesInv
  <2> QED BY <2>1, <2>2, <2>3
<1>6. OrderInv'
  <2>1. \A b, f : \A t \in Threads, ch \in Channels : Owns(t, ch, b, f)' = Owns(t, ch, b, f)
    BY <1>c DEF Owns
  <2> QED BY <1>u, <2>1 DEF OrderInv
<1>7. AwaitedInv'
  <2> SUFFICES ASSUME NEW t \in Threads, NEW ch \in Channels, Live(t, ch)'
               PROVE  Awaited(t, ch, ConnOf(t, ch))'
    BY DEF AwaitedInv
  <2>1. PICK c : c = ConnOf(t, ch)  OBVIOUS
  <2>2. Live(t, ch) /\ ConnOf(t, ch)' = c  BY <1>c, <2>1
  <2>3. Awaited(t, ch, c)  BY <2>1, <2>2 DEF AwaitedInv
  <2>4. Told(t, ch)' = Told(t, ch) /\ said'[t] = said[t]  BY <1>l, <2>2 DEF SameLink
  <2>5. Knows(c)' = Knows(c) /\ heard'[c] = heard[c] /\ \A k, v : OnWay(c, k, v) => OnWay(c, k, v)'
    BY <1>s, <1>u, OnWayStays
  <2>6. Awaited(t, ch, c)'  BY <2>3, <2>4, <2>5 DEF Awaited
  <2> QED BY <2>2, <2>6 DEF Awaited, Knows, Alive, OnWay
<1> QED BY <1>1, <1>2, <1>3, <1>4, <1>5, <1>6, <1>7

----------------------------------------------------------------------------
(* The frames of a bundle: one is added at the end, or the first handled.  *)

Added(b, f) ==
  /\ \A x \in Bundles : x # b => up'[x] = up[x]
  /\ Len(up'[b]) = Len(up[b]) + 1 /\ up'[b][Len(up[b]) + 1] = f
  /\ \A i \in 1..Len(up[b]) : up'[b][i] = up[b][i]
Popped(b) ==
  /\ \A x \in Bundles : x # b => up'[x] = up[x]
  /\ Len(up[b]) = Len(up'[b]) + 1
  /\ \A i \in 1..Len(up'[b]) : up'[b][i] = up[b][i + 1]

LEMMA SentIsAdded ==
  ASSUME SetupTypeOK, NEW b \in Bundles, NEW f \in FrameType,
         up' = [up EXCEPT ![b] = Append(@, f)]
  PROVE  /\ Added(b, f) /\ up' \in [Bundles -> Seq(FrameType)]
         /\ \A x \in Bundles : Len(up[x]) \in Nat /\ Len(up'[x]) \in Nat
<1>1. up \in [Bundles -> Seq(FrameType)]  BY DEF SetupTypeOK, WireTypeOK
<1>2. /\ up'[b] = Append(up[b], f) /\ up[b] \in Seq(FrameType)
      /\ \A x \in Bundles : x # b => up'[x] = up[x]
  BY <1>1
<1>3. /\ Append(up[b], f) \in Seq(FrameType) /\ Len(Append(up[b], f)) = Len(up[b]) + 1
      /\ Append(up[b], f)[Len(up[b]) + 1] = f
      /\ \A i \in 1..Len(up[b]) : Append(up[b], f)[i] = up[b][i]
  BY <1>2, AppendProperties
<1>4. up' \in [Bundles -> Seq(FrameType)]  BY <1>1, <1>2, <1>3
<1>5. \A x \in Bundles : Len(up[x]) \in Nat /\ Len(up'[x]) \in Nat
  BY <1>1, <1>4, LenProperties
<1> QED BY <1>2, <1>3, <1>4, <1>5 DEF Added

LEMMA HandledIsPopped ==
  ASSUME SetupTypeOK, NEW b \in Bundles, up[b] # <<>>, Pops(b)
  PROVE  /\ Popped(b) /\ up' \in [Bundles -> Seq(FrameType)]
         /\ Head(up[b]) = up[b][1] /\ 1 \in 1..Len(up[b]) /\ Head(up[b]) \in FrameType
         /\ \A x \in Bundles : Len(up[x]) \in Nat /\ Len(up'[x]) \in Nat
<1>1. up \in [Bundles -> Seq(FrameType)]  BY DEF SetupTypeOK, WireTypeOK
<1>2. /\ up'[b] = Tail(up[b]) /\ up[b] \in Seq(FrameType)
      /\ \A x \in Bundles : x # b => up'[x] = up[x]
  BY <1>1 DEF Pops
<1>3. /\ Tail(up[b]) \in Seq(FrameType) /\ Len(Tail(up[b])) = Len(up[b]) - 1
      /\ Head(up[b]) = up[b][1] /\ Head(up[b]) \in FrameType
      /\ \A i \in 1..(Len(up[b]) - 1) : Tail(up[b])[i] = up[b][i + 1]
  BY <1>2, HeadTailProperties
<1>4. Len(up[b]) \in Nat /\ Len(up[b]) > 0  BY <1>2, EmptySeq, LenProperties
<1>5. up' \in [Bundles -> Seq(FrameType)]  BY <1>1, <1>2, <1>3 DEF Pops
<1>6. \A x \in Bundles : Len(up[x]) \in Nat /\ Len(up'[x]) \in Nat
  BY <1>1, <1>5, LenProperties
<1>7. Popped(b)  BY <1>2, <1>3, <1>4 DEF Popped
<1> QED BY <1>3, <1>4, <1>5, <1>6, <1>7

\* What is on its way stays so, but for the frame that is handled.
LEMMA OnWayGrows ==
  ASSUME NEW b \in Bundles, NEW f, Added(b, f), \A x \in Bundles : Len(up[x]) \in Nat,
         NEW c \in Conns, NEW k, NEW v
  PROVE  /\ OnWay(c, k, v) => OnWay(c, k, v)'
         /\ /\ c = <<b, f.id>> /\ f.kind = k
            /\ (k = "message" => f.value = v)
            => OnWay(c, k, v)'
<1>0. c[1] \in Bundles /\ Len(up[b]) \in Nat  BY DEF Conns
<1>1. ASSUME OnWay(c, k, v) PROVE OnWay(c, k, v)'
  <2>1. PICK i \in 1..Len(up[c[1]]) :
          /\ up[c[1]][i].id = c[2] /\ up[c[1]][i].kind = k
          /\ k = "message" => up[c[1]][i].value = v
    BY <1>1 DEF OnWay
  <2>2. i \in 1..Len(up'[c[1]]) /\ up'[c[1]][i] = up[c[1]][i]  BY <1>0, <2>1 DEF Added
  <2> QED BY <2>1, <2>2 DEF OnWay
<1>2. ASSUME c = <<b, f.id>>, f.kind = k, k = "message" => f.value = v PROVE OnWay(c, k, v)'
  <2>1. c[1] = b /\ c[2] = f.id  BY <1>2
  <2>2. Len(up[b]) + 1 \in 1..Len(up'[b]) /\ up'[b][Len(up[b]) + 1] = f  BY <1>0 DEF Added
  <2> QED BY <1>2, <2>1, <2>2 DEF OnWay
<1> QED BY <1>1, <1>2

LEMMA OnWayShrinks ==
  ASSUME NEW b \in Bundles, Popped(b), \A x \in Bundles : Len(up'[x]) \in Nat,
         NEW c \in Conns, NEW k, NEW v, OnWay(c, k, v),
         ~(/\ c = <<b, up[b][1].id>> /\ up[b][1].kind = k
           /\ k = "message" => up[b][1].value = v)
  PROVE  OnWay(c, k, v)'
<1>1. PICK i \in 1..Len(up[c[1]]) :
        /\ up[c[1]][i].id = c[2] /\ up[c[1]][i].kind = k
        /\ k = "message" => up[c[1]][i].value = v
  BY DEF OnWay
<1>2. c[1] \in Bundles /\ c = <<c[1], c[2]>> /\ Len(up'[b]) \in Nat  BY DEF Conns
<1>3. CASE c[1] # b
  <2>1. up'[c[1]] = up[c[1]]  BY <1>2, <1>3 DEF Popped
  <2> QED BY <1>1, <2>1 DEF OnWay
<1>4. CASE c[1] = b
  <2>1. i # 1  BY <1>1, <1>2, <1>4
  <2>2. i - 1 \in 1..Len(up'[b]) /\ (i - 1) + 1 = i  BY <1>1, <1>2, <1>4, <2>1 DEF Popped
  <2>3. up'[b][i - 1] = up[b][i]  BY <2>2 DEF Popped
  <2> QED BY <1>1, <1>4, <2>2, <2>3 DEF OnWay
<1> QED BY <1>3, <1>4

\* Another frame may be added if it is right, the others stay so, and it may
\* come after those of its thread.
LEMMA FramesGrow ==
  ASSUME SetupTypeOK, ConnsInv', FramesInv, OrderInv, LinksStay, UNCHANGED modulus,
         \A x \in Bundles : Len(up[x]) \in Nat,
         NEW t \in Threads, NEW ch \in Channels, NEW b \in Bundles, NEW f, Added(b, f),
         Live(t, ch)', NEW c, c = <<b, f.id>>, ConnOf(t, ch)' = c, FrameOK(t, ch, c, f)',
         \A u \in Threads, dh \in Channels : \A d : \A g \in FrameType :
           Live(u, dh) /\ d = ConnOf(u, dh) /\ FrameOK(u, dh, d, g) => FrameOK(u, dh, d, g)',
         \A dh \in Channels : \A d : \A g \in FrameType :
           Live(t, dh) /\ d = ConnOf(t, dh) /\ FrameOK(t, dh, d, g) => Before(dh, g, ch, f)
  PROVE  FramesInv' /\ OrderInv'
<1>b. Bundles' = Bundles /\ Len(up[b]) \in Nat  BY DEF Bundles
<1>o. \A u, w \in Threads, dh, eh \in Channels :
        Live(u, dh)' /\ Live(w, eh)' /\ ConnOf(u, dh)' = ConnOf(w, eh)' => u = w /\ dh = eh
  BY Zenon DEF ConnsInv, Live
<1>k. \A u \in Threads, dh \in Channels : Live(u, dh) => Live(u, dh)' /\ ConnOf(u, dh)' = ConnOf(u, dh)
  BY Zenon DEF LinksStay
<1>p. /\ \A u \in Threads, dh \in Channels : \A d : \A g \in FrameType :
           Live(u, dh) /\ d = ConnOf(u, dh) /\ FrameOK(u, dh, d, g) => FrameOK(u, dh, d, g)'
      /\ \A dh \in Channels : \A d : \A g \in FrameType :
           Live(t, dh) /\ d = ConnOf(t, dh) /\ FrameOK(t, dh, d, g) => Before(dh, g, ch, f)
  OBVIOUS
<1>1. ASSUME NEW x \in Bundles, NEW i \in 1..Len(up[x]), NEW g, g = up[x][i]
      PROVE  /\ \E u \in Threads, dh \in Channels : Owns(u, dh, x, g)'
             /\ \A u \in Threads, dh \in Channels : Owns(u, dh, x, g)' =>
                  Owns(u, dh, x, g) /\ \A d : d = ConnOf(u, dh)' =>
                    ConnOf(u, dh) = d /\ FrameOK(u, dh, d, g) /\ FrameOK(u, dh, d, g)'
  <2>0. g \in FrameType
    <3>1. up[x] \in Seq(FrameType)  BY DEF SetupTypeOK, WireTypeOK
    <3> QED BY <1>1, <3>1
  <2>1. PICK u \in Threads, dh \in Channels : Owns(u, dh, x, g)  BY <1>1 DEF FramesInv
  <2>2. PICK d : d = ConnOf(u, dh)  OBVIOUS
  <2>3. Live(u, dh) /\ d = <<x, g.id>> /\ Live(u, dh)' /\ ConnOf(u, dh)' = d
    BY <1>k, <2>1, <2>2 DEF Owns
  <2>4. FrameOK(u, dh, d, g)  BY <1>1, <2>1, <2>2 DEF FramesInv
  <2>5. FrameOK(u, dh, d, g)'  BY <1>p, <2>0, <2>2, <2>3, <2>4
  <2>6. ASSUME NEW w \in Threads, NEW eh \in Channels, Owns(w, eh, x, g)'
        PROVE  w = u /\ eh = dh
    BY <1>o, <2>3, <2>6 DEF Owns
  <2>7. Owns(u, dh, x, g)'  BY <2>3 DEF Owns
  <2> QED BY <2>1, <2>2, <2>3, <2>4, <2>5, <2>6, <2>7
<1>2. ASSUME NEW x \in Bundles, NEW i \in 1..Len(up'[x])
      PROVE  \/ i \in 1..Len(up[x]) /\ up'[x][i] = up[x][i]
             \/ x = b /\ i = Len(up[b]) + 1 /\ up'[x][i] = f
  BY <1>b DEF Added
<1>3. \A u \in Threads, dh \in Channels : Owns(u, dh, b, f)' => u = t /\ dh = ch /\ ConnOf(u, dh)' = c
  BY <1>o DEF Owns
<1>4. Owns(t, ch, b, f)'  BY DEF Owns
<1>5. ASSUME NEW x \in Bundles, NEW i \in 1..Len(up'[x])
      PROVE  /\ \E u \in Threads, dh \in Channels : Owns(u, dh, x, up[x][i])'
             /\ \A u \in Threads, dh \in Channels :
                  Owns(u, dh, x, up[x][i])' => FrameOK(u, dh, ConnOf(u, dh), up[x][i])'
  <2>1. PICK g : g = up'[x][i]  OBVIOUS
  <2>2. CASE i \in 1..Len(up[x]) /\ up'[x][i] = up[x][i]
    <3>1. /\ \E u \in Threads, dh \in Channels : Owns(u, dh, x, g)'
          /\ \A u \in Threads, dh \in Channels : Owns(u, dh, x, g)' =>
               \A d : d = ConnOf(u, dh)' => FrameOK(u, dh, d, g)'
      BY <1>1, <2>1, <2>2
    <3> QED BY <2>1, <3>1 DEF Owns, FrameOK, Alive, Knows
  <2>3. CASE x = b /\ up'[x][i] = f
    <3>1. \A u \in Threads, dh \in Channels : Owns(u, dh, x, g)' => FrameOK(u, dh, ConnOf(u, dh), g)'
      <4> TAKE u \in Threads, dh \in Channels
      <4> HAVE Owns(u, dh, x, g)'
      <4>1. u = t /\ dh = ch /\ ConnOf(u, dh)' = c /\ g = f  BY <1>3, <2>1, <2>3
      <4> QED BY <4>1 DEF FrameOK, Alive, Knows
    <3>2. Owns(t, ch, x, g)'  BY <1>4, <2>1, <2>3
    <3> QED BY <2>1, <3>1, <3>2 DEF Owns, FrameOK, Alive, Knows
  <2> QED BY <1>2, <2>2, <2>3
<1>6. FramesInv'  BY <1>b, <1>5 DEF FramesInv
<1>7. ASSUME NEW x \in Bundles, NEW i \in 1..Len(up'[x]), NEW j \in 1..Len(up'[x]), i < j,
             NEW u \in Threads, NEW dh \in Channels, NEW eh \in Channels,
             Owns(u, dh, x, up[x][i])', Owns(u, eh, x, up[x][j])'
      PROVE  Before(dh, up'[x][i], eh, up'[x][j])
  <2>1. PICK g, h : g = up'[x][i] /\ h = up'[x][j]  OBVIOUS
  <2>2. Owns(u, dh, x, g)' /\ Owns(u, eh, x, h)'  BY <1>7, <2>1 DEF Owns
  <2>3. i \in 1..Len(up[x]) /\ g = up[x][i]  BY <1>2, <1>7, <1>b, <2>1 DEF Added
  <2>4. /\ Owns(u, dh, x, g)
        /\ \A d : d = ConnOf(u, dh)' => ConnOf(u, dh) = d /\ FrameOK(u, dh, d, g)
    BY <1>1, <2>2, <2>3
  <2>5. CASE j \in 1..Len(up[x]) /\ h = up[x][j]
    <3>1. Owns(u, eh, x, h)  BY <1>1, <2>2, <2>5
    <3> QED BY <1>7, <2>1, <2>3, <2>4, <2>5, <3>1 DEF OrderInv
  <2>6. CASE x = b /\ h = f
    <3>1. u = t /\ eh = ch  BY <1>3, <2>2, <2>6
    <3>2. Live(t, dh)  BY <2>4, <3>1 DEF Owns
    <3>3. g \in FrameType
      <4>1. up[x] \in Seq(FrameType)  BY DEF SetupTypeOK, WireTypeOK
      <4> QED BY <2>3, <4>1
    <3> QED BY <1>p, <2>1, <2>4, <2>6, <3>1, <3>2, <3>3
  <2> QED BY <1>2, <1>7, <2>1, <2>5, <2>6
<1>8. OrderInv'  BY <1>b, <1>7 DEF OrderInv
<1> QED BY <1>6, <1>8

\* The first frame may be handled if the others stay right.
LEMMA FramesShrink ==
  ASSUME FramesInv, OrderInv, UNCHANGED modulus,
         \A t \in Threads, ch \in Channels : SameLink(t, ch),
         \A x \in Bundles : Len(up[x]) \in Nat /\ Len(up'[x]) \in Nat,
         NEW b \in Bundles, Popped(b),
         \A x \in Bundles : \A i \in 1..Len(up[x]) : x # b \/ i # 1 =>
           \A t \in Threads, ch \in Channels : \A c, f :
             Owns(t, ch, x, f) /\ f = up[x][i] /\ c = ConnOf(t, ch) => FrameOK(t, ch, c, f)'
  PROVE  FramesInv' /\ OrderInv'
<1>b. Bundles' = Bundles /\ Len(up[b]) \in Nat /\ Len(up'[b]) \in Nat  BY DEF Bundles
<1>k. \A t \in Threads, ch \in Channels : \A x, f :
        /\ Owns(t, ch, x, f)' <=> Owns(t, ch, x, f)
        /\ Owns(t, ch, x, f) => ConnOf(t, ch)' = ConnOf(t, ch)
  BY DEF SameLink, Owns
<1>p. \A x \in Bundles : \A i \in 1..Len(up[x]) : x # b \/ i # 1 =>
        \A t \in Threads, ch \in Channels : \A c, f :
          Owns(t, ch, x, f) /\ f = up[x][i] /\ c = ConnOf(t, ch) => FrameOK(t, ch, c, f)'
  OBVIOUS
<1>1. ASSUME NEW x \in Bundles, NEW i \in 1..Len(up'[x])
      PROVE  \E k \in 1..Len(up[x]) : /\ up'[x][i] = up[x][k] /\ (x # b \/ k # 1)
                                      /\ k = IF x = b THEN i + 1 ELSE i
  BY <1>b DEF Popped
<1>2. ASSUME NEW x \in Bundles, NEW i \in 1..Len(up'[x])
      PROVE  /\ \E t \in Threads, ch \in Channels : Owns(t, ch, x, up[x][i])'
             /\ \A t \in Threads, ch \in Channels :
                  Owns(t, ch, x, up[x][i])' => FrameOK(t, ch, ConnOf(t, ch), up[x][i])'
  <2>1. PICK f : f = up'[x][i]  OBVIOUS
  <2>2. PICK k \in 1..Len(up[x]) : f = up[x][k] /\ (x # b \/ k # 1)  BY <1>1, <2>1
  <2>3. PICK t \in Threads, ch \in Channels : Owns(t, ch, x, f)  BY <2>2 DEF FramesInv
  <2>4. Owns(t, ch, x, f)'  BY <1>k, <2>3
  <2>5. \A u \in Threads, dh \in Channels : Owns(u, dh, x, f)' =>
          \A c : c = ConnOf(u, dh)' => FrameOK(u, dh, c, f)'
    BY <1>k, <1>p, <2>2
  <2> QED BY <2>1, <2>4, <2>5 DEF Owns, FrameOK, Alive, Knows
<1>3. FramesInv'  BY <1>b, <1>2 DEF FramesInv
<1>4. ASSUME NEW x \in Bundles, NEW i \in 1..Len(up'[x]), NEW j \in 1..Len(up'[x]), i < j,
             NEW t \in Threads, NEW ch \in Channels, NEW dh \in Channels,
             Owns(t, ch, x, up[x][i])', Owns(t, dh, x, up[x][j])'
      PROVE  Before(ch, up'[x][i], dh, up'[x][j])
  <2>1. PICK f, g : f = up'[x][i] /\ g = up'[x][j]  OBVIOUS
  <2>2. Owns(t, ch, x, f)' /\ Owns(t, dh, x, g)'  BY <1>4, <2>1 DEF Owns
  <2>3. Owns(t, ch, x, f) /\ Owns(t, dh, x, g)  BY <1>k, <2>2
  <2>4. PICK k, l \in 1..Len(up[x]) : f = up[x][k] /\ g = up[x][l] /\ k < l
    <3>1. PICK k \in 1..Len(up[x]) : f = up[x][k] /\ k = IF x = b THEN i + 1 ELSE i
      BY <1>1, <2>1
    <3>2. PICK l \in 1..Len(up[x]) : g = up[x][l] /\ l = IF x = b THEN j + 1 ELSE j
      BY <1>1, <2>1
    <3>3. i < j  BY <1>4
    <3>4. k < l  BY ONLY <3>1, <3>2, <3>3
    <3> QED BY <3>1, <3>2, <3>4
  <2> QED BY <2>1, <2>3, <2>4 DEF OrderInv
<1>5. OrderInv'  BY <1>b, <1>4 DEF OrderInv
<1> QED BY <1>3, <1>5

----------------------------------------------------------------------------
(* The steps of the client.                                                *)

Up == SetupInv /\ ~clash

LEMMA UpFacts ==
  ASSUME Up
  PROVE  /\ SetupTypeOK /\ SpawnInv /\ ConnsInv /\ ServerInv /\ HouseInv /\ MeetInv /\ PairsInv
         /\ FramesInv /\ OrderInv /\ AwaitedInv
         /\ \A b \in Bundles : Len(up[b]) \in Nat
<1>1. SetupTypeOK  BY DEF Up, SetupInv
<1>2. \A b \in Bundles : Len(up[b]) \in Nat  BY <1>1, LenProperties DEF SetupTypeOK, WireTypeOK
<1> QED BY <1>1, <1>2 DEF Up, SetupInv

LEMMA SameWireTypes ==
  ASSUME SetupTypeOK, UNCHANGED modulus
  PROVE  /\ UNCHANGED <<up, down>> => WireTypeOK'
         /\ UNCHANGED <<used_ids, super, house, looking, pairs, heard>> => ServerTypeOK'
<1>1. Bundles' = Bundles /\ Conns' = Conns /\ PairType' = PairType /\ FrameType' = FrameType
  BY DEF Bundles, Conns, Ids, PairType, FrameType
<1> QED BY <1>1 DEF SetupTypeOK, WireTypeOK, ServerTypeOK

LEMMA SpawnStays ==
  ASSUME SpawnInv, NEW t \in Threads, SpawnRow(t)',
         \A u \in Threads : u # t => ThreadSame(u)
  PROVE  SpawnInv'
<1>1. ASSUME NEW u \in Threads, u # t PROVE SpawnRow(u)'
  <2>1. ThreadSame(u) /\ SpawnRow(u)  BY <1>1 DEF SpawnInv
  <2>2. \A ch \in Channels : HasId(u, ch)' = HasId(u, ch) /\ Returned(u)' = Returned(u)
    BY <2>1, SameThread
  <2> QED BY <2>1, <2>2 DEF SpawnRow, ThreadSame
<1> QED BY <1>1 DEF SpawnInv

LEMMA ConnsStay ==
  ASSUME ConnsInv, UNCHANGED <<queues, modulus>>,
         \A t \in Threads, ch \in Channels :
           Made(t, ch)' = Made(t, ch) /\ (Made(t, ch) => ConnOf(t, ch)' = ConnOf(t, ch))
  PROVE  ConnsInv'
<1>1. Conns' = Conns  BY DEF Conns, Bundles, Ids
<1> QED BY <1>1 DEF ConnsInv

LEMMA SameThreadMade ==
  ASSUME NEW t \in Threads, ThreadSame(t), NEW ch \in Channels
  PROVE  Made(t, ch)' = Made(t, ch) /\ (Made(t, ch) => ConnOf(t, ch)' = ConnOf(t, ch))
BY SameThread

LEMMA NoLink ==
  ASSUME NEW t \in Threads, NEW ch \in Channels
  PROVE  /\ ~Live(t, ch) /\ ~Live(t, ch)' => SameLink(t, ch)
         /\ ~Made(t, ch) /\ ~Made(t, ch)' =>
              Made(t, ch)' = Made(t, ch) /\ (Made(t, ch) => ConnOf(t, ch)' = ConnOf(t, ch))
BY DEF SameLink, Live, Made

LEMMA PickKeeps ==
  ASSUME Up, NEW t \in Threads, PickBundle(t)
  PROVE  SetupInv'
<1>i. /\ SetupTypeOK /\ SpawnInv /\ ConnsInv /\ ServerInv /\ HouseInv /\ MeetInv /\ PairsInv
      /\ FramesInv /\ OrderInv /\ AwaitedInv
  BY UpFacts
<1>a. /\ at[t] = "start" /\ at' = [at EXCEPT ![t] = "read1"]
      /\ current' = (current + 1) % IdMod /\ first' = [first EXCEPT ![t] = current']
      /\ UNCHANGED <<modulus, wants, unused, id, number, said, queues, historyVars, up, down,
                     serverVars>>
  BY DEF PickBundle, Goes
<1>u. /\ UNCHANGED <<modulus, wants, unused, id, number, said, queues, overlapped, clash, up, down>>
      /\ UNCHANGED <<used_ids, super, house, looking, pairs, heard>>
      /\ Bundles' = Bundles /\ Conns' = Conns
  BY <1>a DEF historyVars, serverVars, Bundles, Conns, Ids
<1>1. current' \in Nat  BY <1>i, <1>a, ConnTypes DEF SetupTypeOK, ClientTypeOK
<1>2. SetupTypeOK'
  <2>1. first' \in [Threads -> Nat] /\ at' \in [Threads -> Places]
    BY <1>i, <1>a, <1>1 DEF SetupTypeOK, ClientTypeOK, Places
  <2>2. ClientTypeOK'  BY <1>i, <1>u, <1>1, <2>1 DEF SetupTypeOK, ClientTypeOK
  <2> QED BY <1>i, <1>u, <2>2, SameWireTypes DEF SetupTypeOK
<1>3. \A u \in Threads : u # t => ThreadSame(u)
  BY <1>i, <1>a, <1>u DEF SetupTypeOK, ClientTypeOK, ThreadSame
<1>4. at'[t] = "read1"  BY <1>i, <1>a DEF SetupTypeOK, ClientTypeOK
<1>5. \A ch \in Channels : ~Made(t, ch) /\ ~Made(t, ch)' /\ ~Live(t, ch) /\ ~Live(t, ch)'
  BY <1>a, <1>4 DEF Made, Live, Returned, Both, Channels
<1>6. SpawnInv'
  <2>1. SpawnRow(t)'
    BY <1>i, <1>a, <1>u, <1>4 DEF SpawnInv, SpawnRow, HasId, Returned, Both, Channels
  <2> QED BY <1>i, <1>3, <2>1, SpawnStays
<1>7. ConnsInv'
  <2>1. ASSUME NEW u \in Threads, NEW ch \in Channels
        PROVE  Made(u, ch)' = Made(u, ch) /\ (Made(u, ch) => ConnOf(u, ch)' = ConnOf(u, ch))
    <3>1. CASE u = t  BY <1>5, <3>1, NoLink, Zenon
    <3>2. CASE u # t  BY <1>3, <3>2, SameThreadMade, Zenon
    <3> QED BY <3>1, <3>2
  <2> QED BY <1>i, <1>u, <2>1, ConnsStay
<1>8. ASSUME NEW u \in Threads, NEW ch \in Channels PROVE SameLink(u, ch)
  <2>1. CASE u = t  BY <1>5, <2>1, NoLink, Zenon
  <2>2. CASE u # t  BY <1>3, <2>2, SameThreadLink, Zenon
  <2> QED BY <2>1, <2>2
<1>9. /\ ServerInv' /\ HouseInv' /\ MeetInv' /\ PairsInv'
      /\ FramesInv' /\ OrderInv' /\ AwaitedInv'
  BY <1>i, <1>a, <1>8, QuietKeeps
<1> QED BY <1>2, <1>6, <1>7, <1>9 DEF SetupInv

LEMMA ReadKeeps ==
  ASSUME Up, NEW t \in Threads, ReadUnusedId(t)
  PROVE  SetupInv'
<1> DEFINE ch == Spawning(t)
<1>i. /\ SetupTypeOK /\ SpawnInv /\ ConnsInv /\ ServerInv /\ HouseInv /\ MeetInv /\ PairsInv
      /\ FramesInv /\ OrderInv /\ AwaitedInv
  BY UpFacts
<1>a. /\ \/ at[t] = "read1" /\ at' = [at EXCEPT ![t] = "bump1"]
         \/ at[t] = "read2" /\ at' = [at EXCEPT ![t] = "bump2"]
      /\ id' = [id EXCEPT ![t][ch] = unused[BundleOf(t, ch)]]
      /\ overlapped' \in BOOLEAN
  <2>1. overlapped \in BOOLEAN  BY <1>i DEF SetupTypeOK, ClientTypeOK
  <2> QED BY <2>1 DEF ReadUnusedId, Goes
<1>u. /\ UNCHANGED <<modulus, wants, current, unused, queues, first, number, said, clash, up, down>>
      /\ UNCHANGED <<used_ids, super, house, looking, pairs, heard>> /\ UNCHANGED serverVars
      /\ Bundles' = Bundles /\ Conns' = Conns
  BY DEF ReadUnusedId, serverVars, Bundles, Conns, Ids
<1>c. /\ ch \in Channels
      /\ at[t] = "read1" => ch = "data"
      /\ at[t] = "read2" => ch = "control" /\ wants[t] = "dual"
  <2>1. ch \in Channels /\ (at[t] = "read1" => ch = "data") /\ (at[t] = "read2" => ch = "control")
    BY <1>a DEF Spawning, Channels
  <2>2. at[t] = "read2" => wants[t] = "dual"
    BY <1>i DEF SpawnInv, SpawnRow, SetupTypeOK, ClientTypeOK
  <2> QED BY <2>1, <2>2
<1> HIDE DEF ch
<1>1. unused[BundleOf(t, ch)] \in Ids
  <2>1. BundleOf(t, ch) \in Bundles  BY <1>i, <1>c, ConnTypes
  <2> QED BY <1>i, <2>1 DEF SetupTypeOK, ClientTypeOK
<1>2. SetupTypeOK'
  <2>1. id' \in [Threads -> [Channels -> Ids \cup {None}]]
    BY <1>i, <1>a, <1>c, <1>1 DEF SetupTypeOK, ClientTypeOK
  <2>2. at' \in [Threads -> Places]
    BY <1>i, <1>a DEF SetupTypeOK, ClientTypeOK, Places
  <2>3. ClientTypeOK'  BY <1>i, <1>a, <1>u, <2>1, <2>2 DEF SetupTypeOK, ClientTypeOK
  <2> QED BY <1>i, <1>u, <2>3, SameWireTypes DEF SetupTypeOK
<1>3. \A u \in Threads : u # t => ThreadSame(u)
  BY <1>i, <1>a, <1>u DEF SetupTypeOK, ClientTypeOK, ThreadSame
<1>4. /\ at[t] = "read1" => at'[t] = "bump1"
      /\ at[t] = "read2" => at'[t] = "bump2"
      /\ id'[t][ch] = unused[BundleOf(t, ch)]
      /\ \A dh \in Channels : dh # ch => id'[t][dh] = id[t][dh]
  <2>1. at \in [Threads -> Places] /\ id \in [Threads -> [Channels -> Ids \cup {None}]]
    BY <1>i DEF SetupTypeOK, ClientTypeOK
  <2>2. /\ at[t] = "read1" => at'[t] = "bump1"
        /\ at[t] = "read2" => at'[t] = "bump2"
    BY <1>a, <2>1
  <2>3. /\ id'[t][ch] = unused[BundleOf(t, ch)]
        /\ \A dh \in Channels : dh # ch => id'[t][dh] = id[t][dh]
    BY <1>a, <1>c, <2>1
  <2> QED BY <2>2, <2>3
<1>n. id'[t][ch] # None  BY <1>1, <1>4, <1>i, ConnTypes, NoneAssumption
<1>5. SpawnInv'
  <2>1. SpawnRow(t)  BY <1>i DEF SpawnInv
  <2>2. ASSUME NEW dh \in Channels PROVE id'[t][dh] # None <=> HasId(t, dh)'
    <3>1. id[t][dh] # None <=> HasId(t, dh)  BY <2>1 DEF SpawnRow
    <3>2. CASE dh = ch
      <4>1. HasId(t, dh)'  BY <1>a, <1>c, <1>4, <3>2 DEF HasId, Channels
      <4> QED BY <1>n, <3>2, <4>1
    <3>3. CASE dh # ch
      <4>1. HasId(t, dh)' <=> HasId(t, dh)
        BY <1>a, <1>c, <1>u, <1>4, <3>3 DEF HasId, Returned, Both, Channels
      <4> QED BY <1>4, <3>1, <3>3, <4>1
    <3> QED BY <3>2, <3>3
  <2>3. SpawnRow(t)'
    BY <1>a, <1>c, <1>u, <1>4, <2>1, <2>2 DEF SpawnRow, Returned, Channels
  <2> QED BY <1>i, <1>3, <2>3, SpawnStays
<1>6. ASSUME NEW dh \in Channels
      PROVE  /\ Made(t, dh)' = Made(t, dh) /\ (Made(t, dh) => ConnOf(t, dh)' = ConnOf(t, dh))
             /\ SameLink(t, dh)
  <2>1. CASE ~Made(t, dh)
    <3>1. ~Made(t, dh)'  BY <1>a, <1>4, <2>1 DEF Made, Returned, Both, Channels
    <3>2. ~Live(t, dh) /\ ~Live(t, dh)'  BY <2>1, <3>1 DEF Live
    <3> QED BY <2>1, <3>1, <3>2, NoLink, Zenon
  <2>2. CASE Made(t, dh)
    <3>1. at[t] = "read2" /\ at'[t] = "bump2" /\ dh = "data" /\ ch = "control"
      BY <1>a, <1>c, <1>4, <2>2 DEF Made, Returned, Both, Channels
    <3>2. id'[t][dh] = id[t][dh] /\ Made(t, dh)' /\ BundleOf(t, dh)' = BundleOf(t, dh)
      BY <1>u, <1>4, <3>1 DEF Made, BundleOf
    <3>3. ConnOf(t, dh)' = ConnOf(t, dh)  BY <3>2 DEF ConnOf
    <3>4. /\ ~Numbered(t, dh) /\ ~Numbered(t, dh)' /\ ~Told(t, dh) /\ ~Told(t, dh)'
          /\ ~Returned(t) /\ ~Returned(t)'
      BY <3>1 DEF Numbered, Told, Returned
    <3>5. Live(t, dh) /\ Live(t, dh)'  BY <1>c, <1>u, <2>2, <3>1, <3>2 DEF Live
    <3>6. SameLink(t, dh)
      BY <1>u, <3>2, <3>3, <3>4, <3>5 DEF SameLink, Live, Numbered, Told, Returned
    <3> QED BY <2>2, <3>2, <3>3, <3>6 DEF Made
  <2> QED BY <2>1, <2>2
<1>7. ConnsInv'
  <2>1. ASSUME NEW u \in Threads, NEW dh \in Channels
        PROVE  Made(u, dh)' = Made(u, dh) /\ (Made(u, dh) => ConnOf(u, dh)' = ConnOf(u, dh))
    <3>1. CASE u = t  BY <1>6, <3>1, Zenon
    <3>2. CASE u # t  BY <1>3, <3>2, SameThreadMade, Zenon
    <3> QED BY <3>1, <3>2
  <2> QED BY <1>i, <1>u, <2>1, ConnsStay
<1>8. ASSUME NEW u \in Threads, NEW dh \in Channels PROVE SameLink(u, dh)
  <2>1. CASE u = t  BY <1>6, <2>1, Zenon
  <2>2. CASE u # t  BY <1>3, <2>2, SameThreadLink, Zenon
  <2> QED BY <2>1, <2>2
<1>9. /\ ServerInv' /\ HouseInv' /\ MeetInv' /\ PairsInv'
      /\ FramesInv' /\ OrderInv' /\ AwaitedInv'
  BY <1>i, <1>u, <1>8, QuietKeeps
<1> QED BY <1>2, <1>5, <1>7, <1>9 DEF SetupInv

LEMMA OneMaker ==
  ASSUME ConnsInv
  PROVE  \A t, u \in Threads, ch, dh \in Channels :
           Made(t, ch) /\ Made(u, dh) /\ ConnOf(t, ch) = ConnOf(u, dh) => t = u /\ ch = dh
BY Zenon DEF ConnsInv

LEMMA ConnsNew ==
  ASSUME ConnsInv, UNCHANGED modulus, NEW t \in Threads, NEW ch \in Channels,
         NEW c \in Conns, ~Made(t, ch), Made(t, ch)', ConnOf(t, ch)' = c,
         c \notin queues, queues' = queues \cup {c},
         \A u \in Threads, dh \in Channels : u # t \/ dh # ch =>
           Made(u, dh)' = Made(u, dh) /\ (Made(u, dh) => ConnOf(u, dh)' = ConnOf(u, dh))
  PROVE  ConnsInv'
<1>0. Conns' = Conns  BY DEF Conns, Bundles, Ids
<1>1. \A u \in Threads, dh \in Channels : u # t \/ dh # ch =>
        Made(u, dh)' = Made(u, dh) /\ (Made(u, dh) => ConnOf(u, dh)' = ConnOf(u, dh))
  OBVIOUS
<1>q. queues = {d \in Conns : \E u \in Threads, dh \in Channels :
                                Made(u, dh) /\ d = ConnOf(u, dh)}
  BY DEF ConnsInv
<1>2. queues' = {d \in Conns : \E u \in Threads, dh \in Channels :
                                 Made(u, dh)' /\ d = ConnOf(u, dh)'}
  <2>1. ASSUME NEW d \in Conns
        PROVE  d \in queues' <=> \E u \in Threads, dh \in Channels :
                                   Made(u, dh)' /\ d = ConnOf(u, dh)'
    <3>1. CASE d = c  BY <3>1
    <3>2. CASE d # c
      <4>1. d \in queues' <=> \E u \in Threads, dh \in Channels : Made(u, dh) /\ d = ConnOf(u, dh)
        BY <1>q, <3>2
      <4>2. ASSUME NEW u \in Threads, NEW dh \in Channels
            PROVE  Made(u, dh) /\ d = ConnOf(u, dh) <=> Made(u, dh)' /\ d = ConnOf(u, dh)'
        BY <1>1, <3>2
      <4> QED BY <4>1, <4>2
    <3> QED BY <3>1, <3>2
  <2>2. queues' \subseteq Conns  BY <1>q
  <2> QED BY <2>1, <2>2, Zenon
<1>3. ASSUME NEW u \in Threads, NEW dh \in Channels, u # t \/ dh # ch, Made(u, dh)'
      PROVE  ConnOf(u, dh)' # c /\ Made(u, dh) /\ ConnOf(u, dh)' = ConnOf(u, dh)
  <2>1. Made(u, dh) /\ ConnOf(u, dh)' = ConnOf(u, dh)  BY <1>1, <1>3
  <2> QED BY <1>q, <2>1
<1>4. ASSUME NEW u \in Threads, NEW w \in Threads, NEW dh \in Channels, NEW eh \in Channels,
             Made(u, dh)', Made(w, eh)', ConnOf(u, dh)' = ConnOf(w, eh)'
      PROVE  u = w /\ dh = eh
  <2>1. CASE u = t /\ dh = ch  BY <1>3, <1>4, <2>1
  <2>2. CASE w = t /\ eh = ch  BY <1>3, <1>4, <2>2
  <2>3. CASE (u # t \/ dh # ch) /\ (w # t \/ eh # ch)
    <3>1. /\ Made(u, dh) /\ ConnOf(u, dh)' = ConnOf(u, dh)
          /\ Made(w, eh) /\ ConnOf(w, eh)' = ConnOf(w, eh)
      BY <1>3, <1>4, <2>3
    <3>2. ConnOf(u, dh) = ConnOf(w, eh)  BY <1>4, <3>1
    <3> QED BY <3>1, <3>2, OneMaker
  <2> QED BY <2>1, <2>2, <2>3
<1> QED BY <1>0, <1>2, <1>4 DEF ConnsInv

\* What is left to show of a thread's step is about its own connections.
LEMMA ThreadKeeps ==
  ASSUME Up, NEW t \in Threads, \A u \in Threads : u # t => ThreadSame(u),
         UNCHANGED <<serverVars, modulus>>, LinksStay,
         \A c \in Conns : (\A ch \in Channels : Live(t, ch)' => c # ConnOf(t, ch)') =>
           down'[c] = down[c],
         \A c, k, v : c \in Conns /\ OnWay(c, k, v) => OnWay(c, k, v)',
         \A ch \in Channels, c \in Conns : Live(t, ch)' /\ c = ConnOf(t, ch)' =>
           ServerRow(t, ch, c)' /\ HeardRow(t, ch, c)' /\ Awaited(t, ch, c)',
         Live(t, "control")' =>
           Live(t, "control") \/ Meet(t, ConnOf(t, "data"), ConnOf(t, "control"))',
         ConnsInv', SetupTypeOK', SpawnInv'
  PROVE  ServerInv' /\ HouseInv' /\ MeetInv' /\ PairsInv' /\ AwaitedInv'
<1>i. /\ SetupTypeOK /\ SpawnInv /\ ConnsInv /\ ServerInv /\ HouseInv /\ MeetInv /\ PairsInv
      /\ AwaitedInv
  BY UpFacts
<1>u. UNCHANGED <<super, heard, used_ids, pairs>> /\ Bundles' = Bundles /\ Conns' = Conns
  BY DEF serverVars, Conns, Bundles, Ids
<1>s. \A c : Alive(c)' = Alive(c) /\ Knows(c)' = Knows(c) /\ Ready(c)' = Ready(c)
  BY SameServer
<1>l. \A u \in Threads, ch \in Channels : Live(u, ch) => Live(u, ch)' /\ ConnOf(u, ch)' = ConnOf(u, ch)
  BY Zenon DEF LinksStay
<1>d. \A c \in Conns : (\A ch \in Channels : Live(t, ch)' => c # ConnOf(t, ch)') =>
        down'[c] = down[c]
  OBVIOUS
<1>w. \A c, k, v : c \in Conns /\ OnWay(c, k, v) => OnWay(c, k, v)'
  OBVIOUS
<1>r. \A ch \in Channels, c \in Conns : Live(t, ch)' /\ c = ConnOf(t, ch)' =>
        ServerRow(t, ch, c)' /\ HeardRow(t, ch, c)' /\ Awaited(t, ch, c)'
  OBVIOUS
<1>1. ASSUME NEW u \in Threads, NEW ch \in Channels, Live(u, ch)', NEW c, c = ConnOf(u, ch)'
      PROVE  c \in Conns /\ ServerRow(u, ch, c)' /\ HeardRow(u, ch, c)' /\ Awaited(u, ch, c)'
  <2>0. Made(u, ch)'  BY <1>1 DEF Live
  <2>1. c \in Conns
    <3>1. ConnOf(u, ch)' = <<BundleOf(u, ch)', id'[u][ch]>>  BY DEF ConnOf
    <3>2. HasId(u, ch)'  BY <2>0 DEF Made, HasId, Channels
    <3>3. id'[u][ch] # None  BY <3>2 DEF SpawnInv, SpawnRow
    <3>4. id'[u][ch] \in Ids  BY <3>3 DEF SetupTypeOK, ClientTypeOK, Ids
    <3>5. BundleOf(u, ch)' \in Bundles
      <4>1. first'[u] \in Nat  BY DEF SetupTypeOK, ClientTypeOK
      <4>2. modulus \in Nat /\ modulus > 0  BY <1>i, ConnTypes
      <4> QED BY <4>1, <4>2 DEF BundleOf, Bundles
    <3> QED BY <1>1, <3>1, <3>4, <3>5 DEF Conns
  <2>2. CASE u = t  BY <1>1, <1>r, <2>1, <2>2
  <2>3. CASE u # t
    <3>1. SameLink(u, ch)  BY <2>3, SameThreadLink
    <3>2. Live(u, ch) /\ ConnOf(u, ch) = c  BY <1>1, <3>1 DEF SameLink
    <3>3. ServerRow(u, ch, c) /\ HeardRow(u, ch, c) /\ Awaited(u, ch, c)
      BY <1>i, <3>2 DEF ServerInv, AwaitedInv
    <3>4. ASSUME NEW dh \in Channels, Live(t, dh)' PROVE c # ConnOf(t, dh)'
      BY <1>1, <2>3, <3>4 DEF ConnsInv, Live
    <3>5. down'[c] = down[c]  BY <1>d, <2>1, <3>4
    <3>6. ServerRow(u, ch, c)' /\ HeardRow(u, ch, c)'  BY <3>1, <3>2, <3>3, <3>5, SameRows
    <3>7. Told(u, ch)' = Told(u, ch) /\ said'[u] = said[u]  BY <3>1, <3>2 DEF SameLink
    <3>8. Awaited(u, ch, c)'  BY <1>s, <1>u, <1>w, <2>1, <3>3, <3>7 DEF Awaited
    <3> QED BY <2>1, <3>6, <3>8
  <2> QED BY <2>2, <2>3
<1>2. ASSUME NEW u \in Threads, NEW ch \in Channels, Live(u, ch)'
      PROVE  /\ ServerRow(u, ch, ConnOf(u, ch))' /\ HeardRow(u, ch, ConnOf(u, ch))'
             /\ Awaited(u, ch, ConnOf(u, ch))'
  <2>1. PICK c : c = ConnOf(u, ch)'  OBVIOUS
  <2>2. ServerRow(u, ch, c)' /\ HeardRow(u, ch, c)' /\ Awaited(u, ch, c)'  BY <1>1, <1>2, <2>1
  <2> QED BY <2>1, <2>2 DEF ServerRow, HeardRow, Awaited, Alive, Knows, Ready, OnWay
<1>3. ServerInv'
  <2>1. ASSUME NEW c \in Conns,
               ~\E u \in Threads, ch \in Channels : Live(u, ch)' /\ c = ConnOf(u, ch)'
        PROVE  ~Alive(c)' /\ down'[c] = <<>> /\ heard'[c] = <<>>
    <3>1. ~Alive(c) /\ down[c] = <<>> /\ heard[c] = <<>>  BY <1>i, <1>l, <2>1 DEF ServerInv
    <3>2. down'[c] = down[c]  BY <1>d, <2>1
    <3> QED BY <1>s, <1>u, <3>1, <3>2
  <2>2. \A c, d \in Conns :
          Alive(c)' /\ Alive(d)' /\ super'[c].my_id = super'[d].my_id => c = d
    BY <1>i, <1>u, <1>s DEF ServerInv
  <2> QED BY <1>u, <1>2, <2>1, <2>2 DEF ServerInv
<1>4. HouseInv'  BY <1>i, HouseStays
<1>5. MeetInv'
  <2>1. ASSUME NEW u \in Threads, Live(u, "control")'
        PROVE  Live(u, "control") \/ Meet(u, ConnOf(u, "data"), ConnOf(u, "control"))'
    <3>1. CASE u = t  BY <2>1, <3>1
    <3>2. CASE u # t
      <4>1. "control" \in Channels  BY DEF Channels
      <4>2. SameLink(u, "control")  BY <3>2, <4>1, SameThreadLink
      <4> QED BY <2>1, <4>2 DEF SameLink
    <3> QED BY <3>1, <3>2
  <2> QED BY <1>i, <2>1, MeetStay
<1>6. PairsInv'  BY <1>i, <1>u, <1>s, PairsStay
<1>7. AwaitedInv'  BY <1>2 DEF AwaitedInv
<1> QED BY <1>3, <1>4, <1>5, <1>6, <1>7

\* What a step of thread t can make of the frames of the others, and what it may
\* make of its own.
LEMMA FrameKept ==
  ASSUME Up, NEW t \in Threads, \A u \in Threads : u # t => ThreadSame(u),
         UNCHANGED serverVars,
         \A ch \in Channels : Live(t, ch) =>
           /\ Told(t, ch) => Told(t, ch)' /\ number'[t] = number[t]
           /\ said[t][ch] <= said'[t][ch],
         Returned(t) => Returned(t)', SetupTypeOK'
  PROVE  \A u \in Threads, dh \in Channels : \A d : \A g \in FrameType :
           Live(u, dh) /\ d = ConnOf(u, dh) /\ FrameOK(u, dh, d, g) => FrameOK(u, dh, d, g)'
<1> SUFFICES ASSUME NEW u \in Threads, NEW dh \in Channels, NEW d, NEW g \in FrameType,
                    Live(u, dh), d = ConnOf(u, dh), FrameOK(u, dh, d, g)
             PROVE  FrameOK(u, dh, d, g)'
  OBVIOUS
<1>1. CASE u # t
  <2>1. SameLink(u, dh)  BY <1>1, SameThreadLink
  <2> QED BY <2>1, SameFrame
<1>2. CASE u = t
  <2>1. Alive(d)' = Alive(d) /\ Knows(d)' = Knows(d) /\ heard'[d] = heard[d]
    BY SameServer DEF serverVars
  <2>2. said[t][dh] \in Nat /\ said'[t][dh] \in Nat
    BY UpFacts DEF SetupTypeOK, ClientTypeOK
  <2>3. said[t][dh] <= said'[t][dh] /\ (Told(t, dh) => Told(t, dh)' /\ number'[t] = number[t])
    BY <1>2
  <2>4. g.value <= said[t][dh] => g.value <= said'[t][dh]
    BY <2>2, <2>3 DEF FrameType
  <2> QED BY <1>2, <2>1, <2>3, <2>4 DEF FrameOK
<1> QED BY <1>1, <1>2

LEMMA FramesStay ==
  ASSUME SetupTypeOK, FramesInv, OrderInv, UNCHANGED <<up, modulus>>,
         \A t \in Threads, ch \in Channels :
           (Live(t, ch)' <=> Live(t, ch)) /\ ConnOf(t, ch)' = ConnOf(t, ch),
         \A t \in Threads, ch \in Channels : \A c : \A f \in FrameType :
           Live(t, ch) /\ c = ConnOf(t, ch) /\ FrameOK(t, ch, c, f) => FrameOK(t, ch, c, f)'
  PROVE  FramesInv' /\ OrderInv'
<1>b. Bundles' = Bundles  BY DEF Bundles
<1>o. \A t \in Threads, ch \in Channels : \A b, f : Owns(t, ch, b, f)' <=> Owns(t, ch, b, f)
  BY DEF Owns
<1>1. ASSUME NEW b \in Bundles, NEW i \in 1..Len(up[b])
      PROVE  /\ \E t \in Threads, ch \in Channels : Owns(t, ch, b, up[b][i])'
             /\ \A t \in Threads, ch \in Channels :
                  Owns(t, ch, b, up[b][i])' => FrameOK(t, ch, ConnOf(t, ch), up[b][i])'
  <2>1. PICK f : f = up[b][i]  OBVIOUS
  <2>2. f \in FrameType
    <3>1. up[b] \in Seq(FrameType)  BY DEF SetupTypeOK, WireTypeOK
    <3> QED BY <2>1, <3>1
  <2>3. \E t \in Threads, ch \in Channels : Owns(t, ch, b, f)'  BY <1>o, <2>1 DEF FramesInv
  <2>4. ASSUME NEW t \in Threads, NEW ch \in Channels, Owns(t, ch, b, f)', NEW c, c = ConnOf(t, ch)'
        PROVE  FrameOK(t, ch, c, f)'
    <3>1. Live(t, ch) /\ c = ConnOf(t, ch) /\ Owns(t, ch, b, f)  BY <1>o, <2>4 DEF Owns
    <3>2. FrameOK(t, ch, c, f)  BY <2>1, <3>1 DEF FramesInv
    <3> QED BY <2>2, <3>1, <3>2
  <2> QED BY <2>1, <2>3, <2>4 DEF Owns, FrameOK, Alive, Knows
<1>2. FramesInv'  BY <1>b, <1>1 DEF FramesInv
<1>3. OrderInv'  BY <1>b, <1>o DEF OrderInv
<1> QED BY <1>2, <1>3

\* What is known of a connection nobody has made.
LEMMA Unmade ==
  ASSUME Up, NEW c \in Conns, c \notin queues
  PROVE  /\ ~Alive(c) /\ ~Knows(c) /\ ~Ready(c) /\ down[c] = <<>> /\ heard[c] = <<>>
         /\ \A b \in Bundles : looking[b] # c
         /\ \A t \in Threads, ch \in Channels : Made(t, ch) => ConnOf(t, ch) # c
<1>i. SetupTypeOK /\ ConnsInv /\ ServerInv /\ MeetInv  BY UpFacts
<1>1. \A t \in Threads, ch \in Channels : Made(t, ch) => ConnOf(t, ch) # c
  BY <1>i DEF ConnsInv
<1>2. \A t \in Threads, ch \in Channels : Live(t, ch) => ConnOf(t, ch) # c
  BY <1>1 DEF Live
<1>3. ~Alive(c) /\ down[c] = <<>> /\ heard[c] = <<>>  BY <1>i, <1>2 DEF ServerInv
<1>4. ASSUME NEW b \in Bundles, looking[b] = c PROVE FALSE
  <2>1. looking[b] # None  BY <1>i, <1>4, ConnTypes
  <2> QED BY <1>i, <1>2, <1>4, <2>1 DEF MeetInv
<1> QED BY <1>1, <1>3, <1>4 DEF Knows, Ready

LEMMA MakeKeeps ==
  ASSUME Up, NEW t \in Threads, MakeConnection(t)
  PROVE  SetupInv'
<1>x. PICK ch, c, f : ch = Spawning(t) /\ c = ConnOf(t, ch) /\ f = Frame(c, "empty", FALSE, 0)
  OBVIOUS
<1>i. /\ SetupTypeOK /\ SpawnInv /\ ConnsInv /\ ServerInv /\ HouseInv /\ MeetInv /\ PairsInv
      /\ FramesInv /\ OrderInv /\ AwaitedInv
  BY UpFacts
<1>a. /\ \/ /\ wants[t] = "single" /\ at[t] = "bump1" /\ at' = [at EXCEPT ![t] = "spawned"]
            /\ UNCHANGED up
         \/ /\ wants[t] = "dual" /\ at[t] = "bump1" /\ at' = [at EXCEPT ![t] = "read2"]
            /\ up' = [up EXCEPT ![c[1]] = Append(@, f)]
         \/ /\ wants[t] = "dual" /\ at[t] = "bump2" /\ at' = [at EXCEPT ![t] = "await1"]
            /\ up' = [up EXCEPT ![c[1]] = Append(@, f)]
      /\ unused' = [unused EXCEPT ![c[1]] = (unused[c[1]] + 1) % IdMod]
      /\ down' = [down EXCEPT ![c] = <<>>]
      /\ queues' = queues \cup {c}
      /\ clash' = (c \in queues)
  BY <1>x DEF MakeConnection, Goes, Announce, Sends, NextId
<1>u. /\ UNCHANGED <<modulus, wants, current, first, id, number, said, overlapped>>
      /\ UNCHANGED <<used_ids, super, house, looking, pairs, heard>> /\ UNCHANGED serverVars
      /\ Bundles' = Bundles /\ Conns' = Conns
  BY DEF MakeConnection, serverVars, Bundles, Conns, Ids
<1>c. /\ ch \in Channels
      /\ at[t] = "bump1" => ch = "data"
      /\ at[t] = "bump2" => ch = "control"
  BY <1>a, <1>x DEF Spawning, Channels
<1>h. HasId(t, ch) /\ ~Made(t, ch)
  BY <1>a, <1>c DEF HasId, Made, Returned, Both, Channels
<1>e. c \in Conns /\ c[1] \in Bundles /\ c[1] = BundleOf(t, ch)
  <2>1. id[t][ch] # None  BY <1>i, <1>c, <1>h DEF SpawnInv, SpawnRow
  <2> QED BY <1>i, <1>c, <1>x, <2>1, ConnTypes
<1>f. f \in FrameType /\ f.id = c[2] /\ f.kind = "empty"
  <2>1. f = [id |-> c[2], kind |-> "empty", is_data |-> FALSE, value |-> 0]
    BY <1>x DEF Frame
  <2>2. c[2] \in Ids  BY <1>e DEF Conns
  <2> QED BY <2>1, <2>2 DEF FrameType, Kinds
<1>k. c = ConnOf(t, ch) /\ c = <<c[1], f.id>>  BY <1>e, <1>f, <1>i, <1>x, ConnTypes
<1>1. SetupTypeOK'
  <2>1. at' \in [Threads -> Places]
    BY <1>i, <1>a DEF SetupTypeOK, ClientTypeOK, Places, Both
  <2>2. unused' \in [Bundles -> Ids]
    <3>1. unused[c[1]] \in Nat /\ IdMod \in Nat /\ IdMod > 0
      BY <1>i, <1>e, ConnTypes DEF SetupTypeOK, ClientTypeOK
    <3>2. (unused[c[1]] + 1) % IdMod \in Ids  BY <3>1 DEF Ids
    <3> QED BY <1>i, <1>a, <1>e, <3>2 DEF SetupTypeOK, ClientTypeOK
  <2>3. queues' \subseteq Conns /\ clash' \in BOOLEAN
    BY <1>i, <1>a, <1>e DEF SetupTypeOK, ClientTypeOK
  <2>4. ClientTypeOK'  BY <1>i, <1>u, <2>1, <2>2, <2>3 DEF SetupTypeOK, ClientTypeOK
  <2>5. down' \in [Conns -> Seq(Nat)]
    <3>1. <<>> \in Seq(Nat)  OBVIOUS
    <3> QED BY <1>i, <1>a, <1>e, <3>1 DEF SetupTypeOK, WireTypeOK
  <2>6. up' \in [Bundles -> Seq(FrameType)]
    <3>1. up \in [Bundles -> Seq(FrameType)]  BY <1>i DEF SetupTypeOK, WireTypeOK
    <3> QED BY <1>i, <1>a, <1>e, <1>f, <3>1, SentIsAdded
  <2>7. FrameType' = FrameType  BY DEF FrameType, Ids
  <2> QED BY <1>i, <1>u, <2>4, <2>5, <2>6, <2>7, SameWireTypes DEF SetupTypeOK, WireTypeOK
<1> SUFFICES ASSUME ~clash' PROVE SetupInv'
  BY <1>1 DEF SetupInv
<1>q. c \notin queues  BY <1>a
<1>2. /\ ~Alive(c) /\ ~Knows(c) /\ ~Ready(c) /\ down[c] = <<>> /\ heard[c] = <<>>
      /\ \A b \in Bundles : looking[b] # c
      /\ \A u \in Threads, dh \in Channels : Made(u, dh) => ConnOf(u, dh) # c
  BY <1>e, <1>q, Unmade
<1>d. UNCHANGED down
  BY <1>a, <1>e, <1>i, <1>2 DEF SetupTypeOK, WireTypeOK
<1>3. \A u \in Threads : u # t => ThreadSame(u)
  BY <1>i, <1>a, <1>u DEF SetupTypeOK, ClientTypeOK, ThreadSame
<1>4. /\ wants[t] = "single" => at[t] = "bump1" /\ at'[t] = "spawned"
      /\ wants[t] = "dual" /\ at[t] = "bump1" => at'[t] = "read2"
      /\ wants[t] = "dual" /\ at[t] # "bump1" => at[t] = "bump2" /\ at'[t] = "await1"
      /\ wants[t] = "single" \/ wants[t] = "dual"
  BY <1>i, <1>a DEF SetupTypeOK, ClientTypeOK
<1>5. SpawnInv'
  <2>1. SpawnRow(t)  BY <1>i DEF SpawnInv
  <2>2. \A dh \in Channels : HasId(t, dh)' <=> HasId(t, dh)
    BY <1>u, <1>4 DEF HasId, Returned, Both, Channels
  <2>3. ~Returned(t) /\ ~Returned(t)'  BY <1>u, <1>4 DEF Returned
  <2>4. SpawnRow(t)'  BY <1>u, <1>4, <2>1, <2>2, <2>3 DEF SpawnRow
  <2> QED BY <1>i, <1>3, <2>4, SpawnStays
<1>s. \A u \in Threads, dh \in Channels :
        ConnOf(u, dh)' = ConnOf(u, dh) /\ BundleOf(u, dh)' = BundleOf(u, dh)
  BY <1>u DEF ConnOf, BundleOf
<1>6. Made(t, ch)' /\ \A dh \in Channels : dh # ch => Made(t, dh)' = Made(t, dh)
  BY <1>c, <1>u, <1>4 DEF Made, Returned, Both, Channels
<1>7. ConnsInv'
  <2>1. ASSUME NEW u \in Threads, NEW dh \in Channels, u # t \/ dh # ch
        PROVE  Made(u, dh)' = Made(u, dh) /\ (Made(u, dh) => ConnOf(u, dh)' = ConnOf(u, dh))
    <3>1. CASE u = t  BY <1>s, <1>6, <2>1, <3>1
    <3>2. CASE u # t  BY <1>3, <3>2, SameThreadMade, Zenon
    <3> QED BY <3>1, <3>2
  <2>2. ConnOf(t, ch)' = c  BY <1>c, <1>k, <1>s
  <2> QED BY <1>i, <1>a, <1>c, <1>e, <1>h, <1>q, <1>u, <1>6, <2>1, <2>2, ConnsNew

<1>10. \A dh \in Channels : ~Numbered(t, dh) /\ ~Numbered(t, dh)' /\ ~Told(t, dh) /\ ~Told(t, dh)'
  BY <1>u, <1>4 DEF Numbered, Told, Returned
<1>11. ~Returned(t) /\ ~Returned(t)'  BY <1>u, <1>4 DEF Returned
<1>8. CASE wants[t] = "single"
  <2>1. ASSUME NEW u \in Threads, NEW dh \in Channels PROVE SameLink(u, dh)
    <3>1. CASE u = t
      <4>1. ~Live(u, dh) /\ ~Live(u, dh)'  BY <1>8, <1>u, <3>1 DEF Live
      <4> QED BY <4>1, NoLink
    <3>2. CASE u # t  BY <1>3, <3>2, SameThreadLink, Zenon
    <3> QED BY <3>1, <3>2
  <2>2. UNCHANGED <<serverVars, modulus, up, down>>
    BY <1>a, <1>d, <1>u, <1>8
  <2>3. /\ ServerInv' /\ HouseInv' /\ MeetInv' /\ PairsInv'
        /\ FramesInv' /\ OrderInv' /\ AwaitedInv'
    BY <1>i, <2>1, <2>2, QuietKeeps
  <2> QED BY <1>1, <1>5, <1>7, <2>3 DEF SetupInv
<1>9. CASE wants[t] = "dual"
  <2>a. up' = [up EXCEPT ![c[1]] = Append(@, f)]  BY <1>a, <1>9
  <2>b. Added(c[1], f) /\ \A x \in Bundles : Len(up[x]) \in Nat
    BY <1>e, <1>f, <1>i, <2>a, SentIsAdded
  <2>l. Live(t, ch)' /\ ~Live(t, ch)  BY <1>9, <1>h, <1>u, <1>6 DEF Live
  <2>1. LinksStay
    <3>1. ASSUME NEW u \in Threads, NEW dh \in Channels, Live(u, dh)
          PROVE  Live(u, dh)'
      <4>1. CASE u = t
        <5>1. dh # ch  BY <2>l, <3>1, <4>1
        <5> QED BY <1>6, <1>u, <3>1, <4>1, <5>1 DEF Live
      <4>2. CASE u # t
        <5>1. Live(u, dh)' = Live(u, dh)  BY <1>3, <4>2, SameThread
        <5> QED BY <3>1, <5>1
      <4> QED BY <4>1, <4>2
    <3> QED BY <1>s, <3>1 DEF LinksStay
  <2>2. FrameOK(t, ch, c, f)'
    <3>1. ~Alive(c)'  BY <1>2, <1>u DEF Alive
    <3> QED BY <1>f, <3>1 DEF FrameOK
  <2>3. \A u \in Threads, dh \in Channels : \A d : \A g \in FrameType :
          Live(u, dh) /\ d = ConnOf(u, dh) /\ FrameOK(u, dh, d, g) => FrameOK(u, dh, d, g)'
    <3>1. \A dh \in Channels : said[t][dh] <= said'[t][dh]
      BY <1>i, <1>u DEF SetupTypeOK, ClientTypeOK
    <3>2. number'[t] = number[t]  BY <1>u
    <3> QED BY <1>1, <1>3, <1>u, <1>10, <1>11, <3>1, <3>2, FrameKept
  <2>4. ASSUME NEW dh \in Channels, NEW g, Live(t, dh)
        PROVE  Before(dh, g, ch, f)
    <3>1. dh # ch  BY <2>l, <2>4
    <3> QED BY <1>f, <3>1 DEF Before
  <2>5. FramesInv' /\ OrderInv'
    <3>1. ConnOf(t, ch)' = c  BY <1>c, <1>k, <1>s
    <3> QED BY <1>c, <1>e, <1>i, <1>k, <1>u, <1>7, <2>b, <2>l, <2>1, <2>2, <2>3, <2>4, <3>1,
               FramesGrow
  <2>6. ASSUME NEW dh \in Channels, NEW d \in Conns, Live(t, dh)', d = ConnOf(t, dh)'
        PROVE  ServerRow(t, dh, d)' /\ HeardRow(t, dh, d)' /\ Awaited(t, dh, d)'
    <3>u. UNCHANGED <<super, heard, used_ids, down, said, number>>  BY <1>d, <1>u
    <3>1. CASE dh = ch
      <4>1. d = c  BY <1>k, <1>s, <2>6, <3>1
      <4>2. ~Alive(d)' /\ ~Knows(d)' /\ ~Ready(d)' /\ down'[d] = <<>> /\ heard'[d] = <<>>
        BY <1>2, <3>u, <4>1 DEF Alive, Knows, Ready
      <4>3. said'[t][dh] = 0
        BY <1>i, <1>11, <3>u DEF SpawnInv, SpawnRow
      <4>4. ServerRow(t, dh, d)'  BY <1>10, <4>2 DEF ServerRow
      <4>5. HeardRow(t, dh, d)'  BY <4>2, <4>3 DEF HeardRow
      <4>6. Awaited(t, dh, d)'  BY <1>10, <4>2, <4>3 DEF Awaited
      <4> QED BY <4>4, <4>5, <4>6
    <3>2. CASE dh # ch
      <4>1. Live(t, dh) /\ d = ConnOf(t, dh)
        <5>1. Made(t, dh)  BY <1>6, <2>6, <3>2 DEF Live
        <5> QED BY <1>9, <1>s, <2>6, <5>1 DEF Live
      <4>2. ServerRow(t, dh, d) /\ HeardRow(t, dh, d) /\ Awaited(t, dh, d)
        BY <1>i, <4>1 DEF ServerInv, AwaitedInv
      <4>3. SameLink(t, dh)
        BY <1>s, <1>u, <1>10, <1>11, <2>6, <4>1 DEF SameLink, Live, Numbered, Told, Returned
      <4>4. ServerRow(t, dh, d)' /\ HeardRow(t, dh, d)'
        BY <1>u, <3>u, <4>1, <4>2, <4>3, SameRows
      <4>5. said'[t][dh] = 0
        BY <1>i, <1>11, <3>u DEF SpawnInv, SpawnRow
      <4>6. Len(heard'[d]) \in Nat
        BY <1>i, <3>u, LenProperties DEF SetupTypeOK, ServerTypeOK
      <4>7. Awaited(t, dh, d)'  BY <1>10, <4>5, <4>6 DEF Awaited
      <4> QED BY <4>4, <4>7
    <3> QED BY <3>1, <3>2
  <2>7. Live(t, "control")' =>
          Live(t, "control") \/ Meet(t, ConnOf(t, "data"), ConnOf(t, "control"))'
    <3> SUFFICES ASSUME Live(t, "control")', ~Live(t, "control")
                 PROVE  Meet(t, ConnOf(t, "data"), ConnOf(t, "control"))'
      OBVIOUS
    <3>1. ch = "control" /\ at[t] = "bump2"
      BY <1>4, <1>9, <1>c DEF Live, Made, Returned, Both
    <3>2. Live(t, "data")  BY <1>9, <3>1 DEF Live, Made
    <3>3. PICK d : d = ConnOf(t, "data")  OBVIOUS
    <3>4. d \in Conns  BY <1>i, <3>2, <3>3, LiveConn DEF Live, Channels
    <3>5. ~Knows(d) /\ ~Ready(d)
      <4>1. ServerRow(t, "data", d)  BY <1>i, <3>2, <3>3 DEF ServerInv, Channels
      <4> QED BY <1>10, <4>1 DEF ServerRow, Channels
    <3>6. ASSUME NEW b \in Bundles, looking[b] = d PROVE FALSE
      <4>1. looking[b] # None  BY <1>i, <3>4, <3>6, ConnTypes
      <4>2. PICK u \in Threads, dh \in Channels :
              Live(u, dh) /\ Live(u, "control") /\ looking[b] = ConnOf(u, dh)
        BY <1>i, <4>1 DEF MeetInv
      <4>3. u = t  BY <1>i, <3>2, <3>3, <3>6, <4>2, OneOwner DEF Channels
      <4> QED BY <4>2, <4>3
    <3>7. ConnOf(t, "data")' = d /\ ConnOf(t, "control")' = c /\ BundleOf(t, "data")' \in Bundles
      BY <1>i, <1>k, <1>s, <3>1, <3>3, ConnTypes DEF Channels
    <3>8. Meet(t, d, c)'
      BY <1>2, <1>u, <3>5, <3>6, <3>7 DEF Meet, Knows, Ready, Alive
    <3> QED BY <3>7, <3>8 DEF Meet, Knows, Ready, Alive
  <2>8. ServerInv' /\ HouseInv' /\ MeetInv' /\ PairsInv' /\ AwaitedInv'
    <3>1. \A d, k, v : d \in Conns /\ OnWay(d, k, v) => OnWay(d, k, v)'
      BY <1>e, <2>b, OnWayGrows
    <3> QED BY <1>d, <1>u, <1>1, <1>3, <1>5, <1>7, <2>1, <2>6, <2>7, <3>1, ThreadKeeps
  <2> QED BY <1>1, <1>5, <1>7, <2>5, <2>8 DEF SetupInv
<1> QED BY <1>4, <1>8, <1>9

LEMMA ReceiveKeeps ==
  ASSUME Up, NEW t \in Threads, NEW ch \in Channels, ReceiveNumber(t, ch)
  PROVE  SetupInv'
<1>x. PICK c : c = ConnOf(t, ch)  OBVIOUS
<1>i. /\ SetupTypeOK /\ SpawnInv /\ ConnsInv /\ ServerInv /\ FramesInv /\ OrderInv /\ AwaitedInv
  BY UpFacts
<1>a. /\ \/ ch = "data" /\ at[t] = "await1" /\ at' = [at EXCEPT ![t] = "await2"]
         \/ ch = "control" /\ at[t] = "await2" /\ at' = [at EXCEPT ![t] = "tell1"]
      /\ down[c] # <<>>
      /\ number' = [number EXCEPT ![t][ch] = Head(down[c])]
      /\ down' = [down EXCEPT ![c] = Tail(@)]
  BY <1>x DEF ReceiveNumber, Goes, Channels
<1>u. /\ UNCHANGED <<modulus, wants, current, unused, queues, first, id, said, overlapped, clash, up>>
      /\ UNCHANGED <<used_ids, super, house, looking, pairs, heard>> /\ UNCHANGED serverVars
      /\ Bundles' = Bundles /\ Conns' = Conns
  BY DEF ReceiveNumber, historyVars, serverVars, Bundles, Conns, Ids
<1>t. at \in [Threads -> Places] /\ number \in [Threads -> [Channels -> Nat \cup {None}]]
  BY <1>i DEF SetupTypeOK, ClientTypeOK
<1>1. /\ ch = "data" => at[t] = "await1" /\ at'[t] = "await2"
      /\ ch = "control" => at[t] = "await2" /\ at'[t] = "tell1"
      /\ ch = "data" \/ ch = "control"
  BY <1>a, <1>t
<1>d. wants[t] = "dual"
  BY <1>i, <1>1 DEF SpawnInv, SpawnRow, SetupTypeOK, ClientTypeOK
<1>2. \A dh \in Channels : Live(t, dh) /\ Live(t, dh)' /\ ~Told(t, dh) /\ ~Told(t, dh)'
  BY <1>1, <1>d, <1>u DEF Live, Made, Told, Returned, Both, Channels
<1>r. ~Returned(t) /\ ~Returned(t)'  BY <1>1 DEF Returned
<1>n. /\ ~Numbered(t, ch) /\ Numbered(t, ch)'
      /\ \A dh \in Channels : dh # ch => (Numbered(t, dh)' <=> Numbered(t, dh))
  BY <1>1, <1>r DEF Numbered, Channels
<1>e. c \in Conns  BY <1>i, <1>2, <1>x, LiveConn DEF Live
<1>3. /\ Alive(c) /\ down[c] = <<super[c].my_id>> /\ super[c].my_id \in Nat
      /\ super[c].my_id < used_ids
  <2>1. ServerRow(t, ch, c)  BY <1>i, <1>2, <1>x DEF ServerInv
  <2>2. Alive(c)  BY <1>a, <2>1 DEF ServerRow
  <2>3. super[c].my_id \in Nat
    BY <1>e, <1>i, <2>2 DEF Alive, SetupTypeOK, ServerTypeOK, SuperStates
  <2> QED BY <1>n, <2>1, <2>2, <2>3 DEF ServerRow
<1>4. Head(down[c]) = super[c].my_id /\ Tail(down[c]) = <<>>  BY <1>3
<1>5. /\ down' = [down EXCEPT ![c] = <<>>] /\ down'[c] = <<>>
      /\ \A d \in Conns : d # c => down'[d] = down[d]
  BY <1>a, <1>e, <1>4, <1>i DEF SetupTypeOK, WireTypeOK
<1>6. number'[t][ch] = super[c].my_id /\ \A dh \in Channels : dh # ch => number'[t][dh] = number[t][dh]
  BY <1>a, <1>4, <1>t
<1>7. SetupTypeOK'
  <2>1. at' \in [Threads -> Places]  BY <1>a, <1>t DEF Places, Both
  <2>2. number' \in [Threads -> [Channels -> Nat \cup {None}]]
    BY <1>a, <1>3, <1>4, <1>t
  <2>3. ClientTypeOK'  BY <1>i, <1>u, <2>1, <2>2 DEF SetupTypeOK, ClientTypeOK
  <2>4. down' \in [Conns -> Seq(Nat)]
    <3>1. <<>> \in Seq(Nat)  OBVIOUS
    <3> QED BY <1>i, <1>e, <1>5, <3>1 DEF SetupTypeOK, WireTypeOK
  <2>5. FrameType' = FrameType  BY DEF FrameType, Ids
  <2> QED BY <1>i, <1>u, <2>3, <2>4, <2>5, SameWireTypes DEF SetupTypeOK, WireTypeOK
<1>8. \A u \in Threads : u # t => ThreadSame(u)
  BY <1>a, <1>t, <1>u DEF ThreadSame
<1>s. \A u \in Threads, dh \in Channels :
        ConnOf(u, dh)' = ConnOf(u, dh) /\ BundleOf(u, dh)' = BundleOf(u, dh)
  BY <1>u DEF ConnOf, BundleOf
<1>9. SpawnInv'
  <2>1. SpawnRow(t)  BY <1>i DEF SpawnInv
  <2>2. \A dh \in Channels : HasId(t, dh)' <=> HasId(t, dh)
    BY <1>u, <1>1 DEF HasId, Returned, Both, Channels
  <2>3. SpawnRow(t)'  BY <1>u, <1>d, <1>r, <2>1, <2>2 DEF SpawnRow
  <2> QED BY <1>i, <1>8, <2>3, SpawnStays
<1>m. ASSUME NEW u \in Threads, NEW dh \in Channels
      PROVE  /\ Made(u, dh)' = Made(u, dh) /\ (Made(u, dh) => ConnOf(u, dh)' = ConnOf(u, dh))
             /\ Live(u, dh)' <=> Live(u, dh)
  <2>1. CASE u = t
    <3>1. Made(t, dh) /\ Made(t, dh)'  BY <1>2 DEF Live
    <3>2. Made(t, dh)' = Made(t, dh)  BY <3>1 DEF Made
    <3> QED BY <1>s, <1>2, <2>1, <3>2
  <2>2. CASE u # t  BY <1>8, <2>2, SameThread
  <2> QED BY <2>1, <2>2
<1>10. ConnsInv'  BY <1>i, <1>u, <1>m, ConnsStay
<1>11. FramesInv' /\ OrderInv'
  <2>1. \A dh \in Channels : said[t][dh] <= said'[t][dh]
    BY <1>i, <1>u DEF SetupTypeOK, ClientTypeOK
  <2>2. \A u \in Threads, dh \in Channels : \A d : \A g \in FrameType :
          Live(u, dh) /\ d = ConnOf(u, dh) /\ FrameOK(u, dh, d, g) => FrameOK(u, dh, d, g)'
    BY <1>2, <1>7, <1>8, <1>r, <1>u, <2>1, FrameKept
  <2> QED BY <1>i, <1>m, <1>s, <1>u, <2>2, FramesStay
<1>12. ASSUME NEW dh \in Channels, NEW d \in Conns, d = ConnOf(t, dh)'
       PROVE  ServerRow(t, dh, d)' /\ HeardRow(t, dh, d)' /\ Awaited(t, dh, d)'
  <2>1. Live(t, dh) /\ d = ConnOf(t, dh)  BY <1>2, <1>s, <1>12
  <2>2. ServerRow(t, dh, d) /\ HeardRow(t, dh, d) /\ Awaited(t, dh, d)
    BY <1>i, <2>1 DEF ServerInv, AwaitedInv
  <2>3. Alive(d)' = Alive(d) /\ Knows(d)' = Knows(d) /\ Ready(d)' = Ready(d)
    BY <1>u, SameServer
  <2>4. ~Knows(d)  BY <1>2, <2>2 DEF ServerRow
  <2>5. ServerRow(t, dh, d)'
    <3>1. CASE dh = ch
      <4>1. d = c  BY <1>x, <2>1, <3>1
      <4> QED BY <1>n, <1>u, <1>3, <1>5, <1>6, <2>2, <2>3, <2>4, <3>1, <4>1 DEF ServerRow
    <3>2. CASE dh # ch
      <4>1. d # c  BY <1>2, <1>i, <1>x, <2>1, <3>2, OneOwner
      <4> QED BY <1>n, <1>u, <1>5, <1>6, <2>2, <2>3, <2>4, <3>2, <4>1 DEF ServerRow
    <3> QED BY <3>1, <3>2
  <2>6. HeardRow(t, dh, d)'  BY <1>u, <2>2, <2>3 DEF HeardRow
  <2>7. Awaited(t, dh, d)'
    <3>1. \A k, v : OnWay(d, k, v)' <=> OnWay(d, k, v)  BY <1>u DEF OnWay
    <3> QED BY <1>2, <1>u, <2>2, <3>1 DEF Awaited
  <2> QED BY <2>5, <2>6, <2>7
<1>13. ServerInv' /\ HouseInv' /\ MeetInv' /\ PairsInv' /\ AwaitedInv'
  <2>1. \A d, k, v : d \in Conns /\ OnWay(d, k, v) => OnWay(d, k, v)'  BY <1>u DEF OnWay
  <2>2. LinksStay  BY <1>m, <1>s DEF LinksStay
  <2>3. \A d \in Conns : (\A dh \in Channels : Live(t, dh)' => d # ConnOf(t, dh)') =>
          down'[d] = down[d]
    BY <1>2, <1>5, <1>s, <1>x
  <2>4. Live(t, "control")' => Live(t, "control")  BY <1>m DEF Channels
  <2> QED BY <1>u, <1>7, <1>8, <1>9, <1>10, <1>12, <2>1, <2>2, <2>3, <2>4, ThreadKeeps
<1> QED BY <1>7, <1>9, <1>10, <1>11, <1>13 DEF SetupInv

LEMMA TellKeeps ==
  ASSUME Up, NEW t \in Threads, NEW ch \in Channels, TellRole(t, ch)
  PROVE  SetupInv'
<1>x. PICK c, f : c = ConnOf(t, ch) /\ f = Frame(c, "role", ch = "data", number[t][Other(ch)])
  OBVIOUS
<1>i. /\ SetupTypeOK /\ SpawnInv /\ ConnsInv /\ ServerInv /\ FramesInv /\ OrderInv /\ AwaitedInv
      /\ \A b \in Bundles : Len(up[b]) \in Nat
  BY UpFacts
<1>a. /\ \/ ch = "data" /\ at[t] = "tell1" /\ at' = [at EXCEPT ![t] = "tell2"]
         \/ ch = "control" /\ at[t] = "tell2" /\ at' = [at EXCEPT ![t] = "spawned"]
      /\ up' = [up EXCEPT ![c[1]] = Append(@, f)]
  BY <1>x DEF TellRole, Goes, Channels, Sends, PartnerNumber
<1>u. /\ UNCHANGED <<modulus, wants, current, unused, queues, first, id, number, said, overlapped,
                     clash, down>>
      /\ UNCHANGED <<used_ids, super, house, looking, pairs, heard>> /\ UNCHANGED serverVars
      /\ Bundles' = Bundles /\ Conns' = Conns
  BY DEF TellRole, historyVars, serverVars, Bundles, Conns, Ids
<1>t. at \in [Threads -> Places]  BY <1>i DEF SetupTypeOK, ClientTypeOK
<1>1. /\ ch = "data" => at[t] = "tell1" /\ at'[t] = "tell2"
      /\ ch = "control" => at[t] = "tell2" /\ at'[t] = "spawned"
      /\ ch = "data" \/ ch = "control"
  BY <1>a, <1>t
<1>d. wants[t] = "dual" /\ wants'[t] = "dual"
  BY <1>i, <1>u, <1>1 DEF SpawnInv, SpawnRow, SetupTypeOK, ClientTypeOK
<1>2. \A dh \in Channels : Live(t, dh) /\ Live(t, dh)' /\ Numbered(t, dh) /\ Numbered(t, dh)'
  BY <1>1, <1>d DEF Live, Made, Numbered, Returned, Both, Channels
<1>r. ~Returned(t) /\ (Returned(t)' <=> ch = "control")
  BY <1>1, <1>d DEF Returned
<1>n. /\ ~Told(t, ch) /\ Told(t, ch)'
      /\ \A dh \in Channels : dh # ch => (Told(t, dh)' <=> Told(t, dh)) /\ (Told(t, dh) => dh = "data")
  BY <1>1, <1>d, <1>r DEF Told, Channels
<1>e. c \in Conns /\ c[1] \in Bundles /\ c = <<c[1], c[2]>>
  BY <1>i, <1>2, <1>x, LiveConn, ConnTypes DEF Live
<1>3. ASSUME NEW dh \in Channels, NEW d, d = ConnOf(t, dh)
      PROVE  Alive(d) /\ number[t][dh] \in Nat
  <2>1. ServerRow(t, dh, d)  BY <1>i, <1>2, <1>3 DEF ServerInv
  <2>2. Alive(d) /\ number[t][dh] = super[d].my_id  BY <1>2, <2>1 DEF ServerRow
  <2>3. d \in Conns  BY <1>i, <1>2, <1>3, LiveConn DEF Live
  <2>4. super[d].my_id \in Nat
    BY <1>i, <2>2, <2>3 DEF Alive, SetupTypeOK, ServerTypeOK, SuperStates
  <2> QED BY <2>2, <2>4
<1>f. /\ f \in FrameType /\ f.id = c[2] /\ f.kind = "role"
      /\ f.is_data <=> ch = "data"
      /\ f.value = number[t][Other(ch)]
  <2>1. f = [id |-> c[2], kind |-> "role", is_data |-> ch = "data", value |-> number[t][Other(ch)]]
    BY <1>x DEF Frame
  <2>2. c[2] \in Ids  BY <1>e DEF Conns
  <2>3. number[t][Other(ch)] \in Nat  BY <1>3 DEF Other, Channels
  <2> QED BY <2>1, <2>2, <2>3 DEF FrameType, Kinds
<1>k. ~Knows(c)
  <2>1. ServerRow(t, ch, c)  BY <1>i, <1>2, <1>x DEF ServerInv
  <2> QED BY <1>n, <2>1 DEF ServerRow
<1>4. Added(c[1], f) /\ up' \in [Bundles -> Seq(FrameType)]
  BY <1>a, <1>e, <1>f, <1>i, SentIsAdded
<1>5. SetupTypeOK'
  <2>1. at' \in [Threads -> Places]  BY <1>a, <1>t DEF Places, Both
  <2>2. ClientTypeOK'  BY <1>i, <1>u, <2>1 DEF SetupTypeOK, ClientTypeOK
  <2>3. FrameType' = FrameType  BY DEF FrameType, Ids
  <2> QED BY <1>i, <1>u, <1>4, <2>2, <2>3, SameWireTypes DEF SetupTypeOK, WireTypeOK
<1>8. \A u \in Threads : u # t => ThreadSame(u)
  BY <1>a, <1>t, <1>u DEF ThreadSame
<1>s. \A u \in Threads, dh \in Channels :
        ConnOf(u, dh)' = ConnOf(u, dh) /\ BundleOf(u, dh)' = BundleOf(u, dh)
  BY <1>u DEF ConnOf, BundleOf
<1>9. SpawnInv'
  <2>1. SpawnRow(t)  BY <1>i DEF SpawnInv
  <2>2. \A dh \in Channels : HasId(t, dh)' <=> HasId(t, dh)
    BY <1>u, <1>d, <1>1 DEF HasId, Returned, Both, Channels
  <2>3. SpawnRow(t)'  BY <1>u, <1>d, <1>r, <2>1, <2>2 DEF SpawnRow
  <2> QED BY <1>i, <1>8, <2>3, SpawnStays
<1>m. ASSUME NEW u \in Threads, NEW dh \in Channels
      PROVE  /\ Made(u, dh)' = Made(u, dh) /\ (Made(u, dh) => ConnOf(u, dh)' = ConnOf(u, dh))
             /\ Live(u, dh)' <=> Live(u, dh)
  <2>1. CASE u = t
    <3>1. Made(t, dh) /\ Made(t, dh)'  BY <1>2 DEF Live
    <3>2. Made(t, dh)' = Made(t, dh)  BY <3>1 DEF Made
    <3> QED BY <1>s, <1>2, <2>1, <3>2
  <2>2. CASE u # t  BY <1>8, <2>2, SameThread
  <2> QED BY <2>1, <2>2
<1>10. ConnsInv'  BY <1>i, <1>u, <1>m, ConnsStay
<1>l. LinksStay  BY <1>m, <1>s DEF LinksStay
<1>11. FramesInv' /\ OrderInv'
  <2>1. \A dh \in Channels : said[t][dh] <= said'[t][dh]
    BY <1>i, <1>u DEF SetupTypeOK, ClientTypeOK
  <2>2. \A u \in Threads, dh \in Channels : \A d : \A g \in FrameType :
          Live(u, dh) /\ d = ConnOf(u, dh) /\ FrameOK(u, dh, d, g) => FrameOK(u, dh, d, g)'
    BY <1>5, <1>8, <1>n, <1>r, <1>u, <2>1, FrameKept
  <2>3. FrameOK(t, ch, c, f)'
    <3>1. Alive(c)' /\ ~Knows(c)'  BY <1>3, <1>k, <1>u, <1>x, SameServer
    <3> QED BY <1>f, <1>n, <1>u, <3>1 DEF FrameOK
  <2>4. ASSUME NEW dh \in Channels, NEW d, NEW g, FrameOK(t, dh, d, g)
        PROVE  Before(dh, g, ch, f)
    <3>1. g.kind # "message"  BY <1>r, <2>4 DEF FrameOK
    <3>2. g.kind = "role" => dh = "data" /\ ch = "control"
      BY <1>n, <1>1, <2>4 DEF FrameOK
    <3> QED BY <1>f, <3>1, <3>2 DEF Before
  <2>5. ConnOf(t, ch)' = c /\ c = <<c[1], f.id>>  BY <1>e, <1>f, <1>s, <1>x
  <2> QED BY <1>e, <1>i, <1>l, <1>u, <1>2, <1>4, <1>10, <2>2, <2>3, <2>4, <2>5, FramesGrow
<1>12. ASSUME NEW dh \in Channels, NEW d \in Conns, d = ConnOf(t, dh)'
       PROVE  ServerRow(t, dh, d)' /\ HeardRow(t, dh, d)' /\ Awaited(t, dh, d)'
  <2>1. Live(t, dh) /\ d = ConnOf(t, dh)  BY <1>2, <1>s, <1>12
  <2>2. ServerRow(t, dh, d) /\ HeardRow(t, dh, d) /\ Awaited(t, dh, d)
    BY <1>i, <2>1 DEF ServerInv, AwaitedInv
  <2>3. Alive(d)' = Alive(d) /\ Knows(d)' = Knows(d) /\ Ready(d)' = Ready(d)
    BY <1>u, SameServer
  <2>4. Told(t, dh) => Told(t, dh)'  BY <1>n
  <2>5. ServerRow(t, dh, d)'  BY <1>2, <1>u, <2>2, <2>3, <2>4 DEF ServerRow
  <2>6. HeardRow(t, dh, d)'  BY <1>u, <2>2, <2>3 DEF HeardRow
  <2>7. Awaited(t, dh, d)'
    <3>1. \A k, v : OnWay(d, k, v) => OnWay(d, k, v)'  BY <1>e, <1>i, <1>4, OnWayGrows
    <3>2. Told(t, dh)' => Knows(d)' \/ OnWay(d, "role", 0)'
      <4>1. CASE dh = ch
        <5>1. d = <<c[1], f.id>>  BY <1>e, <1>f, <1>x, <2>1, <4>1
        <5> QED BY <1>e, <1>f, <1>i, <1>4, <5>1, OnWayGrows
      <4>2. CASE dh # ch
        <5>1. Told(t, dh)' => Told(t, dh)  BY <1>n, <4>2
        <5> QED BY <2>2, <2>3, <3>1, <5>1 DEF Awaited
      <4> QED BY <4>1, <4>2
    <3> QED BY <1>u, <2>2, <3>1, <3>2 DEF Awaited
  <2> QED BY <2>5, <2>6, <2>7
<1>13. ServerInv' /\ HouseInv' /\ MeetInv' /\ PairsInv' /\ AwaitedInv'
  <2>1. \A d, k, v : d \in Conns /\ OnWay(d, k, v) => OnWay(d, k, v)'
    BY <1>e, <1>i, <1>4, OnWayGrows
  <2>4. Live(t, "control")' => Live(t, "control")  BY <1>m DEF Channels
  <2> QED BY <1>l, <1>u, <1>5, <1>8, <1>9, <1>10, <1>12, <2>1, <2>4, ThreadKeeps
<1> QED BY <1>5, <1>9, <1>10, <1>11, <1>13 DEF SetupInv

LEMMA SayKeeps ==
  ASSUME Up, NEW t \in Threads, NEW ch \in Channels, Say(t, ch)
  PROVE  SetupInv'
<1>x. PICK c, f : c = ConnOf(t, ch) /\ f = Frame(c, "message", FALSE, said[t][ch] + 1)
  OBVIOUS
<1>i. /\ SetupTypeOK /\ SpawnInv /\ ConnsInv /\ ServerInv /\ FramesInv /\ OrderInv /\ AwaitedInv
      /\ \A b \in Bundles : Len(up[b]) \in Nat
  BY UpFacts
<1>a. /\ wants[t] = "dual" /\ at[t] = "spawned"
      /\ said' = [said EXCEPT ![t][ch] = said[t][ch] + 1]
      /\ up' = [up EXCEPT ![c[1]] = Append(@, f)]
  BY <1>x DEF Say, Sends
<1>u. /\ UNCHANGED <<modulus, wants, current, unused, queues, at, first, id, number, overlapped,
                     clash, down>>
      /\ UNCHANGED <<used_ids, super, house, looking, pairs, heard>> /\ UNCHANGED serverVars
      /\ Bundles' = Bundles /\ Conns' = Conns
  BY DEF Say, historyVars, serverVars, Bundles, Conns, Ids
<1>t. said \in [Threads -> [Channels -> Nat]]  BY <1>i DEF SetupTypeOK, ClientTypeOK
<1>1. /\ said[t][ch] \in Nat /\ said'[t][ch] = said[t][ch] + 1
      /\ \A dh \in Channels : said[t][dh] \in Nat /\ said[t][dh] <= said'[t][dh]
      /\ \A dh \in Channels : dh # ch => said'[t][dh] = said[t][dh]
  BY <1>a, <1>t
<1>r. Returned(t) /\ Returned(t)'  BY <1>a, <1>u DEF Returned
<1>2. \A dh \in Channels : Live(t, dh) /\ Live(t, dh)' /\ Told(t, dh) /\ Told(t, dh)'
  BY <1>a, <1>r, <1>u DEF Live, Made, Told
<1>e. c \in Conns /\ c[1] \in Bundles /\ c = <<c[1], c[2]>>
  BY <1>i, <1>2, <1>x, LiveConn, ConnTypes DEF Live
<1>f. /\ f \in FrameType /\ f.id = c[2] /\ f.kind = "message"
      /\ f.value = said[t][ch] + 1
  <2>1. f = [id |-> c[2], kind |-> "message", is_data |-> FALSE, value |-> said[t][ch] + 1]
    BY <1>x DEF Frame
  <2>2. c[2] \in Ids  BY <1>e DEF Conns
  <2>3. said[t][ch] + 1 \in Nat  BY <1>1
  <2> QED BY <2>1, <2>2, <2>3 DEF FrameType, Kinds
<1>4. Added(c[1], f) /\ up' \in [Bundles -> Seq(FrameType)]
  BY <1>a, <1>e, <1>f, <1>i, SentIsAdded
<1>5. SetupTypeOK'
  <2>1. said' \in [Threads -> [Channels -> Nat]]  BY <1>a, <1>t, <1>1
  <2>2. ClientTypeOK'  BY <1>i, <1>u, <2>1 DEF SetupTypeOK, ClientTypeOK
  <2>3. FrameType' = FrameType  BY DEF FrameType, Ids
  <2> QED BY <1>i, <1>u, <1>4, <2>2, <2>3, SameWireTypes DEF SetupTypeOK, WireTypeOK
<1>8. \A u \in Threads : u # t => ThreadSame(u)
  BY <1>a, <1>t, <1>u DEF ThreadSame
<1>m. \A u \in Threads, dh \in Channels :
        /\ ConnOf(u, dh)' = ConnOf(u, dh) /\ BundleOf(u, dh)' = BundleOf(u, dh)
        /\ Made(u, dh)' = Made(u, dh) /\ Live(u, dh)' = Live(u, dh)
        /\ HasId(u, dh)' = HasId(u, dh)
  BY <1>u DEF ConnOf, BundleOf, Made, Live, HasId, Returned
<1>9. SpawnInv'
  <2>1. SpawnRow(t)  BY <1>i DEF SpawnInv
  <2>2. SpawnRow(t)'  BY <1>m, <1>r, <1>u, <2>1 DEF SpawnRow
  <2> QED BY <1>i, <1>8, <2>2, SpawnStays
<1>10. ConnsInv'  BY <1>i, <1>u, <1>m, ConnsStay
<1>l. LinksStay  BY <1>m DEF LinksStay
<1>h. ASSUME NEW dh \in Channels, NEW d, d = ConnOf(t, dh)
      PROVE  /\ d \in Conns /\ Len(heard[d]) \in Nat
             /\ ServerRow(t, dh, d) /\ HeardRow(t, dh, d) /\ Awaited(t, dh, d)
  <2>1. d \in Conns  BY <1>i, <1>2, <1>h, LiveConn DEF Live
  <2>2. Len(heard[d]) \in Nat
    BY <1>i, <2>1, LenProperties DEF SetupTypeOK, ServerTypeOK
  <2> QED BY <1>i, <1>2, <1>h, <2>1, <2>2 DEF ServerInv, AwaitedInv
<1>11. FramesInv' /\ OrderInv'
  <2>2. \A u \in Threads, dh \in Channels : \A d : \A g \in FrameType :
          Live(u, dh) /\ d = ConnOf(u, dh) /\ FrameOK(u, dh, d, g) => FrameOK(u, dh, d, g)'
    BY <1>1, <1>2, <1>5, <1>8, <1>r, <1>u, FrameKept
  <2>3. FrameOK(t, ch, c, f)'
    <3>1. Len(heard[c]) \in Nat /\ Len(heard[c]) <= said[t][ch]
      BY <1>h, <1>x DEF HeardRow
    <3>2. Len(heard'[c]) < f.value /\ f.value <= said'[t][ch]  BY <1>f, <1>u, <1>1, <3>1
    <3> QED BY <1>f, <1>r, <3>2 DEF FrameOK
  <2>4. ASSUME NEW dh \in Channels, NEW d, NEW g \in FrameType, FrameOK(t, dh, d, g)
        PROVE  Before(dh, g, ch, f)
    <3>1. g.value \in Nat  BY DEF FrameType
    <3>2. g.kind = "message" /\ dh = ch => g.value < f.value
      <4>1. g.kind = "message" /\ dh = ch => g.value <= said[t][ch]  BY <2>4 DEF FrameOK
      <4> QED BY <1>1, <1>f, <3>1, <4>1
    <3> QED BY <1>f, <3>2 DEF Before
  <2>5. ConnOf(t, ch)' = c /\ c = <<c[1], f.id>>  BY <1>e, <1>f, <1>m, <1>x
  <2> QED BY <1>e, <1>i, <1>l, <1>u, <1>2, <1>4, <1>10, <2>2, <2>3, <2>4, <2>5, FramesGrow
<1>12. ASSUME NEW dh \in Channels, NEW d \in Conns, d = ConnOf(t, dh)'
       PROVE  ServerRow(t, dh, d)' /\ HeardRow(t, dh, d)' /\ Awaited(t, dh, d)'
  <2>1. d = ConnOf(t, dh)  BY <1>m, <1>12
  <2>2. /\ Len(heard[d]) \in Nat
        /\ ServerRow(t, dh, d) /\ HeardRow(t, dh, d) /\ Awaited(t, dh, d)
    BY <1>h, <2>1
  <2>3. Alive(d)' = Alive(d) /\ Knows(d)' = Knows(d) /\ Ready(d)' = Ready(d)
    BY <1>u, SameServer
  <2>4. Numbered(t, dh)' = Numbered(t, dh)  BY <1>u DEF Numbered, Returned
  <2>5. ServerRow(t, dh, d)'  BY <1>2, <1>u, <2>2, <2>3, <2>4 DEF ServerRow
  <2>6. HeardRow(t, dh, d)'
    <3>1. Len(heard[d]) <= said'[t][dh]
      <4>1. Len(heard[d]) <= said[t][dh]  BY <2>2 DEF HeardRow
      <4>2. said[t][dh] \in Nat /\ said'[t][dh] \in Nat
        BY <1>1, <1>5 DEF SetupTypeOK, ClientTypeOK
      <4> QED BY <1>1, <2>2, <4>1, <4>2
    <3> QED BY <1>u, <2>2, <2>3, <3>1 DEF HeardRow
  <2>7. Awaited(t, dh, d)'
    <3>1. \A k, v : OnWay(d, k, v) => OnWay(d, k, v)'  BY <1>e, <1>i, <1>4, OnWayGrows
    <3>2. ASSUME NEW v \in Nat, Len(heard[d]) < v, v <= said'[t][dh]
          PROVE  OnWay(d, "message", v)'
      <4>1. CASE v <= said[t][dh]  BY <2>2, <3>1, <3>2, <4>1 DEF Awaited
      <4>2. CASE ~(v <= said[t][dh])
        <5>1. dh = ch /\ v = f.value  BY <1>1, <1>f, <3>2, <4>2
        <5>2. d = <<c[1], f.id>>  BY <1>e, <1>f, <1>x, <2>1, <5>1
        <5> QED BY <1>e, <1>f, <1>i, <1>4, <5>1, <5>2, OnWayGrows
      <4> QED BY <4>1, <4>2
    <3>3. Told(t, dh)' => Knows(d)' \/ OnWay(d, "role", 0)'  BY <1>2, <2>2, <2>3, <3>1 DEF Awaited
    <3> QED BY <1>u, <3>2, <3>3 DEF Awaited
  <2> QED BY <2>5, <2>6, <2>7
<1>13. ServerInv' /\ HouseInv' /\ MeetInv' /\ PairsInv' /\ AwaitedInv'
  <2>1. \A d, k, v : d \in Conns /\ OnWay(d, k, v) => OnWay(d, k, v)'
    BY <1>e, <1>i, <1>4, OnWayGrows
  <2>4. Live(t, "control")' => Live(t, "control")  BY <1>m DEF Channels
  <2> QED BY <1>l, <1>u, <1>5, <1>8, <1>9, <1>10, <1>12, <2>1, <2>4, ThreadKeeps
<1> QED BY <1>5, <1>9, <1>10, <1>11, <1>13 DEF SetupInv

----------------------------------------------------------------------------
(* The steps of the server.                                                *)

LEMMA ServerLinks ==
  ASSUME Up, UNCHANGED clientVars
  PROVE  /\ ClientTypeOK' /\ SpawnInv' /\ ConnsInv' /\ LinksStay
         /\ Bundles' = Bundles /\ Conns' = Conns /\ FrameType' = FrameType
         /\ \A t \in Threads, ch \in Channels :
              /\ SameLink(t, ch) /\ Live(t, ch)' = Live(t, ch) /\ ConnOf(t, ch)' = ConnOf(t, ch)
              /\ BundleOf(t, ch)' = BundleOf(t, ch)
              /\ Numbered(t, ch)' = Numbered(t, ch) /\ Told(t, ch)' = Told(t, ch)
<1>i. SetupTypeOK /\ SpawnInv /\ ConnsInv  BY UpFacts
<1>u. /\ UNCHANGED <<modulus, current, unused, queues, wants, at, first, id, number, said,
                     overlapped, clash>>
      /\ Bundles' = Bundles /\ Conns' = Conns /\ FrameType' = FrameType
  BY DEF clientVars, historyVars, Bundles, Conns, FrameType, Ids
<1>1. \A t \in Threads : ThreadSame(t)  BY <1>u DEF ThreadSame
<1>2. \A t \in Threads, ch \in Channels :
        /\ SameLink(t, ch) /\ Live(t, ch)' = Live(t, ch) /\ ConnOf(t, ch)' = ConnOf(t, ch)
        /\ BundleOf(t, ch)' = BundleOf(t, ch) /\ Made(t, ch)' = Made(t, ch)
        /\ Numbered(t, ch)' = Numbered(t, ch) /\ Told(t, ch)' = Told(t, ch)
  BY <1>1, SameThread, SameThreadLink
<1>3. ClientTypeOK'  BY <1>i, <1>u DEF SetupTypeOK, ClientTypeOK
<1>4. SpawnInv'
  <2>1. \A t \in Threads : SpawnRow(t)'
    BY <1>i, <1>u DEF SpawnInv, SpawnRow, HasId, Returned
  <2> QED BY <2>1 DEF SpawnInv
<1>5. ConnsInv'  BY <1>i, <1>u, <1>2, ConnsStay
<1>6. LinksStay  BY <1>2 DEF LinksStay
<1> QED BY <1>u, <1>2, <1>3, <1>4, <1>5, <1>6

\* What a step leaves of a connection it is not about.
Untouched(d) == super'[d] = super[d] /\ down'[d] = down[d] /\ heard'[d] = heard[d]

LEMMA UntouchedKeeps ==
  ASSUME SetupTypeOK, used_ids' \in Nat, used_ids <= used_ids',
         NEW t \in Threads, NEW ch \in Channels, Live(t, ch), SameLink(t, ch),
         NEW d \in Conns, Untouched(d)
  PROVE  /\ ServerRow(t, ch, d) => ServerRow(t, ch, d)'
         /\ HeardRow(t, ch, d) => HeardRow(t, ch, d)'
         /\ \A f : FrameOK(t, ch, d, f) => FrameOK(t, ch, d, f)'
<1>1. /\ Numbered(t, ch)' = Numbered(t, ch) /\ Told(t, ch)' = Told(t, ch)
      /\ Returned(t)' = Returned(t) /\ number'[t] = number[t] /\ said'[t] = said[t]
  BY DEF SameLink
<1>2. super'[d] = super[d] /\ down'[d] = down[d] /\ heard'[d] = heard[d]  BY DEF Untouched
<1>3. Alive(d)' = Alive(d) /\ Knows(d)' = Knows(d) /\ Ready(d)' = Ready(d)
  BY <1>2 DEF Alive, Knows, Ready
<1>4. Alive(d) => super[d].my_id \in Nat
  BY DEF SetupTypeOK, ServerTypeOK, Alive, SuperStates
<1>5. used_ids \in Nat  BY DEF SetupTypeOK, ServerTypeOK
<1>6. ServerRow(t, ch, d) => ServerRow(t, ch, d)'
  BY <1>1, <1>2, <1>3, <1>4, <1>5 DEF ServerRow
<1>7. HeardRow(t, ch, d) => HeardRow(t, ch, d)'  BY <1>1, <1>2, <1>3 DEF HeardRow
<1>8. \A f : FrameOK(t, ch, d, f) => FrameOK(t, ch, d, f)'  BY <1>1, <1>2, <1>3 DEF FrameOK
<1> QED BY <1>6, <1>7, <1>8

\* The first frame of a bundle is of the thread whose connection it names.
HeadOf(b, c, t, ch, f) ==
  /\ Live(t, ch) /\ c = ConnOf(t, ch) /\ c \in Conns /\ c = <<b, f.id>> /\ c[1] = b
  /\ f = up[b][1] /\ f = Head(up[b]) /\ f \in FrameType /\ 1 \in 1..Len(up[b])
  /\ Owns(t, ch, b, f) /\ FrameOK(t, ch, c, f) /\ looking[b] = None
  /\ ServerRow(t, ch, c) /\ HeardRow(t, ch, c) /\ Awaited(t, ch, c)

LEMMA HeadFrame ==
  ASSUME Up, NEW b \in Bundles, NEW c, Receives(b, c)
  PROVE  \E t \in Threads, ch \in Channels : \E f : HeadOf(b, c, t, ch, f)
<1>i. SetupTypeOK /\ SpawnInv /\ FramesInv /\ ServerInv /\ AwaitedInv  BY UpFacts
<1>1. up[b] \in Seq(FrameType) /\ up[b] # <<>>
  BY <1>i DEF SetupTypeOK, WireTypeOK, Receives
<1>2. PICK f : f = Head(up[b])  OBVIOUS
<1>3. f = up[b][1] /\ f \in FrameType  BY <1>1, <1>2, HeadTailProperties
<1>4. 1 \in 1..Len(up[b])
  <2>1. Len(up[b]) \in Nat /\ Len(up[b]) # 0  BY <1>1, EmptySeq, LenProperties
  <2> QED BY <2>1
<1>5. PICK t \in Threads, ch \in Channels : Owns(t, ch, b, f)  BY <1>i, <1>3, <1>4 DEF FramesInv
<1>6. Live(t, ch) /\ ConnOf(t, ch) = <<b, f.id>>  BY <1>5 DEF Owns
<1>7. c = ConnOf(t, ch) /\ looking[b] = None  BY <1>2, <1>6 DEF Receives
<1>8. c \in Conns  BY <1>i, <1>6, <1>7, LiveConn DEF Live
<1>9. FrameOK(t, ch, c, f)  BY <1>i, <1>3, <1>4, <1>5, <1>7 DEF FramesInv
<1>10. ServerRow(t, ch, c) /\ HeardRow(t, ch, c) /\ Awaited(t, ch, c)
  BY <1>i, <1>6, <1>7 DEF ServerInv, AwaitedInv
<1> QED BY <1>2, <1>3, <1>4, <1>5, <1>6, <1>7, <1>8, <1>9, <1>10 DEF HeadOf

\* The other frames of the connection come after the first one.
LEMMA BehindHead ==
  ASSUME Up, NEW b \in Bundles, NEW c, NEW t \in Threads, NEW ch \in Channels, NEW f,
         HeadOf(b, c, t, ch, f),
         NEW x \in Bundles, NEW i \in 1..Len(up[x]), x # b \/ i # 1, Owns(t, ch, x, up[x][i])
  PROVE  Before(ch, f, ch, up[x][i])
<1>i. OrderInv /\ Len(up[b]) \in Nat  BY UpFacts
<1>2. x = b
  <2>1. c = <<x, up[x][i].id>>  BY DEF Owns, HeadOf
  <2> QED BY <2>1 DEF HeadOf
<1>3. 1 < i /\ 1 \in 1..Len(up[b])  BY <1>i, <1>2
<1> QED BY <1>i, <1>2, <1>3 DEF OrderInv, HeadOf

\* A role that is awaited is not behind a message, and not behind the other role
\* unless it is the control connection's.
LEMMA RoleBehind ==
  ASSUME Up, NEW b \in Bundles, NEW c, NEW t \in Threads, NEW ch \in Channels, NEW f,
         HeadOf(b, c, t, ch, f), NEW dh \in Channels, Live(t, dh), NEW d, d = ConnOf(t, dh),
         Told(t, dh), ~Knows(d)
  PROVE  /\ f.kind # "message"
         /\ f.kind = "role" => ch = dh \/ ch = "data"
<1>i. SetupTypeOK /\ SpawnInv /\ ConnsInv /\ OrderInv /\ AwaitedInv /\ Len(up[b]) \in Nat
  BY UpFacts
<1>1. OnWay(d, "role", 0)  BY <1>i DEF AwaitedInv, Awaited
<1>2. d[1] = b
  <2>1. d[1] = BundleOf(t, dh) /\ ConnOf(t, ch)[1] = BundleOf(t, ch)
    BY <1>i, LiveConn DEF Live, HeadOf
  <2>2. BundleOf(t, ch) = BundleOf(t, dh)  BY DEF BundleOf
  <2> QED BY <2>1, <2>2 DEF HeadOf
<1>3. PICK i \in 1..Len(up[b]) : up[b][i].id = d[2] /\ up[b][i].kind = "role"
  BY <1>1, <1>2 DEF OnWay
<1>4. PICK g : g = up[b][i]  OBVIOUS
<1>5. Owns(t, dh, b, g)
  <2>1. d = <<d[1], d[2]>>
    <3>1. d \in Conns  BY <1>i, LiveConn DEF Live
    <3> QED BY <1>i, <3>1, ConnTypes
  <2> QED BY <1>2, <1>3, <1>4, <2>1 DEF Owns
<1>6. CASE i = 1
  <2>1. g = f  BY <1>4, <1>6 DEF HeadOf
  <2>2. ConnOf(t, ch) = ConnOf(t, dh)  BY <1>5, <2>1 DEF Owns, HeadOf
  <2>3. ch = dh  BY <1>i, <2>2, OneOwner DEF HeadOf
  <2> QED BY <1>3, <1>4, <2>1, <2>3
<1>7. CASE i # 1
  <2>1. 1 < i /\ 1 \in 1..Len(up[b])  BY <1>7, <1>i
  <2>2. Owns(t, ch, b, up[b][1]) /\ f = up[b][1]  BY DEF HeadOf
  <2>3. Before(ch, f, dh, g)  BY <1>4, <1>5, <1>i, <2>1, <2>2 DEF OrderInv
  <2> QED BY <1>3, <1>4, <2>3 DEF Before
<1> QED BY <1>6, <1>7

\* What a thread tells a connection is the number of its other connection.
LEMMA RoleGiven ==
  ASSUME Up, NEW t \in Threads, NEW ch \in Channels, Live(t, ch), Told(t, ch),
         NEW d, d = ConnOf(t, Other(ch)), Alive(ConnOf(t, ch))
  PROVE  /\ Other(ch) \in Channels /\ Live(t, Other(ch)) /\ Live(t, "control")
         /\ d \in Conns /\ Alive(d) /\ number[t][Other(ch)] = super[d].my_id
         /\ super[d].my_id \in Nat /\ super[d].my_id < used_ids
         /\ super[d].my_id # super[ConnOf(t, ch)].my_id
<1>i. SetupTypeOK /\ SpawnInv /\ ConnsInv /\ ServerInv  BY UpFacts
<1>1. Other(ch) \in Channels /\ Other(ch) # ch  BY DEF Other, Channels
<1>2. /\ Live(t, Other(ch)) /\ Live(t, "control") /\ Numbered(t, Other(ch))
  BY DEF Live, Made, Told, Numbered, Returned, Both, Other, Channels
<1>3. d \in Conns /\ ConnOf(t, ch) \in Conns  BY <1>i, <1>1, <1>2, LiveConn DEF Live
<1>4. ServerRow(t, Other(ch), d)  BY <1>i, <1>1, <1>2 DEF ServerInv
<1>5. Alive(d) /\ number[t][Other(ch)] = super[d].my_id /\ super[d].my_id < used_ids
  BY <1>2, <1>4 DEF ServerRow
<1>6. super[d].my_id \in Nat
  BY <1>i, <1>3, <1>5 DEF SetupTypeOK, ServerTypeOK, Alive, SuperStates
<1>7. d # ConnOf(t, ch)  BY <1>i, <1>1, <1>2, OneOwner
<1>8. super[d].my_id # super[ConnOf(t, ch)].my_id  BY <1>i, <1>3, <1>5, <1>7 DEF ServerInv
<1> QED BY <1>1, <1>2, <1>3, <1>5, <1>6, <1>8

\* The first message of a super_state is its role.
LEMMA RoleFirst ==
  ASSUME Up, NEW b \in Bundles, NEW c, NEW t \in Threads, NEW ch \in Channels, NEW f,
         HeadOf(b, c, t, ch, f), Alive(c), ~Ready(c)
  PROVE  f.kind = "role" /\ ~Knows(c) /\ super[c].my_partner = -1
<1>i. SetupTypeOK /\ SpawnInv /\ MeetInv  BY UpFacts
<1>f. FrameOK(t, ch, c, f) /\ f.kind \in Kinds  BY DEF HeadOf, FrameType
<1>1. f.kind # "empty"  BY <1>f DEF FrameOK
<1>2. ASSUME f.kind = "message" PROVE FALSE
  <2>1. Returned(t)  BY <1>2, <1>f DEF FrameOK
  <2>2. Live(t, "data") /\ Live(t, "control") /\ Told(t, "data") /\ Told(t, "control")
    BY <2>1 DEF Live, Made, Told, Returned
  <2>3. PICK d, k : d = ConnOf(t, "data") /\ k = ConnOf(t, "control")  OBVIOUS
  <2>4. Knows(d) /\ Knows(k)  BY <1>2, <2>2, <2>3, RoleBehind DEF Channels
  <2>5. Meet(t, d, k)  BY <1>i, <2>2, <2>3 DEF MeetInv
  <2>6. BundleOf(t, "data") = b
    <3>1. ConnOf(t, ch)[1] = BundleOf(t, ch)  BY <1>i, LiveConn DEF HeadOf, Live
    <3>2. BundleOf(t, ch) = BundleOf(t, "data")  BY DEF BundleOf
    <3> QED BY <3>1, <3>2 DEF HeadOf
  <2>7. k \in Conns /\ k # None
    <3>1. k \in Conns  BY <1>i, <2>2, <2>3, LiveConn DEF Live, Channels
    <3> QED BY <1>i, <3>1, ConnTypes
  <2>8. Ready(k) /\ Ready(d)  BY <2>4, <2>5, <2>6, <2>7 DEF Meet, HeadOf
  <2>9. c = d \/ c = k  BY <2>3 DEF HeadOf, Channels
  <2> QED BY <2>8, <2>9
<1>3. f.kind = "role"  BY <1>1, <1>2, <1>f DEF Kinds
<1>4. ~Knows(c)  BY <1>3, <1>f DEF FrameOK
<1> QED BY <1>3, <1>4 DEF Knows

\* What holds after a step about some connections only.
OthersUntouched(S) == \A d \in Conns : d \notin S => Untouched(d)
NumbersDiffer ==
  \A d, e \in Conns : Alive(d) /\ Alive(e) /\ super[d].my_id = super[e].my_id => d = e
LaterFramesKept(t, ch, c, f) ==
  \A g \in FrameType : FrameOK(t, ch, c, g) /\ Before(ch, f, ch, g) => FrameOK(t, ch, c, g)'

LEMMA ServerKeeps ==
  ASSUME Up, UNCHANGED clientVars, used_ids' \in Nat, used_ids <= used_ids',
         NEW S, S \subseteq Conns, OthersUntouched(S),
         \A d \in S : \E t \in Threads, ch \in Channels : Live(t, ch) /\ d = ConnOf(t, ch),
         \A t \in Threads, ch \in Channels : \A d \in S : Live(t, ch) /\ d = ConnOf(t, ch) =>
           ServerRow(t, ch, d)' /\ HeardRow(t, ch, d)',
         NumbersDiffer'
  PROVE  ServerInv'
<1>i. SetupTypeOK /\ SpawnInv /\ ServerInv  BY UpFacts
<1>l. /\ Conns' = Conns
      /\ \A t \in Threads, ch \in Channels :
           SameLink(t, ch) /\ Live(t, ch)' = Live(t, ch) /\ ConnOf(t, ch)' = ConnOf(t, ch)
  BY ServerLinks
<1>1. ASSUME NEW t \in Threads, NEW ch \in Channels, Live(t, ch)'
      PROVE  ServerRow(t, ch, ConnOf(t, ch))' /\ HeardRow(t, ch, ConnOf(t, ch))'
  <2>1. PICK d : d = ConnOf(t, ch)  OBVIOUS
  <2>2. Live(t, ch) /\ ConnOf(t, ch)' = d /\ SameLink(t, ch)  BY <1>1, <1>l, <2>1
  <2>3. d \in Conns  BY <1>i, <2>1, <2>2, LiveConn DEF Live
  <2>4. ServerRow(t, ch, d)' /\ HeardRow(t, ch, d)'
    <3>1. CASE d \in S  BY <2>1, <2>2, <3>1
    <3>2. CASE d \notin S
      <4>1. ServerRow(t, ch, d) /\ HeardRow(t, ch, d)  BY <1>i, <2>1, <2>2 DEF ServerInv
      <4>2. Untouched(d)  BY <2>3, <3>2 DEF OthersUntouched
      <4> QED BY <1>i, <2>2, <2>3, <4>1, <4>2, UntouchedKeeps
    <3> QED BY <3>1, <3>2
  <2> QED BY <2>2, <2>4 DEF ServerRow, HeardRow, Alive, Knows, Ready
<1>2. ASSUME NEW d \in Conns
      PROVE  \/ \E t \in Threads, ch \in Channels : Live(t, ch)' /\ d = ConnOf(t, ch)'
             \/ ~Alive(d)' /\ down'[d] = <<>> /\ heard'[d] = <<>>
  <2>1. CASE d \in S  BY <1>l, <2>1
  <2>2. CASE d \notin S
    <3>1. Alive(d)' = Alive(d) /\ down'[d] = down[d] /\ heard'[d] = heard[d]
      BY <2>2 DEF OthersUntouched, Untouched, Alive
    <3>2. \/ \E t \in Threads, ch \in Channels : Live(t, ch) /\ d = ConnOf(t, ch)
          \/ ~Alive(d) /\ down[d] = <<>> /\ heard[d] = <<>>
      BY <1>i DEF ServerInv
    <3> QED BY <1>l, <3>1, <3>2
  <2> QED BY <2>1, <2>2
<1> QED BY <1>l, <1>1, <1>2 DEF ServerInv, NumbersDiffer

\* A step that handles the first frame of a bundle and is about its connection.
LEMMA HandleKeeps ==
  ASSUME Up, UNCHANGED clientVars, NEW b \in Bundles, NEW c, NEW t \in Threads, NEW ch \in Channels,
         NEW f, HeadOf(b, c, t, ch, f), Pops(b), down' \in [Conns -> Seq(Nat)], ServerTypeOK',
         used_ids <= used_ids', OthersUntouched({c}),
         ServerRow(t, ch, c)', HeardRow(t, ch, c)', Awaited(t, ch, c)',
         LaterFramesKept(t, ch, c, f),
         NumbersDiffer'
  PROVE  /\ SetupTypeOK' /\ SpawnInv' /\ ConnsInv' /\ ServerInv'
         /\ FramesInv' /\ OrderInv' /\ AwaitedInv'
<1>i. /\ SetupTypeOK /\ SpawnInv /\ ConnsInv /\ FramesInv /\ OrderInv /\ AwaitedInv
  BY UpFacts
<1>l. /\ ClientTypeOK' /\ SpawnInv' /\ ConnsInv' /\ Conns' = Conns /\ Bundles' = Bundles
      /\ FrameType' = FrameType
      /\ \A u \in Threads, dh \in Channels :
           /\ SameLink(u, dh) /\ Live(u, dh)' = Live(u, dh) /\ ConnOf(u, dh)' = ConnOf(u, dh)
           /\ Told(u, dh)' = Told(u, dh)
  BY ServerLinks
<1>h. Live(t, ch) /\ c = ConnOf(t, ch) /\ c \in Conns /\ up[b] # <<>> /\ f = up[b][1]
      /\ c = <<b, f.id>>
  <2>1. up[b] # <<>>
    <3>1. up[b] \in Seq(FrameType) /\ 1 \in 1..Len(up[b])
      BY <1>i DEF SetupTypeOK, WireTypeOK, HeadOf
    <3> QED BY <3>1
  <2> QED BY <2>1 DEF HeadOf
<1>p. /\ Popped(b) /\ up' \in [Bundles -> Seq(FrameType)]
      /\ \A x \in Bundles : Len(up[x]) \in Nat /\ Len(up'[x]) \in Nat
  BY <1>h, <1>i, HandledIsPopped
<1>o. \A u \in Threads, dh \in Channels : Live(u, dh) /\ c = ConnOf(u, dh) => u = t /\ dh = ch
  BY <1>h, <1>i, OneOwner
<1>n. used_ids' \in Nat  BY DEF ServerTypeOK
<1>1. SetupTypeOK'  BY <1>l, <1>p DEF SetupTypeOK, WireTypeOK
<1>2. ServerInv'
  <2> PICK S : S = {c}  OBVIOUS
  <2>1. S \subseteq Conns /\ OthersUntouched(S)  BY <1>h
  <2>2. \A d \in S : \E u \in Threads, dh \in Channels : Live(u, dh) /\ d = ConnOf(u, dh)
    BY <1>h
  <2>3. \A u \in Threads, dh \in Channels : \A d \in S : Live(u, dh) /\ d = ConnOf(u, dh) =>
          ServerRow(u, dh, d)' /\ HeardRow(u, dh, d)'
    <3> SUFFICES ASSUME NEW u \in Threads, NEW dh \in Channels, Live(u, dh), c = ConnOf(u, dh)
                 PROVE  ServerRow(u, dh, c)' /\ HeardRow(u, dh, c)'
      OBVIOUS
    <3>1. u = t /\ dh = ch  BY <1>o
    <3> QED BY <3>1
  <2> QED BY <1>n, <2>1, <2>2, <2>3, ServerKeeps
<1>3. FramesInv' /\ OrderInv'
  <2>1. ASSUME NEW x \in Bundles, NEW i \in 1..Len(up[x]), x # b \/ i # 1,
               NEW u \in Threads, NEW dh \in Channels, NEW d, NEW g,
               Owns(u, dh, x, g), g = up[x][i], d = ConnOf(u, dh)
        PROVE  FrameOK(u, dh, d, g)'
    <3>1. FrameOK(u, dh, d, g) /\ Live(u, dh)  BY <1>i, <2>1 DEF FramesInv, Owns
    <3>2. d \in Conns  BY <1>i, <2>1, <3>1, LiveConn DEF Live
    <3>3. g \in FrameType
      <4>1. up[x] \in Seq(FrameType)  BY <1>i DEF SetupTypeOK, WireTypeOK
      <4> QED BY <2>1, <4>1
    <3>4. CASE d = c
      <4>1. u = t /\ dh = ch  BY <1>o, <2>1, <3>1, <3>4
      <4>2. Before(ch, f, ch, up[x][i])  BY <2>1, <4>1, BehindHead
      <4> QED BY <2>1, <3>1, <3>3, <3>4, <4>1, <4>2 DEF LaterFramesKept
    <3>5. CASE d # c
      <4>1. Untouched(d)  BY <3>2, <3>5 DEF OthersUntouched
      <4> QED BY <1>i, <1>l, <1>n, <3>1, <3>2, <4>1, UntouchedKeeps
    <3> QED BY <3>4, <3>5
  <2>2. UNCHANGED modulus  BY DEF clientVars
  <2> QED BY <1>i, <1>l, <1>p, <2>1, <2>2, FramesShrink
<1>4. AwaitedInv'
  <2> SUFFICES ASSUME NEW u \in Threads, NEW dh \in Channels, Live(u, dh)'
               PROVE  Awaited(u, dh, ConnOf(u, dh))'
    BY DEF AwaitedInv
  <2>1. PICK d : d = ConnOf(u, dh)  OBVIOUS
  <2>2. Live(u, dh) /\ ConnOf(u, dh)' = d  BY <1>l, <2>1
  <2>3. Awaited(u, dh, d) /\ d \in Conns
    BY <1>i, <2>1, <2>2, LiveConn DEF AwaitedInv, Live
  <2>4. Awaited(u, dh, d)'
    <3>1. CASE d = c
      <4>1. u = t /\ dh = ch  BY <1>o, <2>1, <2>2, <3>1
      <4> QED BY <3>1, <4>1
    <3>2. CASE d # c
      <4>1. \A k, v : OnWay(d, k, v) => OnWay(d, k, v)'
        BY <1>h, <1>p, <2>3, <3>2, OnWayShrinks
      <4>2. heard'[d] = heard[d] /\ Knows(d)' = Knows(d)
        BY <2>3, <3>2 DEF OthersUntouched, Untouched, Knows, Alive
      <4>3. Told(u, dh)' = Told(u, dh) /\ said'[u] = said[u]  BY <1>l, <2>2 DEF SameLink
      <4> QED BY <2>3, <4>1, <4>2, <4>3 DEF Awaited
    <3> QED BY <3>1, <3>2
  <2> QED BY <2>2, <2>4 DEF Awaited, Knows, Alive, OnWay
<1> QED BY <1>l, <1>1, <1>2, <1>3, <1>4

\* The two connections of a thread, where a step changes nothing for them.
LEMMA MeetKept ==
  ASSUME NEW t \in Threads, NEW d, NEW c, Meet(t, d, c), UNCHANGED <<first, modulus>>,
         Knows(d)' = Knows(d), Ready(d)' = Ready(d), Knows(c)' = Knows(c), Ready(c)' = Ready(c),
         \A x \in {c, d} :
           looking'[BundleOf(t, "data")] = x <=> looking[BundleOf(t, "data")] = x
  PROVE  Meet(t, d, c)'
<1>1. BundleOf(t, "data")' = BundleOf(t, "data")  BY DEF BundleOf
<1>2. PICK b : b = BundleOf(t, "data")  OBVIOUS
<1>3. /\ looking'[b] = c <=> looking[b] = c
      /\ looking'[b] = d <=> looking[b] = d
  BY <1>2
<1> QED BY <1>1, <1>2, <1>3 DEF Meet

LEMMA MeetSame ==
  ASSUME Up, UNCHANGED clientVars, UNCHANGED looking,
         \A d \in Conns : Knows(d)' = Knows(d) /\ Ready(d)' = Ready(d)
  PROVE  MeetInv'
<1>i. SetupTypeOK /\ SpawnInv /\ MeetInv  BY UpFacts
<1>l. /\ Bundles' = Bundles
      /\ \A t \in Threads, ch \in Channels :
           /\ Live(t, ch)' = Live(t, ch) /\ ConnOf(t, ch)' = ConnOf(t, ch)
           /\ BundleOf(t, ch)' = BundleOf(t, ch)
  BY ServerLinks
<1>1. ASSUME NEW t \in Threads, Live(t, "control")'
      PROVE  Meet(t, ConnOf(t, "data"), ConnOf(t, "control"))'
  <2>1. PICK d, c : d = ConnOf(t, "data") /\ c = ConnOf(t, "control")  OBVIOUS
  <2>2. Live(t, "control") /\ ConnOf(t, "data")' = d /\ ConnOf(t, "control")' = c
    BY <1>1, <1>l, <2>1 DEF Channels
  <2>3. Meet(t, d, c)  BY <1>i, <2>1, <2>2 DEF MeetInv
  <2>4. d \in Conns /\ c \in Conns
    BY <1>i, <2>1, <2>2, ControlAfterData, LiveConn DEF Live, Channels
  <2>5. UNCHANGED <<first, modulus>>  BY DEF clientVars
  <2>6. Meet(t, d, c)'
    <3>1. Knows(d)' = Knows(d) /\ Ready(d)' = Ready(d) /\ Knows(c)' = Knows(c) /\ Ready(c)' = Ready(c)
      BY <2>4
    <3> QED BY <2>3, <2>5, <3>1, MeetKept
  <2> QED BY <2>2, <2>6 DEF Meet, Knows, Ready, Alive
<1>2. ASSUME NEW b \in Bundles, looking[b] # None
      PROVE  \E t \in Threads, ch \in Channels :
               Live(t, ch)' /\ Live(t, "control")' /\ b = BundleOf(t, ch)' /\ looking[b] = ConnOf(t, ch)'
  <2>1. PICK t \in Threads, ch \in Channels :
          Live(t, ch) /\ Live(t, "control") /\ b = BundleOf(t, ch) /\ looking[b] = ConnOf(t, ch)
    BY <1>i, <1>2, Zenon DEF MeetInv
  <2> QED BY <1>l, <2>1 DEF Channels
<1> QED BY <1>l, <1>1, <1>2 DEF MeetInv

\* The numbers given so far.
LEMMA GivenNumbers ==
  ASSUME Up
  PROVE  /\ used_ids \in Nat
         /\ \A d \in Conns : Alive(d) =>
              /\ super[d] \in SuperStates /\ super[d].my_id \in Nat /\ super[d].my_id < used_ids
              /\ super[d].my_id \in DOMAIN house
<1>i. SetupTypeOK /\ ServerInv /\ HouseInv  BY UpFacts
<1>1. ASSUME NEW d \in Conns, Alive(d)
      PROVE  /\ super[d] \in SuperStates /\ super[d].my_id \in Nat /\ super[d].my_id < used_ids
             /\ super[d].my_id \in DOMAIN house
  <2>1. super[d] \in SuperStates  BY <1>i, <1>1 DEF SetupTypeOK, ServerTypeOK, Alive
  <2>2. super[d].my_id \in Nat  BY <2>1 DEF SuperStates
  <2>3. PICK t \in Threads, ch \in Channels : Live(t, ch) /\ d = ConnOf(t, ch)
    BY <1>i, <1>1 DEF ServerInv
  <2>4. ServerRow(t, ch, d)  BY <1>i, <2>3 DEF ServerInv
  <2>5. super[d].my_id < used_ids  BY <1>1, <2>4 DEF ServerRow
  <2> QED BY <1>i, <2>1, <2>2, <2>5 DEF HouseInv
<1> QED BY <1>i, <1>1 DEF SetupTypeOK, ServerTypeOK

\* Extending the clearing_house leaves what is in it.
LEMMA HouseGrows ==
  ASSUME Up, house' = IF used_ids \in DOMAIN house THEN house ELSE Extended(2 * used_ids + 1)
  PROVE  /\ \E size \in Nat : house' \in [0..(size - 1) -> Conns \cup {None}]
         /\ \A n \in Nat : n < used_ids + 1 => n \in DOMAIN house'
         /\ \A n \in DOMAIN house : n \in DOMAIN house' /\ house'[n] = house[n]
         /\ \A n \in DOMAIN house' : house'[n] # None => n \in DOMAIN house /\ house'[n] = house[n]
<1>i. SetupTypeOK /\ HouseInv /\ used_ids \in Nat  BY UpFacts, GivenNumbers
<1>1. PICK size \in Nat : house \in [0..(size - 1) -> Conns \cup {None}]
  BY <1>i DEF SetupTypeOK, ServerTypeOK
<1>2. CASE used_ids \in DOMAIN house
  <2>1. \A n \in Nat : n < used_ids + 1 => n < used_ids \/ n = used_ids  BY <1>i
  <2> QED BY <1>1, <1>2, <1>i, <2>1 DEF HouseInv
<1>3. CASE used_ids \notin DOMAIN house
  <2>1. PICK m \in Nat : m = 2 * used_ids + 1 /\ used_ids < m  BY <1>i
  <2>2. house' = [n \in 0..(m - 1) |-> IF n \in DOMAIN house THEN house[n] ELSE None]
    BY <1>3, <2>1 DEF Extended
  <2>3. DOMAIN house = 0..(size - 1) /\ size <= used_ids  BY <1>1, <1>3, <1>i
  <2>4. \A n \in DOMAIN house : n \in DOMAIN house'  BY <1>i, <2>1, <2>2, <2>3
  <2>5. \A n \in Nat : n < used_ids + 1 => n \in DOMAIN house'  BY <1>i, <2>1, <2>2
  <2>6. \A n \in DOMAIN house : house[n] \in Conns \cup {None}  BY <1>1
  <2>7. house' \in [0..(m - 1) -> Conns \cup {None}]  BY <2>2, <2>6
  <2> QED BY <2>2, <2>4, <2>5, <2>7
<1> QED BY <1>2, <1>3

LEMMA MakeStateKeeps ==
  ASSUME Up, NEW b \in Bundles, NEW c \in Conns, MakeSuperState(b, c)
  PROVE  SetupInv'
<1>i. SetupTypeOK /\ SpawnInv /\ ServerInv /\ HouseInv /\ PairsInv  BY UpFacts
<1>g. /\ used_ids \in Nat
      /\ \A d \in Conns : Alive(d) =>
           /\ super[d].my_id \in Nat /\ super[d].my_id < used_ids /\ super[d].my_id \in DOMAIN house
  BY GivenNumbers
<1>r. PICK r : r = [my_id |-> used_ids, my_partner |-> -1, i_am_data |-> FALSE, child |-> "none"]
  OBVIOUS
<1>a. /\ Receives(b, c) /\ super[c] = None /\ Head(up[b]).kind = "empty" /\ Pops(b)
      /\ super' = [super EXCEPT ![c] = r] /\ used_ids' = used_ids + 1
      /\ house' = IF used_ids \in DOMAIN house THEN house ELSE Extended(2 * used_ids + 1)
      /\ down' = [down EXCEPT ![c] = Append(@, used_ids)]
  BY <1>r DEF MakeSuperState
<1>u. UNCHANGED clientVars /\ UNCHANGED <<looking, pairs, heard>>  BY DEF MakeSuperState
<1>l. /\ Conns' = Conns /\ Bundles' = Bundles /\ LinksStay
      /\ \A t \in Threads, ch \in Channels :
           /\ SameLink(t, ch) /\ Live(t, ch)' = Live(t, ch) /\ ConnOf(t, ch)' = ConnOf(t, ch)
           /\ Numbered(t, ch)' = Numbered(t, ch) /\ Told(t, ch)' = Told(t, ch)
  BY <1>u, ServerLinks
<1>h. PICK t \in Threads, ch \in Channels : \E f : HeadOf(b, c, t, ch, f)  BY <1>a, HeadFrame
<1>f. PICK f : HeadOf(b, c, t, ch, f)  BY <1>h
<1>k. f.kind = "empty" /\ ServerRow(t, ch, c) /\ HeardRow(t, ch, c) /\ Awaited(t, ch, c) /\ c[1] = b
  BY <1>a, <1>f DEF HeadOf
<1>s. /\ super \in [Conns -> SuperStates \cup {None}] /\ down \in [Conns -> Seq(Nat)]
      /\ up \in [Bundles -> Seq(FrameType)]
  BY <1>i DEF SetupTypeOK, ServerTypeOK, WireTypeOK
<1>n. r \in SuperStates /\ r # None
  <2>1. r \in SuperStates  BY <1>g, <1>r DEF SuperStates
  <2> QED BY <2>1, NoneAssumption
<1>1. /\ super'[c] = r /\ \A d \in Conns : d # c => super'[d] = super[d]
      /\ super' \in [Conns -> SuperStates \cup {None}]
  BY <1>a, <1>n, <1>s
<1>2. /\ Alive(c)' /\ ~Knows(c)' /\ ~Ready(c)' /\ super'[c].my_id = used_ids
      /\ ~Alive(c) /\ ~Knows(c) /\ ~Ready(c)
  BY <1>1, <1>a, <1>n, <1>r DEF Alive, Knows, Ready
<1>3. \A d \in Conns : d # c => Alive(d)' = Alive(d) /\ super'[d] = super[d]
  BY <1>1 DEF Alive
<1>4. \A d \in Conns : Knows(d)' = Knows(d) /\ Ready(d)' = Ready(d)
  BY <1>1, <1>2 DEF Knows, Ready, Alive
<1>5. /\ down'[c] = <<used_ids>> /\ (\A d \in Conns : d # c => down'[d] = down[d])
      /\ down' \in [Conns -> Seq(Nat)] /\ ~Numbered(t, ch)
  <2>1. down[c] = <<>> /\ ~Numbered(t, ch)  BY <1>k, <1>2 DEF ServerRow
  <2>2. down'[c] = Append(down[c], used_ids)  BY <1>a, <1>s
  <2>3. Append(down[c], used_ids) \in Seq(Nat)  BY <1>g, <1>s, AppendProperties
  <2>4. down' \in [Conns -> Seq(Nat)]  BY <1>a, <1>s, <2>3
  <2>5. Append(<<>>, used_ids) = <<used_ids>>  BY <1>g
  <2> QED BY <1>a, <1>s, <2>1, <2>2, <2>4, <2>5
<1>6. /\ \E size \in Nat : house' \in [0..(size - 1) -> Conns \cup {None}]
      /\ \A n \in Nat : n < used_ids + 1 => n \in DOMAIN house'
      /\ \A n \in DOMAIN house : n \in DOMAIN house' /\ house'[n] = house[n]
      /\ \A n \in DOMAIN house' : house'[n] # None => n \in DOMAIN house /\ house'[n] = house[n]
  BY <1>a, HouseGrows
<1>7. ServerTypeOK'
  <2>1. PairType' = PairType  BY <1>l DEF PairType
  <2>2. used_ids' \in Nat  BY <1>a, <1>g
  <2> QED BY <1>i, <1>l, <1>u, <1>1, <1>6, <2>1, <2>2 DEF SetupTypeOK, ServerTypeOK
<1>8. /\ SetupTypeOK' /\ SpawnInv' /\ ConnsInv' /\ ServerInv'
      /\ FramesInv' /\ OrderInv' /\ AwaitedInv'
  <2>1. OthersUntouched({c})  BY <1>1, <1>5, <1>u DEF OthersUntouched, Untouched
  <2>2. NumbersDiffer'
    <3>1. \A d \in Conns : d # c /\ Alive(d)' => super'[d].my_id # used_ids
      BY <1>3, <1>g
    <3>2. \A d, e \in Conns : d # c /\ e # c /\ Alive(d)' /\ Alive(e)'
                              /\ super'[d].my_id = super'[e].my_id => d = e
      BY <1>i, <1>3 DEF ServerInv
    <3> QED BY <1>l, <1>2, <3>1, <3>2 DEF NumbersDiffer
  <2>3. ServerRow(t, ch, c)'
    BY <1>a, <1>g, <1>l, <1>2, <1>5 DEF ServerRow
  <2>4. HeardRow(t, ch, c)'
    <3>1. said'[t] = said[t] /\ heard' = heard  BY <1>u DEF clientVars
    <3> QED BY <1>k, <1>2, <3>1 DEF HeardRow
  <2>5. Awaited(t, ch, c)'
    <3>1. /\ Popped(b) /\ \A x \in Bundles : Len(up[x]) \in Nat /\ Len(up'[x]) \in Nat
      <4>1. up[b] # <<>>  BY <1>a DEF Receives
      <4> QED BY <1>a, <1>i, <4>1, HandledIsPopped
    <3>2. up[b][1].kind = "empty"  BY <1>f, <1>k DEF HeadOf
    <3>3. \A v : OnWay(c, "message", v) => OnWay(c, "message", v)'  BY <3>1, <3>2, OnWayShrinks
    <3>4. OnWay(c, "role", 0) => OnWay(c, "role", 0)'  BY <3>1, <3>2, OnWayShrinks
    <3>5. said'[t] = said[t] /\ heard' = heard  BY <1>u DEF clientVars
    <3> QED BY <1>k, <1>l, <1>2, <3>3, <3>4, <3>5 DEF Awaited
  <2>6. LaterFramesKept(t, ch, c, f)
    <3> SUFFICES ASSUME NEW g \in FrameType, FrameOK(t, ch, c, g), Before(ch, f, ch, g)
                 PROVE  FrameOK(t, ch, c, g)'
      BY DEF LaterFramesKept
    <3>1. g.kind # "empty" /\ g.kind # "role"  BY <1>k, <1>2 DEF Before, FrameOK
    <3>2. said'[t] = said[t] /\ heard' = heard /\ Returned(t)' = Returned(t)
      BY <1>u DEF clientVars, Returned
    <3> QED BY <3>1, <3>2 DEF FrameOK
  <2>7. used_ids <= used_ids'  BY <1>a, <1>g
  <2> QED BY <1>a, <1>f, <1>u, <1>5, <1>7, <2>1, <2>2, <2>3, <2>4, <2>5, <2>6, <2>7, HandleKeeps
<1>9. HouseInv'
  <2>1. \A n \in Nat : n < used_ids' => n \in DOMAIN house'  BY <1>6, <1>a
  <2>2. ASSUME NEW n \in DOMAIN house', house'[n] # None
        PROVE  Knows(house[n])' /\ super'[house'[n]].my_id = n
    <3>1. PICK d : d = house[n]  OBVIOUS
    <3>2. n \in DOMAIN house /\ house'[n] = d /\ d # None  BY <1>6, <2>2, <3>1
    <3>3. Knows(d) /\ super[d].my_id = n  BY <1>i, <3>1, <3>2 DEF HouseInv
    <3>4. d \in Conns  BY <1>i, <3>1, <3>2 DEF SetupTypeOK, ServerTypeOK
    <3>5. super'[d] = super[d] /\ Knows(d)'  BY <1>2, <1>3, <1>4, <3>3, <3>4
    <3> QED BY <3>2, <3>3, <3>5 DEF Knows, Alive
  <2>3. ASSUME NEW d \in Conns, Knows(d)' PROVE house'[super'[d].my_id] = d
    <3>1. Knows(d) /\ super'[d] = super[d]  BY <1>2, <1>3, <1>4, <2>3
    <3>2. house[super[d].my_id] = d  BY <1>i, <3>1 DEF HouseInv
    <3>3. super[d].my_id \in DOMAIN house  BY <1>g, <3>1 DEF Knows
    <3> QED BY <1>6, <3>1, <3>2, <3>3
  <2> QED BY <1>l, <2>1, <2>2, <2>3 DEF HouseInv
<1>10. MeetInv'  BY <1>4, <1>u, MeetSame
<1>11. PairsInv'
  <2>1. \A d : Ready(d) => Ready(d)'
    <3> TAKE d
    <3>1. CASE d \in Conns  BY <1>4, <3>1
    <3>2. CASE d \notin Conns
      <4>1. super'[d] = super[d]  BY <1>a, <1>s, <3>2
      <4> QED BY <4>1 DEF Ready, Alive
    <3> QED BY <3>1, <3>2
  <2> QED BY <1>i, <1>l, <1>u, <2>1, PairsStay
<1> QED BY <1>8, <1>9, <1>10, <1>11 DEF SetupInv

\* What a child_state is given is the next message of its channel.
LEMMA NextMessage ==
  ASSUME Up, NEW b \in Bundles, NEW c, NEW t \in Threads, NEW ch \in Channels, NEW f,
         HeadOf(b, c, t, ch, f), Ready(c)
  PROVE  /\ f.kind = "message" /\ Len(heard[c]) \in Nat /\ f.value = Len(heard[c]) + 1
         /\ f.value <= said[t][ch] /\ super[c].child = ch /\ heard[c] \in Seq(EventType)
<1>i. SetupTypeOK /\ OrderInv /\ \A x \in Bundles : Len(up[x]) \in Nat  BY UpFacts
<1>f. /\ FrameOK(t, ch, c, f) /\ f.kind \in Kinds /\ f.value \in Nat /\ c \in Conns
      /\ ServerRow(t, ch, c) /\ HeardRow(t, ch, c) /\ Awaited(t, ch, c)
  BY DEF HeadOf, FrameType
<1>1. Knows(c) /\ Alive(c) /\ super[c].child = ch  BY <1>f DEF ServerRow, Knows
<1>2. f.kind = "message"  BY <1>1, <1>f DEF FrameOK, Kinds
<1>3. heard[c] \in Seq(EventType) /\ Len(heard[c]) \in Nat
  <2>1. heard[c] \in Seq(EventType)  BY <1>f, <1>i DEF SetupTypeOK, ServerTypeOK
  <2> QED BY <2>1, LenProperties
<1>4. Len(heard[c]) < f.value /\ f.value <= said[t][ch] /\ said[t][ch] \in Nat
  BY <1>2, <1>f, <1>i DEF FrameOK, SetupTypeOK, ClientTypeOK
<1>5. ASSUME f.value # Len(heard[c]) + 1 PROVE FALSE
  <2>1. PICK v \in Nat : v = Len(heard[c]) + 1  BY <1>3
  <2>2. Len(heard[c]) < v /\ v <= said[t][ch] /\ v < f.value  BY <1>3, <1>4, <1>5, <1>f, <2>1
  <2>3. OnWay(c, "message", v)  BY <1>f, <2>2 DEF Awaited
  <2>4. c[1] = b /\ c = <<b, f.id>> /\ Live(t, ch) /\ c = ConnOf(t, ch) /\ f = up[b][1]
    BY DEF HeadOf
  <2>5. PICK i \in 1..Len(up[b]) :
          up[b][i].id = c[2] /\ up[b][i].kind = "message" /\ up[b][i].value = v
    BY <2>3, <2>4 DEF OnWay
  <2>6. i # 1  BY <2>2, <2>4, <2>5, <1>f
  <2>7. Owns(t, ch, b, up[b][i])  BY <2>4, <2>5 DEF Owns
  <2>8. Before(ch, f, ch, up[b][i])  BY <2>6, <2>7, BehindHead
  <2>9. f.value < v  BY <1>2, <2>5, <2>8 DEF Before
  <2> QED BY <1>f, <2>2, <2>9
<1> QED BY <1>1, <1>2, <1>3, <1>4, <1>5

LEMMA DeliverKeeps ==
  ASSUME Up, NEW b \in Bundles, NEW c \in Conns, DeliverToChild(b, c)
  PROVE  SetupInv'
<1>i. SetupTypeOK /\ SpawnInv /\ ServerInv /\ HouseInv /\ PairsInv  BY UpFacts
<1>a. Receives(b, c) /\ super[c] # None /\ super[c].child # "none" /\ Pops(b)
  BY DEF DeliverToChild
<1>u. /\ UNCHANGED clientVars /\ UNCHANGED <<down, used_ids, super, house, looking, pairs>>
  BY DEF DeliverToChild
<1>l. /\ Conns' = Conns /\ Bundles' = Bundles /\ LinksStay
      /\ \A t \in Threads, ch \in Channels :
           /\ SameLink(t, ch) /\ Live(t, ch)' = Live(t, ch) /\ ConnOf(t, ch)' = ConnOf(t, ch)
           /\ Numbered(t, ch)' = Numbered(t, ch) /\ Told(t, ch)' = Told(t, ch)
  BY <1>u, ServerLinks
<1>h. PICK t \in Threads, ch \in Channels : \E f : HeadOf(b, c, t, ch, f)  BY <1>a, HeadFrame
<1>f. PICK f : HeadOf(b, c, t, ch, f)  BY <1>h
<1>1. Ready(c)  BY <1>a DEF Ready, Alive
<1>2. /\ f.kind = "message" /\ Len(heard[c]) \in Nat /\ f.value = Len(heard[c]) + 1
      /\ f.value <= said[t][ch] /\ super[c].child = ch /\ heard[c] \in Seq(EventType)
  BY <1>1, <1>f, NextMessage
<1>3. PICK e : e = [event |-> ch, value |-> f.value]  OBVIOUS
<1>4. e \in EventType
  <2>1. f.value \in Nat /\ ch \in {"none", "data", "control"}  BY <1>f DEF HeadOf, FrameType, Channels
  <2> QED BY <1>3, <2>1 DEF EventType
<1>5. heard \in [Conns -> Seq(EventType)]  BY <1>i DEF SetupTypeOK, ServerTypeOK
<1>6. heard' = [heard EXCEPT ![c] = Append(heard[c], e)]
  <2>1. f = Head(up[b])  BY <1>f DEF HeadOf
  <2> QED BY <1>2, <1>3, <2>1 DEF DeliverToChild, EventOf
<1>7. /\ heard'[c] = Append(heard[c], e) /\ heard' \in [Conns -> Seq(EventType)]
      /\ \A d \in Conns : d # c => heard'[d] = heard[d]
  <2>1. Append(heard[c], e) \in Seq(EventType)  BY <1>2, <1>4, AppendProperties
  <2> QED BY <1>5, <1>6, <2>1
<1>8. /\ Len(heard'[c]) = Len(heard[c]) + 1 /\ heard'[c][Len(heard[c]) + 1] = e
      /\ \A k \in 1..Len(heard[c]) : heard'[c][k] = heard[c][k]
  BY <1>2, <1>4, <1>7, AppendProperties
<1>9. \A d : Alive(d)' = Alive(d) /\ Knows(d)' = Knows(d) /\ Ready(d)' = Ready(d)
  BY <1>u DEF Alive, Knows, Ready
<1>10. ServerTypeOK'
  <2>1. PairType' = PairType /\ EventType' = EventType  BY <1>l DEF PairType, EventType
  <2> QED BY <1>i, <1>l, <1>u, <1>7, <2>1 DEF SetupTypeOK, ServerTypeOK
<1>k. ServerRow(t, ch, c) /\ HeardRow(t, ch, c) /\ Awaited(t, ch, c) /\ f = up[b][1]
  BY <1>f DEF HeadOf
<1>m. number'[t] = number[t] /\ said'[t] = said[t] /\ Returned(t)' = Returned(t)
  BY <1>u DEF clientVars, Returned
<1>11. /\ SetupTypeOK' /\ SpawnInv' /\ ConnsInv' /\ ServerInv'
       /\ FramesInv' /\ OrderInv' /\ AwaitedInv'
  <2>1. OthersUntouched({c})  BY <1>7, <1>u DEF OthersUntouched, Untouched
  <2>2. NumbersDiffer'  BY <1>i, <1>l, <1>u, <1>9 DEF NumbersDiffer, ServerInv
  <2>3. ServerRow(t, ch, c)'  BY <1>k, <1>l, <1>m, <1>u, <1>9 DEF ServerRow
  <2>4. HeardRow(t, ch, c)'
    <3>1. Len(heard'[c]) <= said'[t][ch]  BY <1>2, <1>8, <1>m
    <3>2. \A k \in 1..Len(heard[c]) : heard'[c][k] = [event |-> ch, value |-> k]
      BY <1>k, <1>8 DEF HeardRow
    <3>3. heard'[c][Len(heard[c]) + 1] = [event |-> ch, value |-> Len(heard[c]) + 1]
      BY <1>2, <1>3, <1>8
    <3>4. \A k \in 1..Len(heard'[c]) : k \in 1..Len(heard[c]) \/ k = Len(heard[c]) + 1
      BY <1>2, <1>8
    <3>5. \A k \in 1..Len(heard'[c]) : heard'[c][k] = [event |-> ch, value |-> k]
      BY <3>2, <3>3, <3>4
    <3> QED BY <1>1, <1>9, <3>1, <3>5 DEF HeardRow
  <2>5. Awaited(t, ch, c)'
    <3>1. /\ Popped(b) /\ \A x \in Bundles : Len(up[x]) \in Nat /\ Len(up'[x]) \in Nat
      <4>1. up[b] # <<>>  BY <1>a DEF Receives
      <4> QED BY <1>a, <1>i, <4>1, HandledIsPopped
    <3>2. Knows(c)  BY <1>1, <1>k DEF ServerRow
    <3>3. ASSUME NEW v \in Nat, Len(heard'[c]) < v, v <= said'[t][ch]
          PROVE  OnWay(c, "message", v)'
      <4>1. Len(heard[c]) < v /\ v # f.value  BY <1>2, <1>8, <3>3
      <4>2. OnWay(c, "message", v)  BY <1>k, <1>m, <3>3, <4>1 DEF Awaited
      <4> QED BY <1>k, <3>1, <4>1, <4>2, OnWayShrinks
    <3> QED BY <1>9, <3>2, <3>3 DEF Awaited
  <2>6. LaterFramesKept(t, ch, c, f)
    <3> SUFFICES ASSUME NEW g \in FrameType, FrameOK(t, ch, c, g), Before(ch, f, ch, g)
                 PROVE  FrameOK(t, ch, c, g)'
      BY DEF LaterFramesKept
    <3>1. g.kind = "message" => Len(heard'[c]) < g.value
      BY <1>2, <1>8 DEF Before
    <3> QED BY <1>9, <1>l, <1>m, <3>1 DEF FrameOK
  <2>7. used_ids <= used_ids' /\ down' \in [Conns -> Seq(Nat)]
    BY <1>i, <1>u DEF SetupTypeOK, ServerTypeOK, WireTypeOK
  <2> QED BY <1>a, <1>f, <1>u, <1>10, <2>1, <2>2, <2>3, <2>4, <2>5, <2>6, <2>7, HandleKeeps
<1>12. HouseInv'  BY <1>i, <1>l, <1>u, <1>9 DEF HouseInv
<1>13. MeetInv'  BY <1>9, <1>u, MeetSame
<1>14. PairsInv'  BY <1>i, <1>l, <1>u, <1>9, PairsStay
<1> QED BY <1>11, <1>12, <1>13, <1>14 DEF SetupInv

\* The thread's two connections are of one bundle and differ.
LEMMA TwoConns ==
  ASSUME Up, NEW t \in Threads, Live(t, "control"),
         NEW d, d = ConnOf(t, "data"), NEW k, k = ConnOf(t, "control")
  PROVE  /\ Live(t, "data") /\ d \in Conns /\ k \in Conns /\ d # k /\ d # None /\ k # None
         /\ d[1] = BundleOf(t, "data") /\ k[1] = BundleOf(t, "data") /\ BundleOf(t, "data") \in Bundles
<1>i. SetupTypeOK /\ SpawnInv /\ ConnsInv  BY UpFacts
<1>1. Live(t, "data")  BY ControlAfterData
<1>2. d \in Conns /\ k \in Conns /\ d[1] = BundleOf(t, "data") /\ k[1] = BundleOf(t, "control")
  BY <1>i, <1>1, LiveConn DEF Live, Channels
<1>3. d # k  BY <1>i, <1>1, OneOwner DEF Channels
<1>4. d # None /\ k # None  BY <1>i, <1>2, ConnTypes
<1>5. BundleOf(t, "control") = BundleOf(t, "data")  BY DEF BundleOf
<1>6. BundleOf(t, "data") \in Bundles  BY <1>i, ConnTypes DEF Channels
<1> QED BY <1>1, <1>2, <1>3, <1>4, <1>5, <1>6

LEMMA TakeRoleMeets ==
  ASSUME Up, UNCHANGED clientVars, NEW b \in Bundles, NEW c, NEW t \in Threads, NEW ch \in Channels,
         NEW f, HeadOf(b, c, t, ch, f), f.kind = "role", Live(t, "control"), Told(t, ch),
         looking' = [looking EXCEPT ![b] = c], ~Knows(c), Knows(c)', ~Ready(c), ~Ready(c)',
         \A d \in Conns : d # c => Knows(d)' = Knows(d) /\ Ready(d)' = Ready(d)
  PROVE  MeetInv'
<1>i. SetupTypeOK /\ SpawnInv /\ ConnsInv /\ MeetInv  BY UpFacts
<1>l. /\ Bundles' = Bundles
      /\ \A u \in Threads, dh \in Channels :
           /\ Live(u, dh)' = Live(u, dh) /\ ConnOf(u, dh)' = ConnOf(u, dh)
           /\ BundleOf(u, dh)' = BundleOf(u, dh)
  BY ServerLinks
<1>h. c = ConnOf(t, ch) /\ looking[b] = None /\ c \in Conns /\ Live(t, ch) /\ c[1] = b
  BY DEF HeadOf
<1>b. b = BundleOf(t, ch) /\ b = BundleOf(t, "data")
  <2>1. b = BundleOf(t, ch)  BY <1>h, <1>i, LiveConn DEF Live
  <2> QED BY <2>1 DEF BundleOf
<1>1. looking'[b] = c /\ \A x \in Bundles : x # b => looking'[x] = looking[x]
  BY <1>i DEF SetupTypeOK, ServerTypeOK
<1>2. UNCHANGED <<first, modulus>>  BY DEF clientVars
<1>3. ASSUME NEW d, NEW k, d = ConnOf(t, "data"), k = ConnOf(t, "control")
      PROVE  Meet(t, d, k)'
  <2>1. d \in Conns /\ k \in Conns /\ d # k /\ d # None /\ k # None /\ Live(t, "data")
    BY <1>3, TwoConns
  <2>2. Meet(t, d, k)  BY <1>3, <1>i DEF MeetInv
  <2>3. (Knows(k) => Knows(d)) /\ (Ready(k) <=> Ready(d))  BY <2>2 DEF Meet
  <2>4. (Knows(k)' => Knows(d)') /\ (Ready(k)' <=> Ready(d)')
        /\ (Knows(k)' => looking'[b] = k \/ Ready(k)')
        /\ (looking'[b] = d => Knows(d)' /\ ~Knows(k)')
        /\ (looking'[b] = k => Knows(k)' /\ ~Ready(k)')
    <3>1. CASE ch = "data"
      <4>1. c = d /\ ~Knows(k)  BY <1>3, <1>h, <2>3, <3>1
      <4>2. ~Knows(k)' /\ Ready(k)' = Ready(k)  BY <2>1, <4>1
      <4> QED BY <1>1, <2>1, <2>3, <4>1, <4>2
    <3>2. CASE ch = "control"
      <4>1. c = k  BY <1>3, <1>h, <3>2
      <4>2. Told(t, "data")  BY <3>2 DEF Told
      <4>3. Knows(d)
        <5>1. "data" \in Channels  BY DEF Channels
        <5> QED BY <1>3, <2>1, <3>2, <4>2, <5>1, RoleBehind
      <4>4. Knows(d)' /\ ~Ready(d)'  BY <2>1, <2>3, <4>1, <4>3
      <4> QED BY <1>1, <2>1, <4>1, <4>4
    <3> QED BY <3>1, <3>2 DEF Channels
  <2>5. BundleOf(t, "data")' = b  BY <1>b, <1>l DEF Channels
  <2> QED BY <2>4, <2>5 DEF Meet
<1>4. ASSUME NEW u \in Threads, u # t, Live(u, "control"),
             NEW d, NEW k, d = ConnOf(u, "data"), k = ConnOf(u, "control")
      PROVE  Meet(u, d, k)'
  <2>1. /\ d \in Conns /\ k \in Conns /\ d # None /\ k # None /\ Live(u, "data")
        /\ BundleOf(u, "data") \in Bundles
    BY <1>4, TwoConns
  <2>2. d # c /\ k # c
    <3>1. "data" \in Channels /\ "control" \in Channels  BY DEF Channels
    <3> QED BY <1>4, <1>h, <1>i, <2>1, <3>1, OneOwner
  <2>3. Meet(u, d, k)  BY <1>4, <1>i DEF MeetInv
  <2>4. \A x \in {k, d} : looking'[BundleOf(u, "data")] = x <=> looking[BundleOf(u, "data")] = x
    BY <1>1, <1>h, <2>1, <2>2
  <2>5. Knows(d)' = Knows(d) /\ Ready(d)' = Ready(d) /\ Knows(k)' = Knows(k) /\ Ready(k)' = Ready(k)
    BY <2>1, <2>2
  <2> QED BY <1>2, <2>3, <2>4, <2>5, MeetKept
<1>5. ASSUME NEW u \in Threads, Live(u, "control")'
      PROVE  Meet(u, ConnOf(u, "data"), ConnOf(u, "control"))'
  <2>1. PICK d, k : d = ConnOf(u, "data") /\ k = ConnOf(u, "control")  OBVIOUS
  <2>2. Live(u, "control") /\ ConnOf(u, "data")' = d /\ ConnOf(u, "control")' = k
    BY <1>5, <1>l, <2>1 DEF Channels
  <2>3. Meet(u, d, k)'  BY <1>3, <1>4, <2>1, <2>2
  <2> QED BY <2>2, <2>3 DEF Meet, Knows, Ready, Alive
<1>6. ASSUME NEW x \in Bundles, looking'[x] # None
      PROVE  \E u \in Threads, dh \in Channels :
               Live(u, dh)' /\ Live(u, "control")' /\ x = BundleOf(u, dh)' /\ looking'[x] = ConnOf(u, dh)'
  <2>1. CASE x = b
    <3>1. Live(t, ch)' /\ Live(t, "control")' /\ x = BundleOf(t, ch)' /\ looking'[x] = ConnOf(t, ch)'
      BY <1>1, <1>b, <1>h, <1>l, <2>1 DEF Channels
    <3> QED BY <3>1
  <2>2. CASE x # b
    <3>1. looking'[x] = looking[x]  BY <1>1, <2>2
    <3>2. PICK u \in Threads, dh \in Channels :
            Live(u, dh) /\ Live(u, "control") /\ x = BundleOf(u, dh) /\ looking[x] = ConnOf(u, dh)
      BY <1>6, <1>i, <3>1, Zenon DEF MeetInv
    <3> QED BY <1>l, <3>1, <3>2 DEF Channels
  <2> QED BY <2>1, <2>2
<1> QED BY <1>l, <1>5, <1>6 DEF MeetInv

LEMMA TakeRoleKeeps ==
  ASSUME Up, NEW b \in Bundles, NEW c \in Conns, TakeRole(b, c)
  PROVE  SetupInv'
<1>i. SetupTypeOK /\ SpawnInv /\ ServerInv /\ HouseInv /\ PairsInv  BY UpFacts
<1>a. /\ Receives(b, c) /\ super[c] # None /\ super[c].child = "none" /\ Pops(b)
      /\ looking' = [looking EXCEPT ![b] = c]
  BY DEF TakeRole
<1>u. UNCHANGED clientVars /\ UNCHANGED <<down, used_ids, pairs, heard>>  BY DEF TakeRole
<1>l. /\ Conns' = Conns /\ Bundles' = Bundles /\ LinksStay
      /\ \A t \in Threads, ch \in Channels :
           /\ SameLink(t, ch) /\ Live(t, ch)' = Live(t, ch) /\ ConnOf(t, ch)' = ConnOf(t, ch)
           /\ Numbered(t, ch)' = Numbered(t, ch) /\ Told(t, ch)' = Told(t, ch)
  BY <1>u, ServerLinks
<1>h. PICK t \in Threads, ch \in Channels : \E f : HeadOf(b, c, t, ch, f)  BY <1>a, HeadFrame
<1>f. PICK f : HeadOf(b, c, t, ch, f)  BY <1>h
<1>1. Alive(c) /\ ~Ready(c)  BY <1>a DEF Alive, Ready
<1>2. f.kind = "role" /\ ~Knows(c) /\ super[c].my_partner = -1  BY <1>1, <1>f, RoleFirst
<1>k. /\ ServerRow(t, ch, c) /\ HeardRow(t, ch, c) /\ Awaited(t, ch, c) /\ FrameOK(t, ch, c, f)
      /\ f = up[b][1] /\ f = Head(up[b]) /\ f \in FrameType /\ Live(t, ch) /\ c = ConnOf(t, ch)
  BY <1>f DEF HeadOf
<1>3. /\ Told(t, ch) /\ f.value \in Nat /\ f.is_data \in BOOLEAN
      /\ (f.is_data <=> ch = "data") /\ f.value = number[t][Other(ch)]
  BY <1>2, <1>k DEF FrameOK, FrameType
<1>4. Live(t, "control")  BY <1>1, <1>3, <1>k, RoleGiven
<1>s. super \in [Conns -> SuperStates \cup {None}] /\ looking \in [Bundles -> Conns \cup {None}]
  BY <1>i DEF SetupTypeOK, ServerTypeOK
<1>g. super[c] \in SuperStates /\ super[c].my_id \in Nat /\ super[c].my_id \in DOMAIN house
  BY <1>1, GivenNumbers
<1>r. PICK r : r = [super[c] EXCEPT !.i_am_data = f.is_data, !.my_partner = f.value]  OBVIOUS
<1>5. /\ r \in SuperStates /\ r # None /\ r.my_id = super[c].my_id /\ r.child = "none"
      /\ r.my_partner = f.value /\ r.my_partner # -1 /\ (r.i_am_data <=> ch = "data")
  <2>1. r \in SuperStates
    <3>1. f.value \in Int /\ f.is_data \in BOOLEAN  BY <1>3
    <3> QED BY <1>g, <1>r, <3>1, Zenon DEF SuperStates
  <2>2. r.my_id = super[c].my_id /\ r.child = "none" /\ r.my_partner = f.value /\ r.i_am_data = f.is_data
    BY <1>a, <1>g, <1>r DEF SuperStates
  <2>3. r # None  BY <2>1, NoneAssumption
  <2> QED BY <1>3, <2>1, <2>2, <2>3
<1>6. super' = [super EXCEPT ![c] = r] /\ house' = [house EXCEPT ![super[c].my_id] = c]
  BY <1>2, <1>k, <1>r, <1>s DEF TakeRole
<1>7. /\ super'[c] = r /\ \A d \in Conns : d # c => super'[d] = super[d]
      /\ super' \in [Conns -> SuperStates \cup {None}]
  BY <1>5, <1>6, <1>s
<1>8. Alive(c)' /\ Knows(c)' /\ ~Ready(c)'  BY <1>5, <1>7 DEF Alive, Knows, Ready
<1>9. \A d \in Conns : d # c =>
        Alive(d)' = Alive(d) /\ Knows(d)' = Knows(d) /\ Ready(d)' = Ready(d)
  BY <1>7 DEF Alive, Knows, Ready
<1>m. number'[t] = number[t] /\ said'[t] = said[t] /\ Returned(t)' = Returned(t) /\ heard' = heard
  BY <1>u DEF clientVars, Returned
<1>10. ServerTypeOK'
  <2>1. PairType' = PairType  BY <1>l DEF PairType
  <2>2. looking' \in [Bundles -> Conns \cup {None}]  BY <1>a, <1>s
  <2>3. \E size \in Nat : house' \in [0..(size - 1) -> Conns \cup {None}]
    <3>1. PICK size \in Nat : house \in [0..(size - 1) -> Conns \cup {None}]
      BY <1>i DEF SetupTypeOK, ServerTypeOK
    <3>2. house' \in [0..(size - 1) -> Conns \cup {None}]  BY <1>6, <3>1
    <3> QED BY <3>2
  <2> QED BY <1>i, <1>l, <1>u, <1>7, <2>1, <2>2, <2>3 DEF SetupTypeOK, ServerTypeOK
<1>11. /\ SetupTypeOK' /\ SpawnInv' /\ ConnsInv' /\ ServerInv'
       /\ FramesInv' /\ OrderInv' /\ AwaitedInv'
  <2>1. OthersUntouched({c})  BY <1>7, <1>u DEF OthersUntouched, Untouched
  <2>2. NumbersDiffer'
    <3>1. \A d \in Conns : super'[d].my_id = super[d].my_id  BY <1>5, <1>7
    <3>2. \A d \in Conns : Alive(d)' => Alive(d)  BY <1>1, <1>9
    <3> QED BY <1>i, <1>l, <3>1, <3>2 DEF NumbersDiffer, ServerInv
  <2>3. ServerRow(t, ch, c)'
    <3>1. /\ super[c].my_id < used_ids
          /\ down[c] = IF Numbered(t, ch) THEN <<>> ELSE <<super[c].my_id>>
          /\ Numbered(t, ch) => number[t][ch] = super[c].my_id
      BY <1>1, <1>k DEF ServerRow
    <3> QED BY <1>3, <1>5, <1>7, <1>8, <1>l, <1>m, <1>u, <3>1 DEF ServerRow
  <2>4. HeardRow(t, ch, c)'  BY <1>1, <1>8, <1>k, <1>m DEF HeardRow
  <2>5. Awaited(t, ch, c)'
    <3>1. /\ Popped(b) /\ \A x \in Bundles : Len(up[x]) \in Nat /\ Len(up'[x]) \in Nat
      <4>1. up[b] # <<>>  BY <1>a DEF Receives
      <4> QED BY <1>a, <1>i, <4>1, HandledIsPopped
    <3>2. \A v : OnWay(c, "message", v) => OnWay(c, "message", v)'
      BY <1>2, <1>k, <3>1, OnWayShrinks
    <3> QED BY <1>8, <1>k, <1>m, <3>2 DEF Awaited
  <2>6. LaterFramesKept(t, ch, c, f)
    <3> SUFFICES ASSUME NEW g \in FrameType, FrameOK(t, ch, c, g), Before(ch, f, ch, g)
                 PROVE  FrameOK(t, ch, c, g)'
      BY DEF LaterFramesKept
    <3>1. g.kind # "empty" /\ g.kind # "role"  BY <1>1, <1>2 DEF Before, FrameOK
    <3> QED BY <1>m, <3>1 DEF FrameOK
  <2>7. used_ids <= used_ids' /\ down' \in [Conns -> Seq(Nat)]
    BY <1>i, <1>u DEF SetupTypeOK, ServerTypeOK, WireTypeOK
  <2> QED BY <1>a, <1>f, <1>u, <1>10, <2>1, <2>2, <2>3, <2>4, <2>5, <2>6, <2>7, HandleKeeps
<1>12. HouseInv'
  <2>p. PICK n : n = super[c].my_id  OBVIOUS
  <2>1. /\ DOMAIN house' = DOMAIN house /\ house'[n] = c
        /\ \A m \in DOMAIN house : m # n => house'[m] = house[m]
    <3>1. PICK size \in Nat : house \in [0..(size - 1) -> Conns \cup {None}]
      BY <1>i DEF SetupTypeOK, ServerTypeOK
    <3> QED BY <1>6, <1>g, <2>p, <3>1
  <2>2. \A m \in Nat : m < used_ids' => m \in DOMAIN house'  BY <1>i, <1>u, <2>1 DEF HouseInv
  <2>3. ASSUME NEW m \in DOMAIN house', house'[m] # None
        PROVE  Knows(house[m])' /\ super'[house'[m]].my_id = m
    <3>1. PICK d : d = house'[m]  OBVIOUS
    <3>2. Knows(d)' /\ super'[d].my_id = m
      <4>1. CASE m = n  BY <1>5, <1>7, <1>8, <2>1, <2>p, <3>1, <4>1
      <4>2. CASE m # n
        <5>1. d = house[m] /\ m \in DOMAIN house /\ d # None  BY <2>1, <2>3, <3>1, <4>2
        <5>2. d \in Conns  BY <1>i, <5>1 DEF SetupTypeOK, ServerTypeOK
        <5>3. Knows(d) /\ super[d].my_id = m  BY <1>i, <5>1 DEF HouseInv
        <5>4. d # c  BY <1>2, <5>3
        <5> QED BY <1>7, <1>9, <5>2, <5>3, <5>4
      <4> QED BY <4>1, <4>2
    <3> QED BY <3>1, <3>2 DEF Knows, Alive
  <2>4. ASSUME NEW d \in Conns, Knows(d)' PROVE house'[super'[d].my_id] = d
    <3>1. CASE d = c  BY <1>5, <1>7, <2>1, <2>p, <3>1
    <3>2. CASE d # c
      <4>1. Knows(d) /\ super'[d] = super[d]  BY <1>7, <1>9, <2>4, <3>2
      <4>2. Alive(d) /\ super[d].my_id \in DOMAIN house  BY <4>1, GivenNumbers DEF Knows
      <4>3. super[d].my_id # n  BY <1>1, <1>i, <2>p, <3>2, <4>2 DEF ServerInv
      <4>4. house[super[d].my_id] = d  BY <1>i, <4>1 DEF HouseInv
      <4> QED BY <2>1, <4>1, <4>2, <4>3, <4>4
    <3> QED BY <3>1, <3>2
  <2> QED BY <1>l, <2>2, <2>3, <2>4 DEF HouseInv
<1>13. MeetInv'
  BY <1>a, <1>f, <1>u, <1>1, <1>2, <1>3, <1>4, <1>8, <1>9, TakeRoleMeets
<1>14. PairsInv'
  <2>1. \A d : Ready(d) => Ready(d)'
    <3> TAKE d
    <3>1. CASE d \in Conns  BY <1>1, <1>9, <3>1
    <3>2. CASE d \notin Conns
      <4>1. super'[d] = super[d]  BY <1>6, <1>s, <3>2
      <4> QED BY <4>1 DEF Ready, Alive
    <3> QED BY <3>1, <3>2
  <2> QED BY <1>i, <1>l, <1>u, <2>1, PairsStay
<1> QED BY <1>11, <1>12, <1>13, <1>14 DEF SetupInv

\* Who goes second finds the other.
Found(b, t, c, d, k) ==
  /\ Live(t, "control") /\ b = BundleOf(t, "data")
  /\ d = ConnOf(t, "data") /\ k = ConnOf(t, "control")
  /\ \/ c = d /\ ~Knows(k) /\ house[super[c].my_partner] = None
     \/ /\ c = k /\ house[super[c].my_partner] = d
        /\ Knows(d) /\ Knows(k) /\ ~Ready(d) /\ ~Ready(k) /\ super[k].i_am_data = FALSE

LEMMA PartnerFound ==
  ASSUME Up, NEW b \in Bundles, NEW c, c = looking[b], c # None
  PROVE  \E t \in Threads : \E d, k : Found(b, t, c, d, k)
<1>i. SetupTypeOK /\ SpawnInv /\ ServerInv /\ HouseInv /\ MeetInv  BY UpFacts
<1>1. PICK t \in Threads, ch \in Channels :
        Live(t, ch) /\ Live(t, "control") /\ b = BundleOf(t, ch) /\ c = ConnOf(t, ch)
  BY <1>i, Zenon DEF MeetInv
<1>2. PICK d, k : d = ConnOf(t, "data") /\ k = ConnOf(t, "control")  OBVIOUS
<1>3. /\ Live(t, "data") /\ d \in Conns /\ k \in Conns /\ d # k
      /\ "data" \in Channels /\ "control" \in Channels
  BY <1>1, <1>2, TwoConns DEF Channels
<1>4. b = BundleOf(t, "data")  BY <1>1 DEF BundleOf
<1>5. Meet(t, d, k) /\ looking[BundleOf(t, "data")] = c  BY <1>1, <1>2, <1>4, <1>i DEF MeetInv
<1>6. ServerRow(t, "data", d) /\ ServerRow(t, "control", k)
  BY <1>1, <1>2, <1>3, <1>i DEF ServerInv
<1>7. CASE ch = "data"
  <2>1. c = d /\ Knows(d) /\ ~Knows(k)  BY <1>1, <1>2, <1>5, <1>7 DEF Meet
  <2>2. Told(t, "data") /\ super[d].my_partner = number[t]["control"] /\ Alive(d)
    BY <1>6, <2>1 DEF ServerRow, Other, Knows
  <2>3. Alive(k) /\ number[t]["control"] = super[k].my_id
    BY <1>2, <1>3, <2>2, RoleGiven DEF Other
  <2>4. super[k].my_id \in DOMAIN house  BY <1>3, <2>3, GivenNumbers
  <2>5. PICK p : p = house[super[k].my_id]  OBVIOUS
  <2>6. ASSUME p # None PROVE FALSE
    <3>1. p \in Conns  BY <1>i, <2>4, <2>5, <2>6 DEF SetupTypeOK, ServerTypeOK
    <3>2. Knows(p) /\ super[p].my_id = super[k].my_id  BY <1>i, <2>4, <2>5, <2>6 DEF HouseInv
    <3>3. p = k  BY <1>3, <1>i, <2>3, <3>1, <3>2 DEF ServerInv, Knows
    <3> QED BY <2>1, <3>2, <3>3
  <2>7. house[super[c].my_partner] = None  BY <2>1, <2>2, <2>3, <2>5, <2>6
  <2>8. Found(b, t, c, d, k)  BY <1>1, <1>2, <1>4, <2>1, <2>7 DEF Found
  <2> QED BY <2>8
<1>8. CASE ch = "control"
  <2>1. c = k /\ Knows(k) /\ ~Ready(k)  BY <1>1, <1>2, <1>5, <1>8 DEF Meet
  <2>2. Knows(d) /\ ~Ready(d)  BY <1>5, <2>1 DEF Meet
  <2>3. /\ Told(t, "control") /\ super[k].my_partner = number[t]["data"] /\ Alive(k)
        /\ super[k].i_am_data <=> FALSE
    BY <1>6, <2>1 DEF ServerRow, Other, Knows
  <2>4. super[k].i_am_data = FALSE
    <3>1. super[k] \in SuperStates  BY <1>3, <2>3, GivenNumbers
    <3> QED BY <2>3, <3>1 DEF SuperStates
  <2>5. number[t]["data"] = super[d].my_id
    BY <1>1, <1>2, <1>3, <2>3, RoleGiven DEF Other
  <2>6. house[super[d].my_id] = d  BY <1>3, <1>i, <2>2 DEF HouseInv
  <2>7. house[super[c].my_partner] = d  BY <2>1, <2>3, <2>5, <2>6
  <2>8. Found(b, t, c, d, k)  BY <1>1, <1>2, <1>4, <2>1, <2>2, <2>4, <2>7 DEF Found
  <2> QED BY <2>8
<1> QED BY <1>7, <1>8 DEF Channels

\* The two are initialised together, at the latest when both know their roles.
Together(d, k) ==
  /\ \A x \in Conns : Knows(x)' = Knows(x)
  /\ \A x \in Conns : x # d /\ x # k => Ready(x)' = Ready(x)
  /\ Ready(k)' <=> Ready(d)'
  /\ Knows(k) => Ready(k)'

LEMMA FindMeets ==
  ASSUME Up, UNCHANGED clientVars, NEW b \in Bundles, NEW t \in Threads, NEW d, NEW k,
         Live(t, "control"), b = BundleOf(t, "data"), d = ConnOf(t, "data"), k = ConnOf(t, "control"),
         looking[b] \in {d, k}, looking' = [looking EXCEPT ![b] = None],
         Together(d, k)
  PROVE  MeetInv'
<1>i. SetupTypeOK /\ SpawnInv /\ ConnsInv /\ MeetInv  BY UpFacts
<1>l. /\ Bundles' = Bundles
      /\ \A u \in Threads, dh \in Channels :
           /\ Live(u, dh)' = Live(u, dh) /\ ConnOf(u, dh)' = ConnOf(u, dh)
           /\ BundleOf(u, dh)' = BundleOf(u, dh)
  BY ServerLinks
<1>1. looking'[b] = None /\ \A x \in Bundles : x # b => looking'[x] = looking[x]
  BY <1>i DEF SetupTypeOK, ServerTypeOK
<1>2. UNCHANGED <<first, modulus>>  BY DEF clientVars
<1>3. d \in Conns /\ k \in Conns /\ d # None /\ k # None /\ Live(t, "data")  BY TwoConns
<1>4. Meet(t, d, k)'
  <2>1. Meet(t, d, k)  BY <1>i DEF MeetInv
  <2>2. BundleOf(t, "data")' = b  BY <1>l DEF Channels
  <2>3. /\ Knows(k)' = Knows(k) /\ Knows(d)' = Knows(d)
        /\ Ready(k)' <=> Ready(d)'
        /\ Knows(k) => Ready(k)'
    BY <1>3 DEF Together
  <2> QED BY <1>1, <1>3, <2>1, <2>2, <2>3 DEF Meet
<1>5. ASSUME NEW u \in Threads, u # t, Live(u, "control"),
             NEW e, NEW l, e = ConnOf(u, "data"), l = ConnOf(u, "control")
      PROVE  Meet(u, e, l)'
  <2>1. /\ e \in Conns /\ l \in Conns /\ e # None /\ l # None /\ Live(u, "data")
        /\ BundleOf(u, "data") \in Bundles
    BY <1>5, TwoConns
  <2>2. e # d /\ e # k /\ l # d /\ l # k
    <3>1. "data" \in Channels /\ "control" \in Channels  BY DEF Channels
    <3> QED BY <1>3, <1>5, <1>i, <2>1, <3>1, OneOwner
  <2>3. Meet(u, e, l)  BY <1>5, <1>i DEF MeetInv
  <2>4. \A x \in {l, e} : looking'[BundleOf(u, "data")] = x <=> looking[BundleOf(u, "data")] = x
    BY <1>1, <2>1, <2>2
  <2>5. Knows(e)' = Knows(e) /\ Ready(e)' = Ready(e) /\ Knows(l)' = Knows(l) /\ Ready(l)' = Ready(l)
    BY <2>1, <2>2 DEF Together
  <2> QED BY <1>2, <2>3, <2>4, <2>5, MeetKept
<1>6. ASSUME NEW u \in Threads, Live(u, "control")'
      PROVE  Meet(u, ConnOf(u, "data"), ConnOf(u, "control"))'
  <2>1. PICK e, l : e = ConnOf(u, "data") /\ l = ConnOf(u, "control")  OBVIOUS
  <2>2. Live(u, "control") /\ ConnOf(u, "data")' = e /\ ConnOf(u, "control")' = l
    BY <1>6, <1>l, <2>1 DEF Channels
  <2>3. Meet(u, e, l)'  BY <1>4, <1>5, <2>1, <2>2
  <2> QED BY <2>2, <2>3 DEF Meet, Knows, Ready, Alive
<1>7. ASSUME NEW x \in Bundles, looking'[x] # None
      PROVE  \E u \in Threads, dh \in Channels :
               Live(u, dh)' /\ Live(u, "control")' /\ x = BundleOf(u, dh)' /\ looking'[x] = ConnOf(u, dh)'
  <2>1. looking'[x] = looking[x]  BY <1>1, <1>7
  <2>2. PICK u \in Threads, dh \in Channels :
          Live(u, dh) /\ Live(u, "control") /\ x = BundleOf(u, dh) /\ looking[x] = ConnOf(u, dh)
    BY <1>7, <1>i, <2>1, Zenon DEF MeetInv
  <2> QED BY <1>l, <2>1, <2>2 DEF Channels
<1> QED BY <1>l, <1>6, <1>7 DEF MeetInv

LEMMA AppendedOnce ==
  ASSUME NEW S, NEW s \in Seq(S), NEW e \in S, IsInjective(s), \A i \in 1..Len(s) : s[i] # e
  PROVE  IsInjective(Append(s, e))
<1>1. /\ Append(s, e) \in Seq(S) /\ Len(Append(s, e)) = Len(s) + 1 /\ Len(s) \in Nat
      /\ Append(s, e)[Len(s) + 1] = e /\ \A i \in 1..Len(s) : Append(s, e)[i] = s[i]
  BY AppendProperties, LenProperties
<1>2. DOMAIN Append(s, e) = 1..(Len(s) + 1) /\ DOMAIN s = 1..Len(s)  BY <1>1, LenProperties
<1>3. \A i, j \in 1..Len(s) : s[i] = s[j] => i = j  BY <1>2 DEF IsInjective
<1>4. ASSUME NEW i \in 1..(Len(s) + 1), NEW j \in 1..(Len(s) + 1), Append(s, e)[i] = Append(s, e)[j]
      PROVE  i = j
  <2>1. i \in 1..Len(s) \/ i = Len(s) + 1  BY <1>1
  <2>2. j \in 1..Len(s) \/ j = Len(s) + 1  BY <1>1
  <2> QED BY <1>1, <1>3, <1>4, <2>1, <2>2
<1> QED BY <1>2, <1>4 DEF IsInjective

\* The pair made is of a thread of which none was made.
LEMMA PairAdded ==
  ASSUME Up, NEW t \in Threads, NEW d, NEW k, d = ConnOf(t, "data"), k = ConnOf(t, "control"),
         Live(t, "control"), ~Ready(d), Ready(d)', pairs' = Append(pairs, [data |-> d, control |-> k]),
         UNCHANGED clientVars, \A x \in Conns : Ready(x) => Ready(x)'
  PROVE  PairsInv' /\ pairs' \in Seq(PairType)
<1>i. SetupTypeOK /\ PairsInv /\ pairs \in Seq(PairType)
  BY UpFacts DEF SetupTypeOK, ServerTypeOK
<1>l. \A u \in Threads, ch \in Channels : Live(u, ch)' = Live(u, ch) /\ ConnOf(u, ch)' = ConnOf(u, ch)
  BY ServerLinks
<1>1. PICK e : e = [data |-> d, control |-> k]  OBVIOUS
<1>2. d \in Conns /\ k \in Conns  BY TwoConns
<1>3. e \in PairType  BY <1>1, <1>2 DEF PairType
<1>4. /\ pairs' \in Seq(PairType) /\ Len(pairs') = Len(pairs) + 1 /\ Len(pairs) \in Nat
      /\ pairs'[Len(pairs) + 1] = e /\ \A i \in 1..Len(pairs) : pairs'[i] = pairs[i]
  BY <1>1, <1>3, <1>i, AppendProperties, LenProperties
<1>5. ASSUME NEW i \in 1..Len(pairs)
      PROVE  /\ pairs[i] # e
             /\ \E u \in Threads : /\ Live(u, "control")' /\ Ready(ConnOf(u, "data"))'
                                   /\ pairs'[i] = [data |-> ConnOf(u, "data")', control |-> ConnOf(u, "control")']
  <2>1. PICK u \in Threads :
          /\ Live(u, "control") /\ Ready(ConnOf(u, "data"))
          /\ pairs[i] = [data |-> ConnOf(u, "data"), control |-> ConnOf(u, "control")]
    BY <1>i, Zenon DEF PairsInv
  <2>2. PICK x, y : x = ConnOf(u, "data") /\ y = ConnOf(u, "control")  OBVIOUS
  <2>3. pairs[i].data = x /\ e.data = d  BY <1>1, <2>1, <2>2
  <2>4. pairs[i] # e  BY <2>1, <2>2, <2>3
  <2>5. x \in Conns  BY <2>1, <2>2, TwoConns
  <2>6. Ready(x)'  BY <2>1, <2>2, <2>5
  <2>7. ConnOf(u, "data")' = x /\ ConnOf(u, "control")' = y /\ Live(u, "control")'
    BY <1>l, <2>1, <2>2 DEF Channels
  <2>8. Ready(ConnOf(u, "data"))'  BY <2>6, <2>7 DEF Ready, Alive
  <2>9. pairs'[i] = [data |-> ConnOf(u, "data")', control |-> ConnOf(u, "control")']
    BY <1>4, <2>1, <2>2, <2>7
  <2> QED BY <2>4, <2>7, <2>8, <2>9
<1>6. \E u \in Threads : /\ Live(u, "control")' /\ Ready(ConnOf(u, "data"))'
                         /\ pairs'[Len(pairs) + 1] = [data |-> ConnOf(u, "data")', control |-> ConnOf(u, "control")']
  <2>1. ConnOf(t, "data")' = d /\ ConnOf(t, "control")' = k /\ Live(t, "control")'
    BY <1>l DEF Channels
  <2>2. Ready(ConnOf(t, "data"))'  BY <2>1 DEF Ready, Alive
  <2> QED BY <1>1, <1>4, <2>1, <2>2
<1>7. IsInjective(pairs')
  <2>1. IsInjective(pairs) /\ pairs' = Append(pairs, e)  BY <1>1, <1>i DEF PairsInv
  <2> QED BY <1>3, <1>5, <1>i, <2>1, AppendedOnce
<1>8. \A i \in 1..Len(pairs') : i \in 1..Len(pairs) \/ i = Len(pairs) + 1  BY <1>4
<1> QED BY <1>4, <1>5, <1>6, <1>7, <1>8 DEF PairsInv

LEMMA FindKeeps ==
  ASSUME Up, NEW b \in Bundles, FindPartner(b)
  PROVE  SetupInv'
<1>i. /\ SetupTypeOK /\ SpawnInv /\ ConnsInv /\ ServerInv /\ HouseInv /\ PairsInv
      /\ FramesInv /\ OrderInv /\ AwaitedInv
  BY UpFacts
<1>c. PICK c : c = looking[b]  OBVIOUS
<1>p. PICK p : p = house[super[c].my_partner]  OBVIOUS
<1>a. /\ c # None /\ looking' = [looking EXCEPT ![b] = None]
      /\ p = None => UNCHANGED <<super, pairs>>
      /\ p # None => InitializeBoth(c, p)
      /\ p # None => pairs' = Append(pairs, IF super[c].i_am_data
                                            THEN [data |-> c, control |-> p]
                                            ELSE [data |-> p, control |-> c])
  BY <1>c, <1>p DEF FindPartner
<1>u. /\ UNCHANGED clientVars /\ UNCHANGED <<up, down, used_ids, house, heard, modulus>>
      /\ UNCHANGED <<number, said>>
  BY DEF FindPartner, clientVars
<1>l. /\ ClientTypeOK' /\ SpawnInv' /\ ConnsInv'
      /\ Conns' = Conns /\ Bundles' = Bundles /\ FrameType' = FrameType /\ LinksStay
      /\ \A t \in Threads, ch \in Channels :
           /\ SameLink(t, ch) /\ Live(t, ch)' = Live(t, ch) /\ ConnOf(t, ch)' = ConnOf(t, ch)
           /\ Numbered(t, ch)' = Numbered(t, ch) /\ Told(t, ch)' = Told(t, ch)
  BY <1>u, ServerLinks
<1>s. super \in [Conns -> SuperStates \cup {None}] /\ looking \in [Bundles -> Conns \cup {None}]
  BY <1>i DEF SetupTypeOK, ServerTypeOK
<1>f. PICK t \in Threads : \E d, k : Found(b, t, c, d, k)  BY <1>a, <1>c, PartnerFound
<1>g. PICK d, k : Found(b, t, c, d, k)  BY <1>f
<1>1. /\ Live(t, "control") /\ b = BundleOf(t, "data")
      /\ d = ConnOf(t, "data") /\ k = ConnOf(t, "control")
  BY <1>g DEF Found
<1>2. /\ d \in Conns /\ k \in Conns /\ d # k /\ d # None /\ Live(t, "data")
      /\ "data" \in Channels /\ "control" \in Channels
  BY <1>1, TwoConns DEF Channels
<1>3. \/ c = d /\ ~Knows(k) /\ p = None
      \/ c = k /\ p = d /\ Knows(d) /\ Knows(k) /\ ~Ready(d) /\ ~Ready(k) /\ super[k].i_am_data = FALSE
  BY <1>g, <1>p DEF Found
<1>4. ASSUME p # None
      PROVE  \E r, q \in SuperStates :
               /\ super' = [super EXCEPT ![d] = r, ![k] = q]
               /\ r.my_id = super[d].my_id /\ r.my_partner = super[d].my_partner
               /\ r.i_am_data = super[d].i_am_data /\ r.child = "data"
               /\ q.my_id = super[k].my_id /\ q.my_partner = super[k].my_partner
               /\ q.i_am_data = super[k].i_am_data /\ q.child = "control"
  <2>1. c = k /\ p = d /\ super[k].i_am_data = FALSE /\ Alive(d) /\ Alive(k)
    BY <1>3, <1>4 DEF Knows
  <2>2. super[d] \in SuperStates /\ super[k] \in SuperStates  BY <1>2, <2>1, GivenNumbers
  <2>3. super' = [super EXCEPT ![d].child = "data", ![k].child = "control"]
    BY <1>4, <1>a, <2>1 DEF InitializeBoth
  <2>4. PICK r, q : r = [super[d] EXCEPT !.child = "data"] /\ q = [super[k] EXCEPT !.child = "control"]
    OBVIOUS
  <2>5. r \in SuperStates /\ q \in SuperStates  BY <2>2, <2>4, Zenon DEF SuperStates
  <2>6. super' = [super EXCEPT ![d] = r, ![k] = q]  BY <1>2, <2>3, <2>4
  <2>7. /\ r.my_id = super[d].my_id /\ r.my_partner = super[d].my_partner
        /\ r.i_am_data = super[d].i_am_data /\ r.child = "data"
    BY <2>2, <2>4 DEF SuperStates
  <2>8. /\ q.my_id = super[k].my_id /\ q.my_partner = super[k].my_partner
        /\ q.i_am_data = super[k].i_am_data /\ q.child = "control"
    BY <2>2, <2>4 DEF SuperStates
  <2> QED BY <2>5, <2>6, <2>7, <2>8
<1>5. /\ super' \in [Conns -> SuperStates \cup {None}]
      /\ \A x \in Conns : x # d /\ x # k => super'[x] = super[x]
      /\ \A x \in Conns : /\ Alive(x)' = Alive(x) /\ Knows(x)' = Knows(x)
                          /\ super'[x].my_id = super[x].my_id
                          /\ super'[x].my_partner = super[x].my_partner
                          /\ super'[x].i_am_data = super[x].i_am_data
                          /\ x # d /\ x # k => Ready(x)' = Ready(x)
      /\ p = None => Ready(d)' = Ready(d) /\ Ready(k)' = Ready(k) /\ super' = super
      /\ p # None => Ready(d)' /\ Ready(k)' /\ super'[d].child = "data" /\ super'[k].child = "control"
  <2>1. CASE p = None
    <3>1. super' = super  BY <1>a, <2>1
    <3> QED BY <1>s, <2>1, <3>1 DEF Alive, Knows, Ready
  <2>2. CASE p # None
    <3>1. PICK r, q \in SuperStates :
               /\ super' = [super EXCEPT ![d] = r, ![k] = q]
               /\ r.my_id = super[d].my_id /\ r.my_partner = super[d].my_partner
               /\ r.i_am_data = super[d].i_am_data /\ r.child = "data"
               /\ q.my_id = super[k].my_id /\ q.my_partner = super[k].my_partner
               /\ q.i_am_data = super[k].i_am_data /\ q.child = "control"
      BY <1>4, <2>2
    <3>2. r # None /\ q # None  BY NoneAssumption
    <3>3. super'[d] = r /\ super'[k] = q  BY <1>2, <1>s, <3>1
    <3>4. \A x \in Conns : x # d /\ x # k => super'[x] = super[x]  BY <1>s, <3>1
    <3>5. super' \in [Conns -> SuperStates \cup {None}]  BY <1>s, <3>1
    <3>6. Knows(d) /\ Knows(k)  BY <1>3, <2>2
    <3>7. Alive(d)' /\ Knows(d)' /\ Ready(d)' /\ Alive(k)' /\ Knows(k)' /\ Ready(k)'
      BY <3>1, <3>2, <3>3, <3>6 DEF Alive, Knows, Ready
    <3>8. \A x \in Conns : x # d /\ x # k =>
            Alive(x)' = Alive(x) /\ Knows(x)' = Knows(x) /\ Ready(x)' = Ready(x)
      BY <3>4 DEF Alive, Knows, Ready
    <3>9. \A x : Knows(x) /\ Knows(x)' => Alive(x)' = Alive(x) /\ Knows(x)' = Knows(x)
      BY SMT DEF Alive, Knows
    <3>10. /\ Alive(d)' = Alive(d) /\ Knows(d)' = Knows(d)
           /\ Alive(k)' = Alive(k) /\ Knows(k)' = Knows(k)
      BY <3>6, <3>7, <3>9, Zenon
    <3> QED BY <2>2, <3>1, <3>3, <3>4, <3>5, <3>7, <3>8, <3>10
  <2> QED BY <2>1, <2>2
<1>6. SetupTypeOK'
  <2>1. pairs' \in Seq(PairType) /\ PairType' = PairType
    <3>1. PairType' = PairType  BY <1>l DEF PairType
    <3>2. CASE p = None
      BY <1>a, <1>i, <3>1, <3>2 DEF SetupTypeOK, ServerTypeOK
    <3>3. CASE p # None
      <4>1. pairs' = Append(pairs, [data |-> d, control |-> k])  BY <1>3, <1>a, <3>3
      <4>2. ~Ready(d) /\ Ready(d)'  BY <1>3, <1>5, <3>3
      <4>3. \A x \in Conns : Ready(x) => Ready(x)'  BY <1>3, <1>5, <3>3
      <4> QED BY <1>1, <1>u, <3>1, <4>1, <4>2, <4>3, PairAdded
    <3> QED BY <3>2, <3>3
  <2>2. looking' \in [Bundles -> Conns \cup {None}]  BY <1>a, <1>s
  <2>3. ServerTypeOK'
    <3>1. EventType' = EventType  BY DEF EventType
    <3> QED BY <1>5, <1>i, <1>l, <1>u, <2>1, <2>2, <3>1 DEF SetupTypeOK, ServerTypeOK
  <2>4. WireTypeOK'  BY <1>i, <1>u, SameWireTypes
  <2> QED BY <1>l, <2>3, <2>4 DEF SetupTypeOK
<1>7. ServerInv'
  <2> PICK S : S = {d, k}  OBVIOUS
  <2>1. S \subseteq Conns  BY <1>2
  <2>2. OthersUntouched(S)  BY <1>5, <1>u DEF OthersUntouched, Untouched
  <2>3. \A x \in S : \E u \in Threads, dh \in Channels : Live(u, dh) /\ x = ConnOf(u, dh)
    BY <1>1, <1>2
  <2>4. ASSUME NEW dh \in Channels, NEW x, x = ConnOf(t, dh), Live(t, dh)
        PROVE  ServerRow(t, dh, x)' /\ HeardRow(t, dh, x)'
    <3>1. ServerRow(t, dh, x) /\ HeardRow(t, dh, x)  BY <1>i, <2>4 DEF ServerInv
    <3>2. (dh = "data" /\ x = d) \/ (dh = "control" /\ x = k)  BY <1>1, <2>4 DEF Channels
    <3>3. x \in Conns  BY <1>2, <3>2
    <3>4. /\ Alive(x)' = Alive(x) /\ Knows(x)' = Knows(x)
          /\ super'[x].my_id = super[x].my_id /\ super'[x].my_partner = super[x].my_partner
          /\ super'[x].i_am_data = super[x].i_am_data
      BY <1>5, <3>3
    <3>5. Ready(x)' => Knows(x)' /\ super'[x].child = dh
      <4>1. CASE p = None
        <5>1. Ready(x)' = Ready(x) /\ super' = super  BY <1>5, <3>2, <4>1
        <5> QED BY <3>1, <3>4, <5>1 DEF ServerRow
      <4>2. CASE p # None
        <5>1. Knows(x)  BY <1>3, <3>2, <4>2
        <5>2. super'[x].child = dh  BY <1>5, <3>2, <4>2
        <5> QED BY <3>4, <5>1, <5>2
      <4> QED BY <4>1, <4>2
    <3>6. Ready(x) => Ready(x)'  BY <1>3, <1>5, <3>2
    <3>7. ServerRow(t, dh, x)'  BY <1>l, <1>u, <3>1, <3>4, <3>5 DEF ServerRow
    <3>8. HeardRow(t, dh, x)'  BY <1>u, <3>1, <3>6 DEF HeardRow
    <3> QED BY <3>7, <3>8
  <2>5. ASSUME NEW u \in Threads, NEW dh \in Channels, NEW x \in S, Live(u, dh), x = ConnOf(u, dh)
        PROVE  ServerRow(u, dh, x)' /\ HeardRow(u, dh, x)'
    <3>1. u = t  BY <1>1, <1>2, <1>i, <2>5, OneOwner
    <3> QED BY <2>4, <2>5, <3>1
  <2>6. NumbersDiffer'  BY <1>5, <1>i, <1>l DEF NumbersDiffer, ServerInv
  <2>7. used_ids' \in Nat /\ used_ids <= used_ids'
    BY <1>i, <1>u DEF SetupTypeOK, ServerTypeOK
  <2> QED BY <1>u, <2>1, <2>2, <2>3, <2>5, <2>6, <2>7, ServerKeeps
<1>8. HouseInv'
  <2>1. \A n \in DOMAIN house : house[n] # None => house[n] \in Conns
    BY <1>i DEF SetupTypeOK, ServerTypeOK
  <2>2. ASSUME NEW n \in DOMAIN house, house[n] # None
        PROVE  Knows(house[n])' /\ super'[house[n]].my_id = n
    <3>1. PICK x : x = house[n]  OBVIOUS
    <3>2. x \in Conns /\ Knows(x) /\ super[x].my_id = n  BY <1>i, <2>1, <2>2, <3>1 DEF HouseInv
    <3>3. Knows(x)' /\ super'[x].my_id = n  BY <1>5, <3>2
    <3> QED BY <1>u, <3>1, <3>3 DEF Knows, Alive
  <2>3. \A x \in Conns : Knows(x)' => house[super'[x].my_id] = x  BY <1>5, <1>i DEF HouseInv
  <2>4. \A n \in Nat : n < used_ids => n \in DOMAIN house  BY <1>i DEF HouseInv
  <2> QED BY <1>l, <1>u, <2>2, <2>3, <2>4 DEF HouseInv, Knows, Alive
<1>9. MeetInv'
  <2>1. looking[b] \in {d, k}  BY <1>3, <1>c
  <2>2. Meet(t, d, k)  BY <1>1, <1>i, UpFacts DEF MeetInv
  <2>3. (Ready(k)' <=> Ready(d)') /\ (Knows(k) => Ready(k)')
    <3>1. CASE p = None
      <4>1. ~Knows(k) /\ Ready(d)' = Ready(d) /\ Ready(k)' = Ready(k)  BY <1>2, <1>3, <1>5, <3>1
      <4> QED BY <2>2, <4>1 DEF Meet
    <3>2. CASE p # None  BY <1>5, <3>2
    <3> QED BY <3>1, <3>2
  <2>4. Together(d, k)  BY <1>5, <2>3 DEF Together
  <2> QED BY <1>1, <1>a, <1>u, <2>1, <2>4, FindMeets
<1>10. PairsInv'
  <2>1. CASE p = None
    <3>1. \A x : Ready(x) => Ready(x)'  BY <1>5, <2>1 DEF Ready, Alive
    <3>2. UNCHANGED pairs  BY <1>a, <2>1
    <3> QED BY <1>i, <1>l, <3>1, <3>2, PairsStay
  <2>2. CASE p # None
    <3>1. pairs' = Append(pairs, [data |-> d, control |-> k])  BY <1>3, <1>a, <2>2
    <3>2. ~Ready(d) /\ Ready(d)'  BY <1>3, <1>5, <2>2
    <3>3. \A x \in Conns : Ready(x) => Ready(x)'  BY <1>3, <1>5, <2>2
    <3> QED BY <1>1, <1>u, <3>1, <3>2, <3>3, PairAdded
  <2> QED BY <2>1, <2>2
<1>11. FramesInv' /\ OrderInv'
  <2>1. ASSUME NEW u \in Threads, NEW dh \in Channels, NEW x, NEW f \in FrameType,
               Live(u, dh), x = ConnOf(u, dh), FrameOK(u, dh, x, f)
        PROVE  FrameOK(u, dh, x, f)'
    <3>1. x \in Conns  BY <1>i, <2>1, LiveConn DEF Live
    <3>2. Alive(x)' = Alive(x) /\ Knows(x)' = Knows(x) /\ Told(u, dh)' = Told(u, dh)
      BY <1>5, <1>l, <3>1
    <3>3. Returned(u)' = Returned(u)  BY <1>u DEF clientVars, Returned
    <3> QED BY <1>u, <2>1, <3>2, <3>3 DEF FrameOK
  <2>2. UNCHANGED <<up, modulus>>  BY <1>u
  <2> QED BY <1>i, <1>l, <2>1, <2>2, FramesStay
<1>12. AwaitedInv'
  <2> SUFFICES ASSUME NEW u \in Threads, NEW dh \in Channels, Live(u, dh)'
               PROVE  Awaited(u, dh, ConnOf(u, dh))'
    BY DEF AwaitedInv
  <2>1. PICK x : x = ConnOf(u, dh)  OBVIOUS
  <2>2. Live(u, dh) /\ ConnOf(u, dh)' = x  BY <1>l, <2>1
  <2>3. Awaited(u, dh, x) /\ x \in Conns
    BY <1>i, <2>1, <2>2, LiveConn DEF AwaitedInv, Live
  <2>4. Knows(x)' = Knows(x) /\ Told(u, dh)' = Told(u, dh)  BY <1>5, <1>l, <2>3
  <2>5. \A m, v : OnWay(x, m, v) => OnWay(x, m, v)'  BY <1>u, OnWayStays
  <2>6. Awaited(u, dh, x)'  BY <1>u, <2>3, <2>4, <2>5 DEF Awaited
  <2> QED BY <2>2, <2>6 DEF Awaited, Knows, Alive, OnWay
<1> QED BY <1>6, <1>7, <1>8, <1>9, <1>10, <1>11, <1>12, <1>l DEF SetupInv

----------------------------------------------------------------------------
(* The invariant.                                                          *)

LEMMA StartHolds ==
  Init => SetupInv
<1> SUFFICES ASSUME Init PROVE SetupInv
  OBVIOUS
<1>1. modulus \in Nat /\ modulus > 0 /\ IdMod \in Nat /\ IdMod > 0
  BY ModuliAssumption, NumbersAssumption DEF Init
<1>2. 0 \in Ids  BY <1>1 DEF Ids
<1>3. /\ modulus \in Moduli /\ current = 0 /\ unused = [b \in Bundles |-> 0]
      /\ wants \in [Threads -> {"dual", "single"}] /\ at = [t \in Threads |-> "start"]
      /\ first = [t \in Threads |-> 0]
      /\ id = [t \in Threads |-> [ch \in Channels |-> None]]
      /\ number = [t \in Threads |-> [ch \in Channels |-> None]]
      /\ said = [t \in Threads |-> [ch \in Channels |-> 0]]
      /\ queues = {} /\ clash = FALSE /\ overlapped = FALSE
  BY DEF Init
<1>4. /\ up = [b \in Bundles |-> <<>>] /\ down = [c \in Conns |-> <<>>]
      /\ used_ids = 0 /\ super = [c \in Conns |-> None] /\ house = <<>>
      /\ looking = [b \in Bundles |-> None] /\ pairs = <<>> /\ heard = [c \in Conns |-> <<>>]
  BY DEF Init, Conns
<1>5. ClientTypeOK
  <2>1. current \in Nat /\ unused \in [Bundles -> Ids] /\ first \in [Threads -> Nat]  BY <1>2, <1>3
  <2>2. at \in [Threads -> Places]  BY <1>3 DEF Places
  <2>3. /\ id \in [Threads -> [Channels -> Ids \cup {None}]]
        /\ number \in [Threads -> [Channels -> Nat \cup {None}]]
        /\ said \in [Threads -> [Channels -> Nat]]
    BY <1>3
  <2> QED BY <1>3, <2>1, <2>2, <2>3 DEF ClientTypeOK
<1>6. WireTypeOK  BY <1>4 DEF WireTypeOK
<1>7. ServerTypeOK
  <2>1. house \in [0..(0 - 1) -> Conns \cup {None}]
    <3>1. DOMAIN house = {} /\ house = [n \in {} |-> None]  BY <1>4
    <3>2. 0..(0 - 1) = {}  OBVIOUS
    <3> QED BY <3>1, <3>2
  <2>2. 0 \in Nat  OBVIOUS
  <2>3. \E size \in Nat : house \in [0..(size - 1) -> Conns \cup {None}]  BY <2>1, <2>2
  <2>4. pairs \in Seq(PairType) /\ heard \in [Conns -> Seq(EventType)]  BY <1>4
  <2>5. super \in [Conns -> SuperStates \cup {None}] /\ looking \in [Bundles -> Conns \cup {None}]
    BY <1>4
  <2> QED BY <1>4, <2>2, <2>3, <2>4, <2>5 DEF ServerTypeOK
<1>8. \A t \in Threads, ch \in Channels :
        /\ ~HasId(t, ch) /\ ~Made(t, ch) /\ ~Live(t, ch) /\ ~Returned(t)
        /\ id[t][ch] = None /\ said[t][ch] = 0
  BY <1>3 DEF HasId, Made, Live, Returned, Both
<1>9. \A c \in Conns : ~Alive(c) /\ ~Knows(c) /\ down[c] = <<>> /\ heard[c] = <<>>
  BY <1>4 DEF Alive, Knows
<1>10. SpawnInv
  <2>1. \A t \in Threads : wants[t] = "single" => at[t] \in {"start", "read1", "bump1", "spawned"}
    BY <1>3
  <2> QED BY <1>8, <2>1 DEF SpawnInv, SpawnRow
<1>11. ConnsInv  BY <1>3, <1>8 DEF ConnsInv
<1>12. ServerInv  BY <1>8, <1>9 DEF ServerInv
<1>13. HouseInv  BY <1>4, <1>9 DEF HouseInv
<1>14. MeetInv
  <2>1. "control" \in Channels  BY DEF Channels
  <2> QED BY <1>4, <1>8, <2>1 DEF MeetInv
<1>15. PairsInv
  <2>1. Len(pairs) = 0 /\ DOMAIN pairs = {}  BY <1>4
  <2> QED BY <2>1 DEF PairsInv, IsInjective
<1>16. FramesInv /\ OrderInv
  <2>1. \A b \in Bundles : Len(up[b]) = 0  BY <1>4
  <2> QED BY <2>1 DEF FramesInv, OrderInv
<1>17. AwaitedInv  BY <1>8 DEF AwaitedInv
<1> QED BY <1>5, <1>6, <1>7, <1>10, <1>11, <1>12, <1>13, <1>14, <1>15, <1>16, <1>17
        DEF SetupInv, SetupTypeOK

LEMMA StutterKeeps ==
  ASSUME SetupInv, UNCHANGED vars
  PROVE  SetupInv'
<1>u. /\ UNCHANGED <<modulus, current, unused, queues, wants, at, first, id, number, said,
                     overlapped, clash>>
      /\ UNCHANGED <<up, down, used_ids, super, house, looking, pairs, heard>>
      /\ UNCHANGED serverVars
  BY DEF vars, clientVars, historyVars, serverVars
<1>0. SetupTypeOK  BY DEF SetupInv
<1>1. SetupTypeOK'
  <2>1. Bundles' = Bundles  BY <1>u DEF Bundles
  <2>2. ClientTypeOK'
    <3>1. Conns' = Conns  BY <2>1 DEF Conns, Ids
    <3> QED BY <1>0, <1>u, <2>1, <3>1 DEF SetupTypeOK, ClientTypeOK
  <2> QED BY <1>0, <1>u, <2>2, SameWireTypes DEF SetupTypeOK
<1>2. CASE clash  BY <1>1, <1>2, <1>u DEF SetupInv
<1>3. CASE ~clash
  <2>1. Up  BY <1>3 DEF Up
  <2>2. /\ SpawnInv /\ ConnsInv /\ ServerInv /\ HouseInv /\ MeetInv /\ PairsInv
        /\ FramesInv /\ OrderInv /\ AwaitedInv
    BY <2>1, UpFacts
  <2>3. \A t \in Threads : ThreadSame(t)  BY <1>u DEF ThreadSame
  <2>4. \A t \in Threads, ch \in Channels : SameLink(t, ch)  BY <2>3, SameThreadLink
  <2>5. SpawnInv'  BY <1>u, <2>2 DEF SpawnInv, SpawnRow, HasId, Returned
  <2>6. ConnsInv'
    <3>1. \A t \in Threads, ch \in Channels :
            Made(t, ch)' = Made(t, ch) /\ (Made(t, ch) => ConnOf(t, ch)' = ConnOf(t, ch))
      BY <2>3, SameThreadMade
    <3> QED BY <1>u, <2>2, <3>1, ConnsStay
  <2>7. UNCHANGED <<serverVars, modulus, up, down>>  BY <1>u
  <2>8. /\ ServerInv' /\ HouseInv' /\ MeetInv' /\ PairsInv'
        /\ FramesInv' /\ OrderInv' /\ AwaitedInv'
    BY <1>0, <2>2, <2>4, <2>7, QuietKeeps
  <2> QED BY <1>1, <2>5, <2>6, <2>8 DEF SetupInv
<1> QED BY <1>2, <1>3

LEMMA StepKeeps ==
  SetupInv /\ [Next]_vars => SetupInv'
<1> SUFFICES ASSUME SetupInv, [Next]_vars PROVE SetupInv'
  OBVIOUS
<1>1. CASE UNCHANGED vars  BY <1>1, StutterKeeps
<1>2. ASSUME NEW t \in Threads, SpawnStep(t) PROVE SetupInv'
  <2>1. Up  BY <1>2 DEF SpawnStep, Up
  <2>2. CASE PickBundle(t)  BY <2>1, <2>2, PickKeeps
  <2>3. CASE ReadUnusedId(t)  BY <2>1, <2>3, ReadKeeps
  <2>4. CASE MakeConnection(t)  BY <2>1, <2>4, MakeKeeps
  <2>5. ASSUME NEW ch \in Channels, ReceiveNumber(t, ch) PROVE SetupInv'
    BY <2>1, <2>5, ReceiveKeeps
  <2>6. ASSUME NEW ch \in Channels, TellRole(t, ch) PROVE SetupInv'
    BY <2>1, <2>6, TellKeeps
  <2> QED BY <1>2, <2>2, <2>3, <2>4, <2>5, <2>6 DEF SpawnStep
<1>3. ASSUME NEW t \in Threads, User(t) PROVE SetupInv'
  <2>1. Up  BY <1>3 DEF User, Up
  <2>2. PICK ch \in Channels : Say(t, ch)  BY <1>3 DEF User
  <2> QED BY <2>1, <2>2, SayKeeps
<1>4. ASSUME NEW b \in Bundles, Worker(b) PROVE SetupInv'
  <2>1. Up  BY <1>4 DEF Worker, Up
  <2>2. CASE FindPartner(b)  BY <2>1, <2>2, FindKeeps
  <2>3. ASSUME NEW c \in {b} \X Ids, MakeSuperState(b, c) \/ TakeRole(b, c) \/ DeliverToChild(b, c)
        PROVE  SetupInv'
    <3>1. c \in Conns  BY DEF Conns
    <3> QED BY <2>1, <2>3, <3>1, MakeStateKeeps, TakeRoleKeeps, DeliverKeeps
  <2> QED BY <1>4, <2>2, <2>3 DEF Worker
<1> QED BY <1>1, <1>2, <1>3, <1>4 DEF Next

LEMMA SetupHolds ==
  Spec => []SetupInv
<1>1. Init => SetupInv  BY StartHolds
<1>2. SetupInv /\ [Next]_vars => SetupInv'  BY StepKeeps
<1> QED BY <1>1, <1>2, PTL DEF Spec

\* Whatever the threads do, until two connections clash: the first message of
\* a super_state without child_state is its role, and names another number than
\* its own (the asserts at dual_connection_superstate.cpp 38 and 43).
THEOREM RoleBeforeMessages ==
  Spec => []RoleComesFirst
<1>1. SetupInv => RoleComesFirst
  <2> SUFFICES ASSUME SetupInv, ~clash, NEW b \in Bundles, NEW c \in {b} \X Ids,
                      Receives(b, c), super[c] # None, super[c].child = "none"
               PROVE  /\ super[c].my_partner = -1 /\ Head(up[b]).kind = "role"
                      /\ Head(up[b]).value # super[c].my_id
    BY DEF RoleComesFirst
  <2>1. Up  BY DEF Up
  <2>2. PICK t \in Threads, ch \in Channels : \E f : HeadOf(b, c, t, ch, f)  BY <2>1, HeadFrame
  <2>3. PICK f : HeadOf(b, c, t, ch, f)  BY <2>2
  <2>4. Alive(c) /\ ~Ready(c)  BY DEF Alive, Ready
  <2>5. f.kind = "role" /\ super[c].my_partner = -1  BY <2>1, <2>3, <2>4, RoleFirst
  <2>6. f = Head(up[b]) /\ Live(t, ch) /\ c = ConnOf(t, ch) /\ FrameOK(t, ch, c, f)
    BY <2>3 DEF HeadOf
  <2>7. Told(t, ch) /\ f.value = number[t][Other(ch)]  BY <2>5, <2>6 DEF FrameOK
  <2>8. number[t][Other(ch)] # super[c].my_id
    <3>1. PICK d : d = ConnOf(t, Other(ch))  OBVIOUS
    <3>2. number[t][Other(ch)] = super[d].my_id /\ super[d].my_id # super[c].my_id
      BY <2>1, <2>4, <2>6, <2>7, <3>1, RoleGiven
    <3> QED BY <3>2
  <2> QED BY <2>5, <2>6, <2>7, <2>8
<1> QED BY <1>1, SetupHolds, PTL

\* Each pair of states made is of the two connections of one dual_connection,
\* the data_state of its data connection, and is made once: two super_states
\* that meet in the clearing_house are never those of two threads, and never
\* both find each other (dual_connection_superstate.cpp 32-52).
THEOREM PairsAreRight ==
  Spec => []PairedRight
<1>1. SetupInv => PairedRight
  <2> SUFFICES ASSUME SetupInv, ~clash
               PROVE  /\ \A i \in 1..Len(pairs) : \E t \in Threads :
                           pairs[i] = [data |-> ConnOf(t, "data"), control |-> ConnOf(t, "control")]
                      /\ IsInjective(pairs)
    BY DEF PairedRight
  <2>1. PairsInv  BY DEF SetupInv
  <2> QED BY <2>1 DEF PairsInv
<1> QED BY <1>1, SetupHolds, PTL

\* What the callback of a channel was given is a prefix of what was sent on it:
\* in order, each message once, none of the other channel or another thread
\* (dual_connection.hpp 170-195, dual_connection.cpp 87-89).
THEOREM HeardAsSaid ==
  Spec => []HeardInOrder
<1>1. SetupInv => HeardInOrder
  <2> SUFFICES ASSUME SetupInv, ~clash, NEW t \in Threads, NEW ch \in Channels
               PROVE  /\ Len(Heard(t, ch)) <= said[t][ch]
                      /\ \A k \in 1..Len(Heard(t, ch)) :
                           Heard(t, ch)[k] = [event |-> ch, value |-> k]
    BY DEF HeardInOrder
  <2>i. SetupTypeOK /\ ServerInv  BY DEF SetupInv
  <2>1. CASE Returned(t)
    <3>1. PICK c : c = ConnOf(t, ch)  OBVIOUS
    <3>2. Live(t, ch) /\ Heard(t, ch) = heard[c]
      BY <2>1, <3>1 DEF Live, Made, Returned, Heard
    <3>3. HeardRow(t, ch, c)  BY <2>i, <3>1, <3>2 DEF ServerInv
    <3> QED BY <3>2, <3>3 DEF HeardRow
  <2>2. CASE ~Returned(t)
    <3>1. Heard(t, ch) = <<>>  BY <2>2 DEF Heard, Returned
    <3>2. Len(Heard(t, ch)) = 0  BY <3>1
    <3>3. said[t][ch] \in Nat  BY <2>i DEF SetupTypeOK, ClientTypeOK
    <3> QED BY <3>2, <3>3
  <2> QED BY <2>1, <2>2
<1> QED BY <1>1, SetupHolds, PTL

----------------------------------------------------------------------------
(* Ids are taken once.                                                     *)

LEMMA TakenAreDrawn ==
  ASSUME Up, NEW b \in Bundles
  PROVE  /\ TakenIds(b) = {x \in Threads \X Channels : HasId(x[1], x[2]) /\ BundleOf(x[1], x[2]) = b}
         /\ MadeOn(b) \subseteq TakenIds(b)
<1>i. SetupTypeOK /\ SpawnInv  BY UpFacts
<1>1. \A t \in Threads, ch \in Channels :
        /\ id[t][ch] # None <=> HasId(t, ch)
        /\ Made(t, ch) => HasId(t, ch)
  BY <1>i, LiveConn DEF SpawnInv, SpawnRow
<1>2. \A x \in Threads \X Channels : x[1] \in Threads /\ x[2] \in Channels  OBVIOUS
<1> QED BY <1>1, <1>2 DEF TakenIds, MadeOn

LEMMA TakenCount ==
  ASSUME Up, IdsInv, NEW b \in Bundles
  PROVE  /\ IsFiniteSet(TakenIds(b)) /\ Cardinality(TakenIds(b)) \in Nat
         /\ IsFiniteSet(MadeOn(b)) /\ Cardinality(MadeOn(b)) \in Nat
         /\ Cardinality(MadeOn(b)) <= Cardinality(TakenIds(b))
<1>1. IsFiniteSet(TakenIds(b))  BY DEF IdsInv
<1>2. MadeOn(b) \in SUBSET TakenIds(b)  BY TakenAreDrawn
<1> QED BY <1>1, <1>2, FS_Subset, FS_CardinalityType

\* A step that draws no id and makes no connection.
IdsQuiet ==
  /\ UNCHANGED <<modulus, unused, queues, overlapped>>
  /\ \A t \in Threads, ch \in Channels :
       /\ HasId(t, ch)' = HasId(t, ch) /\ Made(t, ch)' = Made(t, ch)
       /\ HasId(t, ch) => BundleOf(t, ch)' = BundleOf(t, ch) /\ id'[t][ch] = id[t][ch]

LEMMA IdsStay ==
  ASSUME Up, Up', IdsQuiet, IdsInv
  PROVE  IdsInv'
<1>b. Bundles' = Bundles /\ UNCHANGED <<unused, queues, overlapped>>  BY DEF IdsQuiet, Bundles
<1>m. \A t \in Threads, ch \in Channels : Made(t, ch) => HasId(t, ch)
  BY UpFacts, LiveConn
<1>1. ASSUME NEW b \in Bundles
      PROVE  TakenIds(b)' = TakenIds(b) /\ MadeOn(b)' = MadeOn(b)
  <2>1. TakenIds(b)' = {x \in Threads \X Channels : HasId(x[1], x[2])' /\ BundleOf(x[1], x[2])' = b}
    <3>1. \A t \in Threads, ch \in Channels : id'[t][ch] # None <=> HasId(t, ch)'
      BY DEF Up, SetupInv, SpawnInv, SpawnRow
    <3>2. \A x \in Threads \X Channels : x[1] \in Threads /\ x[2] \in Channels  OBVIOUS
    <3> QED BY <3>1, <3>2 DEF TakenIds
  <2>2. TakenIds(b) = {x \in Threads \X Channels : HasId(x[1], x[2]) /\ BundleOf(x[1], x[2]) = b}
    BY TakenAreDrawn
  <2>3. \A x \in Threads \X Channels : x[1] \in Threads /\ x[2] \in Channels  OBVIOUS
  <2>4. TakenIds(b)' = TakenIds(b)  BY <2>1, <2>2, <2>3 DEF IdsQuiet
  <2>5. MadeOn(b)' = MadeOn(b)  BY <1>m, <2>3 DEF IdsQuiet, MadeOn
  <2> QED BY <2>4, <2>5
<1>2. ASSUME NEW b \in Bundles, NEW m, IdsRow(b, m) PROVE IdsRow(b, m)'
  <2>1. \A t \in Threads, ch \in Channels : Drawn(t, ch, b)' => Drawn(t, ch, b) /\ id'[t][ch] = id[t][ch]
    BY DEF IdsQuiet, Drawn
  <2> QED BY <1>2, <1>b, <2>1 DEF IdsRow
<1>3. Enough' => Enough  BY <1>1, <1>b DEF Enough
<1>4. ASSUME ~overlapped', Enough', NEW b \in Bundles
      PROVE  IdsRow(b, Cardinality(MadeOn(b)))'
  <2>1. PICK m : m = Cardinality(MadeOn(b))  OBVIOUS
  <2>2. IdsRow(b, m)  BY <1>3, <1>4, <1>b, <2>1 DEF IdsInv
  <2>3. IdsRow(b, m)'  BY <1>2, <2>2
  <2>4. Cardinality(MadeOn(b)') = m  BY <1>1, <2>1
  <2> QED BY <2>3, <2>4 DEF IdsRow
<1> QED BY <1>1, <1>4, <1>b DEF IdsInv

LEMMA NextOfIds ==
  ASSUME NEW m \in Nat, IdMod \in Nat, m + 1 < IdMod
  PROVE  (m + 1) % IdMod = m + 1
OBVIOUS

\* Reading unused_id.
LEMMA ReadIds ==
  ASSUME Up, Up', IdsInv, NEW t \in Threads, ReadUnusedId(t)
  PROVE  IdsInv'
<1>x. PICK ch, b : ch = Spawning(t) /\ b = BundleOf(t, ch)  OBVIOUS
<1>i. SetupTypeOK /\ SpawnInv  BY UpFacts
<1>c. ch \in Channels  BY <1>x DEF Spawning, Channels
<1>a. /\ \/ at[t] = "read1" /\ at' = [at EXCEPT ![t] = "bump1"] /\ ch = "data"
         \/ at[t] = "read2" /\ at' = [at EXCEPT ![t] = "bump2"] /\ ch = "control"
      /\ id' = [id EXCEPT ![t][ch] = unused[b]]
      /\ ~overlapped' => ~overlapped /\ \A u \in Threads \ {t} :
                           ~(InBump(u) /\ BundleOf(u, Spawning(u)) = b)
  BY <1>x DEF ReadUnusedId, Goes, Spawning
<1>u. UNCHANGED <<modulus, wants, unused, queues, first>> /\ Bundles' = Bundles
  BY DEF ReadUnusedId, Bundles
<1>t. /\ at \in [Threads -> Places] /\ id \in [Threads -> [Channels -> Ids \cup {None}]]
  BY <1>i DEF SetupTypeOK, ClientTypeOK
<1>b. b \in Bundles /\ IdMod \in Nat  BY <1>c, <1>i, <1>x, ConnTypes
<1>1. \A u \in Threads, dh \in Channels : BundleOf(u, dh)' = BundleOf(u, dh)
  BY <1>u DEF BundleOf
<1>2. \A u \in Threads, dh \in Channels : u # t =>
        HasId(u, dh)' = HasId(u, dh) /\ Made(u, dh)' = Made(u, dh) /\ id'[u][dh] = id[u][dh]
  BY <1>a, <1>t, <1>u DEF HasId, Made, Returned
<1>3. /\ ~HasId(t, ch) /\ HasId(t, ch)' /\ ~Made(t, ch) /\ ~Made(t, ch)' /\ id'[t][ch] = unused[b]
      /\ \A dh \in Channels : dh # ch =>
           /\ HasId(t, dh)' = HasId(t, dh) /\ Made(t, dh)' = Made(t, dh)
           /\ HasId(t, dh) => Made(t, dh)
           /\ id'[t][dh] = id[t][dh]
  <2>1. CASE ch = "data"
    <3>1. at[t] = "read1" /\ at'[t] = "bump1"  BY <1>a, <1>t, <2>1
    <3> QED BY <1>a, <1>c, <1>t, <2>1, <3>1 DEF HasId, Made, Returned, Both, Channels
  <2>2. CASE ch = "control"
    <3>1. at[t] = "read2" /\ at'[t] = "bump2"  BY <1>a, <1>t, <2>2
    <3> QED BY <1>a, <1>c, <1>t, <2>2, <3>1 DEF HasId, Made, Returned, Both, Channels
  <2> QED BY <1>c, <2>1, <2>2 DEF Channels
<1>p. \A x \in Threads \X Channels : x[1] \in Threads /\ x[2] \in Channels /\ x = <<x[1], x[2]>>
  OBVIOUS
<1>4. ASSUME NEW d \in Bundles
      PROVE  /\ TakenIds(d)' = IF d = b THEN TakenIds(d) \cup {<<t, ch>>} ELSE TakenIds(d)
             /\ <<t, ch>> \notin TakenIds(d)
             /\ MadeOn(d)' = MadeOn(d)
  <2>1. TakenIds(d)' = {x \in Threads \X Channels : HasId(x[1], x[2])' /\ BundleOf(x[1], x[2])' = d}
    <3>1. \A u \in Threads, dh \in Channels : id'[u][dh] # None <=> HasId(u, dh)'
      BY DEF Up, SetupInv, SpawnInv, SpawnRow
    <3> QED BY <1>p, <3>1 DEF TakenIds
  <2>2. TakenIds(d) = {x \in Threads \X Channels : HasId(x[1], x[2]) /\ BundleOf(x[1], x[2]) = d}
    BY TakenAreDrawn
  <2>3. <<t, ch>> \notin TakenIds(d)  BY <1>3, <2>2
  <2>4. MadeOn(d)' = MadeOn(d)
    <3>1. \A u \in Threads, dh \in Channels : Made(u, dh)' = Made(u, dh)
      <4>1. Made(t, ch)' = Made(t, ch)  BY <1>a, <1>3 DEF Made
      <4> QED BY <1>2, <1>3, <4>1
    <3> QED BY <1>1, <1>p, <3>1 DEF MadeOn
  <2>5. ASSUME NEW x \in Threads \X Channels
        PROVE  x \in TakenIds(d)' <=> (x \in TakenIds(d) \/ (d = b /\ x = <<t, ch>>))
    <3>1. CASE x = <<t, ch>>
      <4>1. x[1] = t /\ x[2] = ch  BY <3>1
      <4>2. BundleOf(t, ch)' = b  BY <1>1, <1>c, <1>x
      <4> QED BY <1>3, <2>1, <2>3, <3>1, <4>1, <4>2
    <3>2. CASE x # <<t, ch>>
      <4>1. x[1] \in Threads /\ x[2] \in Channels /\ ~(x[1] = t /\ x[2] = ch)  BY <1>p, <3>2
      <4>2. HasId(x[1], x[2])' = HasId(x[1], x[2])  BY <1>2, <1>3, <4>1
      <4> QED BY <1>1, <2>1, <2>2, <3>2, <4>1, <4>2
    <3> QED BY <3>1, <3>2
  <2>6. <<t, ch>> \in Threads \X Channels  BY <1>c
  <2>7. TakenIds(d) \subseteq Threads \X Channels /\ TakenIds(d)' \subseteq Threads \X Channels
    BY <2>1, <2>2
  <2>8. TakenIds(d)' = IF d = b THEN TakenIds(d) \cup {<<t, ch>>} ELSE TakenIds(d)
    BY <2>5, <2>6, <2>7
  <2> QED BY <2>3, <2>4, <2>8
<1>5. ASSUME NEW d \in Bundles
      PROVE  /\ IsFiniteSet(TakenIds(d)')
             /\ Cardinality(TakenIds(d)') \in Nat /\ Cardinality(TakenIds(d)) \in Nat
             /\ Cardinality(TakenIds(d)') = IF d = b THEN Cardinality(TakenIds(d)) + 1
                                            ELSE Cardinality(TakenIds(d))
  <2>1. IsFiniteSet(TakenIds(d)) /\ Cardinality(TakenIds(d)) \in Nat  BY TakenCount
  <2>2. CASE d = b
    <3>1. TakenIds(d)' = TakenIds(d) \cup {<<t, ch>>} /\ <<t, ch>> \notin TakenIds(d)
      BY <1>4, <2>2
    <3>2. PICK S, x : S = TakenIds(d) /\ x = <<t, ch>>  OBVIOUS
    <3>3. IsFiniteSet(S \cup {x}) /\ Cardinality(S \cup {x}) = Cardinality(S) + 1
      BY <2>1, <3>1, <3>2, FS_AddElement
    <3> QED BY <2>1, <2>2, <3>1, <3>2, <3>3
  <2>3. CASE d # b  BY <1>4, <2>1, <2>3
  <2> QED BY <2>2, <2>3
<1>6. ASSUME ~overlapped', Enough', NEW d \in Bundles
      PROVE  IdsRow(d, Cardinality(MadeOn(d)))'
  <2>1. PICK m : m = Cardinality(MadeOn(d))  OBVIOUS
  <2>2. ~overlapped /\ Enough
    <3>1. \A e \in Bundles : Cardinality(TakenIds(e)') <= IdMod  BY <1>6, <1>u DEF Enough
    <3>2. \A e \in Bundles : Cardinality(TakenIds(e)) <= IdMod  BY <1>5, <1>b, <3>1
    <3> QED BY <1>6, <1>a, <3>2 DEF Enough
  <2>3. IdsRow(d, m)  BY <2>1, <2>2 DEF IdsInv
  <2>4. m \in Nat /\ m <= Cardinality(TakenIds(d))  BY <2>1, TakenCount
  <2>5. ASSUME NEW u \in Threads, NEW dh \in Channels, Drawn(u, dh, d)', ~(u = t /\ dh = ch)
        PROVE  Drawn(u, dh, d) /\ id'[u][dh] = id[u][dh] /\ d # b
    <3>1. u # t
      <4>1. HasId(u, dh)' /\ ~Made(u, dh)'  BY <2>5 DEF Drawn
      <4> QED BY <1>3, <2>5, <4>1
    <3>2. Drawn(u, dh, d) /\ id'[u][dh] = id[u][dh]
      <4>1. HasId(u, dh)' /\ ~Made(u, dh)' /\ BundleOf(u, dh)' = d  BY <2>5 DEF Drawn
      <4> QED BY <1>1, <1>2, <3>1, <4>1 DEF Drawn
    <3>3. InBump(u) /\ Spawning(u) = dh
      <4>1. HasId(u, dh) /\ ~Made(u, dh)  BY <3>2 DEF Drawn
      <4>2. at[u] \in Places  BY <1>t
      <4> QED BY <4>1, <4>2 DEF HasId, Made, InBump, Spawning, Places, Returned, Both, Channels
    <3>4. d # b  BY <1>6, <1>a, <3>1, <3>2, <3>3 DEF Drawn
    <3> QED BY <3>2, <3>4
  <2>6. d = b => unused[b] = m
    <3>1. Cardinality(TakenIds(b)') <= IdMod  BY <1>6, <1>b, <1>u DEF Enough
    <3>2. d = b => m < IdMod  BY <1>5, <1>b, <2>4, <3>1
    <3> QED BY <2>3, <3>2 DEF IdsRow
  <2>7. Drawn(t, ch, d)' => d = b  BY <1>1, <1>c, <1>x DEF Drawn
  <2>8. ASSUME NEW u \in Threads, NEW dh \in Channels, Drawn(u, dh, d)'
        PROVE  /\ id'[u][dh] = m
               /\ \A w \in Threads, eh \in Channels : Drawn(w, eh, d)' => w = u /\ eh = dh
    <3>1. CASE u = t /\ dh = ch
      <4>1. d = b  BY <2>7, <2>8, <3>1
      <4> QED BY <1>3, <2>5, <2>6, <3>1, <4>1
    <3>2. CASE ~(u = t /\ dh = ch)
      <4>1. Drawn(u, dh, d) /\ id'[u][dh] = id[u][dh] /\ d # b  BY <2>5, <2>8, <3>2
      <4>2. \A w \in Threads, eh \in Channels : Drawn(w, eh, d)' => Drawn(w, eh, d)
        BY <2>5, <2>7, <4>1
      <4> QED BY <2>3, <4>1, <4>2 DEF IdsRow
    <3> QED BY <3>1, <3>2
  <2>9. IdsRow(d, m)'  BY <1>u, <2>3, <2>8 DEF IdsRow
  <2>10. Cardinality(MadeOn(d)') = m  BY <1>4, <2>1
  <2> QED BY <2>9, <2>10 DEF IdsRow
<1> QED BY <1>5, <1>6, <1>u DEF IdsInv

\* The increment of unused_id, and a new queue.
LEMMA MakeIds ==
  ASSUME Up, SetupInv', ClashOnlyByOverlap, IdsInv, NEW t \in Threads, MakeConnection(t)
  PROVE  ClashInv'
<1>x. PICK ch, c, b : ch = Spawning(t) /\ c = ConnOf(t, ch) /\ b = BundleOf(t, ch)  OBVIOUS
<1>i. SetupTypeOK /\ SpawnInv  BY UpFacts
<1>c. ch \in Channels  BY <1>x DEF Spawning, Channels
<1>a. /\ \/ wants[t] = "single" /\ at[t] = "bump1" /\ at' = [at EXCEPT ![t] = "spawned"]
         \/ wants[t] = "dual" /\ at[t] = "bump1" /\ at' = [at EXCEPT ![t] = "read2"]
         \/ wants[t] = "dual" /\ at[t] = "bump2" /\ at' = [at EXCEPT ![t] = "await1"]
      /\ unused' = [unused EXCEPT ![c[1]] = (@ + 1) % IdMod]
      /\ queues' = queues \cup {c} /\ clash' = (c \in queues)
  BY <1>x DEF MakeConnection, Goes, NextId
<1>u. UNCHANGED <<modulus, wants, first, id, overlapped>> /\ Bundles' = Bundles
  BY DEF MakeConnection, Bundles
<1>t. /\ at \in [Threads -> Places] /\ unused \in [Bundles -> Ids] /\ IdMod \in Nat
  BY <1>i, ConnTypes DEF SetupTypeOK, ClientTypeOK
<1>1. /\ HasId(t, ch) /\ ~Made(t, ch) /\ Made(t, ch)'
      /\ \A dh \in Channels : dh # ch => Made(t, dh)' = Made(t, dh)
      /\ \A dh \in Channels : HasId(t, dh)' <=> Made(t, dh)'
  <2>1. CASE at[t] = "bump1"
    <3>1. ch = "data"  BY <1>x, <2>1 DEF Spawning
    <3>2. \/ wants[t] = "single" /\ at'[t] = "spawned"
          \/ wants[t] = "dual" /\ at'[t] = "read2"
      BY <1>a, <1>t, <2>1
    <3> QED BY <1>u, <2>1, <3>1, <3>2 DEF HasId, Made, Returned, Both, Channels
  <2>2. CASE at[t] = "bump2"
    <3>1. ch = "control"  BY <1>x, <2>2 DEF Spawning
    <3>2. at'[t] = "await1"  BY <1>a, <1>t, <2>2
    <3> QED BY <1>u, <2>2, <3>1, <3>2 DEF HasId, Made, Returned, Both, Channels
  <2> QED BY <1>a, <2>1, <2>2
<1>2. \A u \in Threads, dh \in Channels :
        /\ BundleOf(u, dh)' = BundleOf(u, dh)
        /\ u # t => HasId(u, dh)' = HasId(u, dh) /\ Made(u, dh)' = Made(u, dh)
  BY <1>a, <1>t, <1>u DEF BundleOf, HasId, Made, Returned
<1>b. b \in Bundles /\ id[t][ch] \in Ids /\ c[1] = b /\ c[2] = id[t][ch]
  <2>1. id[t][ch] # None  BY <1>1, <1>c, <1>i DEF SpawnInv, SpawnRow
  <2> QED BY <1>c, <1>i, <1>x, <2>1, ConnTypes
<1>3. \A d \in Bundles : TakenIds(d)' = TakenIds(d)  BY <1>u, <1>2 DEF TakenIds, BundleOf
<1>e. Enough' = Enough  BY <1>3, <1>u DEF Enough
<1>d. Drawn(t, ch, b)  BY <1>1, <1>x DEF Drawn
<1>4. ASSUME ~overlapped, Enough, NEW d \in Bundles, NEW m, m = Cardinality(MadeOn(d))
      PROVE  /\ m \in Nat /\ IdsRow(d, m)
             /\ d = b => id[t][ch] = m
  <2>1. m \in Nat /\ IdsRow(d, m)  BY <1>4, TakenCount DEF IdsInv
  <2>2. d = b => id[t][ch] = m  BY <1>c, <1>d, <2>1 DEF IdsRow
  <2> QED BY <2>1, <2>2
<1>5. ClashOnlyByOverlap'
  <2> SUFFICES ASSUME clash', ~overlapped
               PROVE  \E d \in Bundles : Cardinality(TakenIds(d)') > IdMod
    BY <1>u DEF ClashOnlyByOverlap
  <2>1. ASSUME Enough PROVE FALSE
    <3>1. PICK m : m = Cardinality(MadeOn(b))  OBVIOUS
    <3>2. m \in Nat /\ IdsRow(b, m) /\ id[t][ch] = m  BY <1>4, <1>b, <2>1, <3>1
    <3>3. c \in queues  BY <1>a
    <3>4. c[2] < m  BY <1>b, <3>2, <3>3 DEF IdsRow
    <3> QED BY <1>b, <3>2, <3>4
  <2>2. PICK d \in Bundles : ~(Cardinality(TakenIds(d)) <= IdMod)  BY <2>1 DEF Enough
  <2>3. Cardinality(TakenIds(d)) \in Nat  BY TakenCount
  <2> QED BY <1>3, <1>t, <2>2, <2>3
<1>p. \A x \in Threads \X Channels : x[1] \in Threads /\ x[2] \in Channels /\ x = <<x[1], x[2]>>
  OBVIOUS
<1>6. ASSUME NEW d \in Bundles
      PROVE  MadeOn(d)' = IF d = b THEN MadeOn(d) \cup {<<t, ch>>} ELSE MadeOn(d)
  <2>1. ASSUME NEW x \in Threads \X Channels
        PROVE  x \in MadeOn(d)' <=> (x \in MadeOn(d) \/ (d = b /\ x = <<t, ch>>))
    <3>1. CASE x = <<t, ch>>
      <4>1. x[1] = t /\ x[2] = ch  BY <3>1
      <4>2. BundleOf(t, ch)' = b  BY <1>2, <1>c, <1>x
      <4> QED BY <1>1, <3>1, <4>1, <4>2 DEF MadeOn
    <3>2. CASE x # <<t, ch>>
      <4>1. x[1] \in Threads /\ x[2] \in Channels /\ ~(x[1] = t /\ x[2] = ch)  BY <1>p, <3>2
      <4>2. Made(x[1], x[2])' = Made(x[1], x[2])  BY <1>1, <1>2, <4>1
      <4> QED BY <1>2, <3>2, <4>1, <4>2 DEF MadeOn
    <3> QED BY <3>1, <3>2
  <2>2. <<t, ch>> \in Threads \X Channels  BY <1>c
  <2>3. MadeOn(d) \subseteq Threads \X Channels /\ MadeOn(d)' \subseteq Threads \X Channels
    BY DEF MadeOn
  <2> QED BY <2>1, <2>2, <2>3
<1>7. ASSUME NEW d \in Bundles, NEW m, m = Cardinality(MadeOn(d))
      PROVE  Cardinality(MadeOn(d)') = IF d = b THEN m + 1 ELSE m
  <2>1. IsFiniteSet(MadeOn(d))  BY TakenCount
  <2>2. PICK S, x : S = MadeOn(d) /\ x = <<t, ch>>  OBVIOUS
  <2>3. x \notin S  BY <1>1, <2>2 DEF MadeOn
  <2>4. Cardinality(S \cup {x}) = Cardinality(S) + 1  BY <2>1, <2>2, <2>3, FS_AddElement
  <2> QED BY <1>6, <1>7, <2>2, <2>4
<1>8. ASSUME ~overlapped', Enough', NEW d \in Bundles
      PROVE  IdsRow(d, Cardinality(MadeOn(d)))'
  <2>1. PICK m, n : m = Cardinality(MadeOn(d)) /\ n = IF d = b THEN m + 1 ELSE m  OBVIOUS
  <2>2. m \in Nat /\ IdsRow(d, m) /\ (d = b => id[t][ch] = m)
    BY <1>4, <1>8, <1>e, <1>u, <2>1
  <2>3. ASSUME n < IdMod PROVE unused'[d] = n
    <3>1. CASE d = b
      <4>1. unused'[d] = (unused[d] + 1) % IdMod  BY <1>a, <1>b, <1>t, <3>1
      <4>2. n = m + 1 /\ m < IdMod  BY <1>t, <2>1, <2>2, <2>3, <3>1
      <4>3. unused[d] = m  BY <2>2, <4>2 DEF IdsRow
      <4>4. (m + 1) % IdMod = m + 1  BY <1>t, <2>2, <2>3, <4>2, NextOfIds
      <4> QED BY <4>1, <4>2, <4>3, <4>4
    <3>2. CASE d # b
      <4>1. unused'[d] = unused[d]  BY <1>a, <1>b, <1>t, <3>2
      <4> QED BY <2>1, <2>2, <2>3, <3>2, <4>1 DEF IdsRow
    <3> QED BY <3>1, <3>2
  <2>4. \A e \in queues' : e[1] = d => e[2] < n
    <3> SUFFICES ASSUME NEW e \in queues', e[1] = d PROVE e[2] < n
      OBVIOUS
    <3>1. CASE e \in queues
      <4>1. e[2] < m  BY <2>2, <3>1 DEF IdsRow
      <4>2. e[2] \in Ids /\ Ids \subseteq Nat
        BY <1>i, <3>1, ConnTypes DEF SetupTypeOK, ClientTypeOK
      <4>3. e[2] \in Nat  BY <4>2
      <4> QED BY <2>1, <2>2, <4>1, <4>3
    <3>2. CASE e = c
      <4>1. d = b /\ e[2] = m  BY <1>b, <2>2, <3>2
      <4> QED BY <2>1, <2>2, <4>1
    <3> QED BY <1>a, <3>1, <3>2
  <2>5. ASSUME NEW u \in Threads, NEW dh \in Channels, Drawn(u, dh, d)'
        PROVE  Drawn(u, dh, d) /\ d # b
    <3>1. HasId(u, dh)' /\ ~Made(u, dh)' /\ BundleOf(u, dh) = d  BY <1>2, <2>5 DEF Drawn
    <3>2. u # t  BY <1>1, <3>1
    <3>3. Drawn(u, dh, d)  BY <1>2, <3>1, <3>2 DEF Drawn
    <3>4. d # b
      <4>1. d = b => u = t  BY <1>c, <1>d, <2>2, <3>3 DEF IdsRow
      <4> QED BY <3>2, <4>1
    <3> QED BY <3>3, <3>4
  <2>6. ASSUME NEW u \in Threads, NEW dh \in Channels, Drawn(u, dh, d)'
        PROVE  /\ id'[u][dh] = n
               /\ \A w \in Threads, eh \in Channels : Drawn(w, eh, d)' => w = u /\ eh = dh
    <3>1. Drawn(u, dh, d) /\ d # b  BY <2>5, <2>6
    <3> QED BY <1>u, <2>1, <2>2, <2>5, <3>1 DEF IdsRow
  <2>7. IdsRow(d, n)'  BY <2>3, <2>4, <2>6 DEF IdsRow
  <2>8. Cardinality(MadeOn(d)') = n  BY <1>7, <2>1
  <2> QED BY <2>7, <2>8 DEF IdsRow
<1>9. IdsInv'
  <2>1. \A d \in Bundles : IsFiniteSet(TakenIds(d)')  BY <1>3, TakenCount
  <2> QED BY <1>8, <1>u, <2>1 DEF IdsInv
<1> QED BY <1>5, <1>9 DEF ClashInv

LEMMA ClientQuiet ==
  ASSUME Up, UNCHANGED <<modulus, unused, queues, overlapped, wants, first, id>>,
         \A t \in Threads, ch \in Channels :
           HasId(t, ch)' = HasId(t, ch) /\ Made(t, ch)' = Made(t, ch)
  PROVE  IdsQuiet
BY DEF IdsQuiet, BundleOf

LEMMA ClashSteps ==
  ASSUME SetupInv, SetupInv', ClashInv, [Next]_vars
  PROVE  ClashInv'
<1>k. ASSUME Up, ~clash', IdsInv' PROVE ClashInv'
  BY <1>k DEF ClashInv, ClashOnlyByOverlap
<1>q. ASSUME Up, ~clash', IdsQuiet PROVE ClashInv'
  <2>1. Up' /\ IdsInv  BY <1>q DEF Up, ClashInv
  <2>2. IdsInv'  BY <1>q, <2>1, IdsStay
  <2> QED BY <1>k, <1>q, <2>2
<1>1. CASE UNCHANGED vars
  <2>1. UNCHANGED <<modulus, unused, queues, overlapped, wants, first, id, at, clash>>
    BY <1>1 DEF vars, clientVars, historyVars
  <2>2. CASE clash
    <3>1. Bundles' = Bundles /\ \A b \in Bundles : TakenIds(b)' = TakenIds(b)
      BY <2>1 DEF Bundles, TakenIds, BundleOf
    <3> QED BY <2>1, <2>2, <3>1 DEF ClashInv, ClashOnlyByOverlap
  <2>3. CASE ~clash
    <3>1. Up  BY <2>3 DEF Up
    <3>2. \A t \in Threads, ch \in Channels :
            HasId(t, ch)' = HasId(t, ch) /\ Made(t, ch)' = Made(t, ch)
      BY <2>1 DEF HasId, Made, Returned
    <3> QED BY <1>q, <2>1, <2>3, <3>1, <3>2, ClientQuiet
  <2> QED BY <2>2, <2>3
<1>2. ASSUME NEW t \in Threads, SpawnStep(t) PROVE ClashInv'
  <2>1. Up /\ ~clash  BY <1>2 DEF SpawnStep, Up
  <2>t. at \in [Threads -> Places]  BY <2>1, UpFacts DEF SetupTypeOK, ClientTypeOK
  <2>i. IdsInv /\ ClashOnlyByOverlap  BY <2>1 DEF ClashInv
  <2>2. CASE PickBundle(t)
    <3>1. /\ at[t] = "start" /\ at' = [at EXCEPT ![t] = "read1"]
          /\ UNCHANGED <<modulus, unused, queues, overlapped, wants, id, clash>>
      BY <2>2 DEF PickBundle, Goes, historyVars
    <3>2. \A u \in Threads, ch \in Channels : u # t => first'[u] = first[u]
      BY <2>1, <2>2, UpFacts DEF PickBundle, SetupTypeOK, ClientTypeOK
    <3>3. \A ch \in Channels :
            ~HasId(t, ch) /\ ~HasId(t, ch)' /\ ~Made(t, ch) /\ ~Made(t, ch)'
      BY <2>t, <3>1 DEF HasId, Made, Returned, Both
    <3>4. \A u \in Threads, ch \in Channels : u # t =>
            HasId(u, ch)' = HasId(u, ch) /\ Made(u, ch)' = Made(u, ch)
      BY <2>t, <3>1 DEF HasId, Made, Returned
    <3>5. \A u \in Threads, ch \in Channels : u # t => BundleOf(u, ch)' = BundleOf(u, ch)
      BY <3>1, <3>2 DEF BundleOf
    <3>6. \A ch \in Channels : HasId(t, ch)' = HasId(t, ch) /\ Made(t, ch)' = Made(t, ch)
      BY <2>t, <3>1 DEF HasId, Made, Returned, Both
    <3>7. IdsQuiet  BY <3>1, <3>3, <3>4, <3>5, <3>6 DEF IdsQuiet
    <3> QED BY <1>q, <2>1, <3>1, <3>7
  <2>3. CASE ReadUnusedId(t)
    <3>1. ~clash'  BY <2>1, <2>3 DEF ReadUnusedId
    <3>2. Up'  BY <3>1 DEF Up
    <3>3. IdsInv'  BY <2>1, <2>3, <2>i, <3>2, ReadIds
    <3> QED BY <1>k, <2>1, <3>1, <3>3
  <2>4. CASE MakeConnection(t)  BY <2>1, <2>4, <2>i, MakeIds
  <2>5. ASSUME NEW ch \in Channels, ReceiveNumber(t, ch) PROVE ClashInv'
    <3>1. /\ \/ at[t] = "await1" /\ at' = [at EXCEPT ![t] = "await2"]
             \/ at[t] = "await2" /\ at' = [at EXCEPT ![t] = "tell1"]
          /\ UNCHANGED <<modulus, unused, queues, overlapped, wants, first, id, clash>>
      BY <2>5 DEF ReceiveNumber, Goes, historyVars
    <3>2. \A u \in Threads, dh \in Channels :
            HasId(u, dh)' = HasId(u, dh) /\ Made(u, dh)' = Made(u, dh)
      BY <2>t, <3>1 DEF HasId, Made, Returned, Both, Channels
    <3>3. IdsQuiet  BY <2>1, <3>1, <3>2, ClientQuiet
    <3> QED BY <1>q, <2>1, <3>1, <3>3
  <2>6. ASSUME NEW ch \in Channels, TellRole(t, ch) PROVE ClashInv'
    <3>0. wants[t] = "dual"
      <4>1. at[t] \in {"tell1", "tell2"}  BY <2>6 DEF TellRole, Goes
      <4>2. SpawnRow(t) /\ wants[t] \in {"dual", "single"}
        BY <2>1, UpFacts DEF SpawnInv, SetupTypeOK, ClientTypeOK
      <4> QED BY <4>1, <4>2 DEF SpawnRow
    <3>1. /\ \/ at[t] = "tell1" /\ at' = [at EXCEPT ![t] = "tell2"]
             \/ at[t] = "tell2" /\ at' = [at EXCEPT ![t] = "spawned"]
          /\ UNCHANGED <<modulus, unused, queues, overlapped, wants, first, id, clash>>
      BY <2>6 DEF TellRole, Goes, historyVars
    <3>2. \A u \in Threads, dh \in Channels :
            HasId(u, dh)' = HasId(u, dh) /\ Made(u, dh)' = Made(u, dh)
      BY <2>t, <3>0, <3>1 DEF HasId, Made, Returned, Both, Channels
    <3>3. IdsQuiet  BY <2>1, <3>1, <3>2, ClientQuiet
    <3> QED BY <1>q, <2>1, <3>1, <3>3
  <2> QED BY <1>2, <2>2, <2>3, <2>4, <2>5, <2>6 DEF SpawnStep
<1>3. ASSUME NEW t \in Threads, User(t) PROVE ClashInv'
  <2>1. Up /\ ~clash  BY <1>3 DEF User, Up
  <2>2. UNCHANGED <<modulus, unused, queues, overlapped, wants, first, id, at, clash>>
    BY <1>3 DEF User, Say, historyVars
  <2>3. \A u \in Threads, dh \in Channels :
          HasId(u, dh)' = HasId(u, dh) /\ Made(u, dh)' = Made(u, dh)
    BY <2>2 DEF HasId, Made, Returned
  <2>4. IdsQuiet  BY <2>1, <2>2, <2>3, ClientQuiet
  <2> QED BY <1>q, <2>1, <2>2, <2>4
<1>4. ASSUME NEW b \in Bundles, Worker(b) PROVE ClashInv'
  <2>1. Up /\ ~clash  BY <1>4 DEF Worker, Up
  <2>2. UNCHANGED clientVars
    BY <1>4 DEF Worker, FindPartner, MakeSuperState, TakeRole, DeliverToChild
  <2>3. UNCHANGED <<modulus, unused, queues, overlapped, wants, first, id, at, clash>>
    BY <2>2 DEF clientVars, historyVars
  <2>4. \A u \in Threads, dh \in Channels :
          HasId(u, dh)' = HasId(u, dh) /\ Made(u, dh)' = Made(u, dh)
    BY <2>3 DEF HasId, Made, Returned
  <2>5. IdsQuiet  BY <2>1, <2>3, <2>4, ClientQuiet
  <2> QED BY <1>q, <2>1, <2>3, <2>5
<1> QED BY <1>1, <1>2, <1>3, <1>4 DEF Next

LEMMA ClashStart ==
  Init => ClashInv
<1> SUFFICES ASSUME Init PROVE ClashInv
  OBVIOUS
<1>1. ~clash /\ queues = {} /\ unused = [b \in Bundles |-> 0]
      /\ \A t \in Threads, ch \in Channels : id[t][ch] = None /\ at[t] = "start"
  BY DEF Init
<1>2. \A t \in Threads, ch \in Channels : ~HasId(t, ch) /\ ~Made(t, ch)
  BY <1>1 DEF HasId, Made, Returned, Both
<1>3. \A b \in Bundles : TakenIds(b) = {} /\ MadeOn(b) = {}
  <2>1. \A x \in Threads \X Channels : x[1] \in Threads /\ x[2] \in Channels  OBVIOUS
  <2> QED BY <1>1, <1>2, <2>1 DEF TakenIds, MadeOn
<1>4. \A b \in Bundles : IsFiniteSet(TakenIds(b)) /\ Cardinality(MadeOn(b)) = 0
  BY <1>3, FS_EmptySet
<1>5. \A b \in Bundles : IdsRow(b, 0)  BY <1>1, <1>2 DEF IdsRow, Drawn
<1>6. IdsInv  BY <1>4, <1>5 DEF IdsInv
<1> QED BY <1>1, <1>6 DEF ClashInv, ClashOnlyByOverlap

\* Without two threads between the read and the increment of one unused_id, the
\* connections of a bundle get different ids until more ids were drawn than
\* there are (batched_connection_client.cpp 303-330).
THEOREM ClashNeedsOverlap ==
  Spec => []ClashOnlyByOverlap
<1>1. Init => ClashInv  BY ClashStart
<1>2. SetupInv /\ SetupInv' /\ ClashInv /\ [Next]_vars => ClashInv'  BY ClashSteps
<1>3. ClashInv => ClashOnlyByOverlap  BY DEF ClashInv
<1> QED BY <1>1, <1>2, <1>3, SetupHolds, PTL DEF Spec
=============================================================================
