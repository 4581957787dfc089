----------------------------- MODULE DualSetup -----------------------------
(***************************************************************************)
(* How a dual_connection comes to be.  On the client, threads share one    *)
(* connections object: spawn picks a SocketBundle in turn, takes ids from  *)
(* its unused_id, and announces each connection with an empty frame.  On   *)
(* the server the first frame of a connection makes a super_state, which   *)
(* takes a number from used_ids and sends it back.  The client tells each  *)
(* of the two super_states whether it is the data or the control one and   *)
(* the number of the other; they find each other in the clearing_house,    *)
(* and the second one makes the data_state and control_state of both.      *)
(*                                                                         *)
(* Below, the frames of a bundle reach the server in order and one worker  *)
(* handles them (Receiver), and the numbers sent back arrive in order      *)
(* on their connection (BatchedClient, by its abstraction                  *)
(* LogicalChannels).  A connection is its bundle and its id.               *)
(*                                                                         *)
(* Two connections of one bundle with one id share, and destroy, each      *)
(* other's queue: nothing is modelled after such a clash.                  *)
(*                                                                         *)
(* A few definitions stand next to faulty variants of themselves; the      *)
(* specification uses none of these.                                       *)
(***************************************************************************)
EXTENDS Integers, Sequences, SequencesExt, FiniteSets

CONSTANTS
  Threads,  \* threads of the client, each of which spawns once
  Moduli,   \* numbers of bundles the connections object may be made with
  IdMod,    \* ids are taken modulo this (2^16 in the code)
  MaxMsgs,  \* bound: messages a dual_connection sends on its two channels
  None

ASSUME ModuliAssumption == Moduli \subseteq Nat \ {0}
ASSUME NumbersAssumption == IdMod \in Nat \ {0} /\ MaxMsgs \in Nat

SuperStates == [my_id : Nat, my_partner : Int, i_am_data : BOOLEAN,
                child : {"none", "data", "control"}]
ASSUME NoneAssumption ==
  None \notin Nat /\ None \notin Nat \X Nat /\ None \notin SuperStates

Channels == {"data", "control"}
Other(ch) == IF ch = "data" THEN "control" ELSE "data"

VARIABLES
  modulus,    \* the number of bundles
  current,    \* current_connection_id
  unused,     \* unused_id of each bundle
  wants,      \* what each thread spawns: a dual_connection, or a connection it does not use
  at,         \* where each thread is in spawn
  first,      \* the value of current_connection_id it drew
  id,         \* the ids it took, by channel
  number,     \* the numbers it received, by channel
  said,       \* messages it sent, by channel
  up,         \* the frames of each bundle on their way to the server
  down,       \* the numbers on their way to each connection
  queues,     \* the connections that have an incoming queue on the client
  clash,      \* history: a connection was made on the id of another
  used_ids,
  super,      \* the super_state of each connection, or None
  house,      \* clearing_house, from number 0: the connection whose super_state is there
  looking,    \* the connection each worker is about to look up a partner for
  pairs,      \* history: the pairs of states made, in order
  heard,      \* history: what each connection's child_state was given
  overlapped  \* history: two threads were between read and increment of one unused_id

historyVars == <<overlapped, clash>>
clientVars == <<modulus, current, unused, queues, wants, at, first, id, number, said, historyVars>>
serverVars == <<used_ids, super, house, looking, pairs, heard>>
vars == <<clientVars, up, down, serverVars>>

Bundles == 0..(modulus - 1)
Ids     == 0..(IdMod - 1)

\* One bundle for all the connections of a spawn.
BundleOf(t, ch) == first[t] % modulus
ConnOf(t, ch) == <<BundleOf(t, ch), id[t][ch]>>

Init ==
  /\ modulus \in Moduli
  /\ current = 0 /\ unused = [b \in Bundles |-> 0]
  /\ wants \in [Threads -> {"dual", "single"}]
  /\ at = [t \in Threads |-> "start"]
  /\ first = [t \in Threads |-> 0]
  /\ id = [t \in Threads |-> [ch \in Channels |-> None]]
  /\ number = [t \in Threads |-> [ch \in Channels |-> None]]
  /\ said = [t \in Threads |-> [ch \in Channels |-> 0]]
  /\ up = [b \in Bundles |-> <<>>]
  /\ down = [c \in Bundles \X Ids |-> <<>>]
  /\ used_ids = 0
  /\ super = [c \in Bundles \X Ids |-> None]
  /\ house = <<>>
  /\ looking = [b \in Bundles |-> None]
  /\ pairs = <<>>
  /\ heard = [c \in Bundles \X Ids |-> <<>>]
  /\ overlapped = FALSE /\ queues = {} /\ clash = FALSE

Goes(t, from, to) == at[t] = from /\ at' = [at EXCEPT ![t] = to]

----------------------------------------------------------------------------
(* connections::spawn.                                                     *)

\* The connection a thread is spawning: the data connection is the first.
Spawning(t) == IF at[t] \in {"read1", "bump1"} THEN "data" ELSE "control"

PickBundle(t) ==
  /\ Goes(t, "start", "read1")
  /\ current' = (current + 1) % IdMod
  /\ first' = [first EXCEPT ![t] = current']
  /\ UNCHANGED <<modulus, wants, unused, id, number, said, queues, historyVars, up, down,
                 serverVars>>

InBump(t) == at[t] \in {"bump1", "bump2"}

ReadUnusedId(t) ==
  LET ch == Spawning(t)
      b  == BundleOf(t, ch)
  IN /\ Goes(t, "read1", "bump1") \/ Goes(t, "read2", "bump2")
     /\ id' = [id EXCEPT ![t][ch] = unused[b]]
     /\ overlapped' = (overlapped \/ \E u \in Threads \ {t} :
                         InBump(u) /\ BundleOf(u, Spawning(u)) = b)
     /\ UNCHANGED <<modulus, wants, current, unused, queues, first, number, said, clash, up, down,
                    serverVars>>

KeptId(n) == n
NextId(n) == (n + 1) % IdMod

Frame(c, kind, is_data, value) ==
  [id |-> c[2], kind |-> kind, is_data |-> is_data, value |-> value]
Sends(c, frame) == up' = [up EXCEPT ![c[1]] = Append(@, frame)]

AnnounceNothing(c) == UNCHANGED up
\* raw_send(0, nullptr, nullptr): just the id and the size.
Announce(c) == Sends(c, Frame(c, "empty", FALSE, 0))

\* The increment, and the connection's constructor, which makes a new queue;
\* spawn(N) then announces the connection, and spawn() does not.
MakeConnection(t) ==
  LET c == ConnOf(t, Spawning(t))
  IN /\ \/ wants[t] = "single" /\ Goes(t, "bump1", "spawned") /\ UNCHANGED up
        \/ wants[t] = "dual" /\ Goes(t, "bump1", "read2") /\ Announce(c)
        \/ wants[t] = "dual" /\ Goes(t, "bump2", "await1") /\ Announce(c)
     /\ unused' = [unused EXCEPT ![c[1]] = NextId(@)]
     /\ down' = [down EXCEPT ![c] = <<>>]
     /\ queues' = queues \cup {c}
     /\ clash' = (c \in queues)
     /\ UNCHANGED <<modulus, wants, current, first, id, number, said, overlapped, serverVars>>

----------------------------------------------------------------------------
(* dual_connection_manager::spawn.                                         *)

ReceiveNumber(t, ch) ==
  LET c == ConnOf(t, ch)
  IN /\ IF ch = "data" THEN Goes(t, "await1", "await2") ELSE Goes(t, "await2", "tell1")
     /\ down[c] # <<>>
     /\ number' = [number EXCEPT ![t][ch] = Head(down[c])]
     /\ down' = [down EXCEPT ![c] = Tail(@)]
     /\ UNCHANGED <<modulus, wants, current, unused, queues, first, id, said, historyVars, up,
                    serverVars>>

OwnNumber(t, ch) == number[t][ch]
PartnerNumber(t, ch) == number[t][Other(ch)]

\* data.send(true, control_id), then control.send(false, data_id).
TellRole(t, ch) ==
  LET c == ConnOf(t, ch)
  IN /\ IF ch = "data" THEN Goes(t, "tell1", "tell2") ELSE Goes(t, "tell2", "spawned")
     /\ Sends(c, Frame(c, "role", ch = "data", PartnerNumber(t, ch)))
     /\ UNCHANGED <<modulus, wants, current, unused, queues, first, id, number, said, historyVars, down,
                    serverVars>>

\* The user of the dual_connection sends.
Say(t, ch) ==
  LET c == ConnOf(t, ch)
  IN /\ wants[t] = "dual" /\ at[t] = "spawned" /\ said[t].data + said[t].control < MaxMsgs
     /\ said' = [said EXCEPT ![t][ch] = @ + 1]
     /\ Sends(c, Frame(c, "message", FALSE, said[t][ch] + 1))
     /\ UNCHANGED <<modulus, wants, current, unused, queues, at, first, id, number, historyVars, down,
                    serverVars>>

----------------------------------------------------------------------------
(* The worker that handles a bundle's frames: receive_action.              *)

Receives(b, c) == looking[b] = None /\ up[b] # <<>> /\ c = <<b, Head(up[b]).id>>
Pops(b) == up' = [up EXCEPT ![b] = Tail(@)]

Extended(size) ==
  [n \in 0..(size - 1) |-> IF n \in DOMAIN house THEN house[n] ELSE None]

\* The first frame of a connection makes its action_items, with a
\* super_state; it is the empty one of spawn(N), of which nothing is delivered.
MakeSuperState(b, c) ==
  /\ Receives(b, c) /\ super[c] = None /\ Head(up[b]).kind = "empty"
  /\ super' = [super EXCEPT ![c] =
                 [my_id |-> used_ids, my_partner |-> -1, i_am_data |-> FALSE,
                  child |-> "none"]]
  /\ used_ids' = used_ids + 1
  /\ house' = IF used_ids \in DOMAIN house THEN house ELSE Extended(2 * used_ids + 1)
  /\ down' = [down EXCEPT ![c] = Append(@, used_ids)]
  /\ Pops(b)
  /\ UNCHANGED <<clientVars, looking, pairs, heard>>

\* super_state::deliver_new_event without a child_state: the first message is
\* the role (a later one is dropped) ...
TakeRole(b, c) ==
  /\ Receives(b, c) /\ super[c] # None
  /\ super[c].child = "none"
  /\ IF super[c].my_partner = -1
     THEN /\ super' = [super EXCEPT ![c].i_am_data = Head(up[b]).is_data,
                                    ![c].my_partner = Head(up[b]).value]
          /\ house' = [house EXCEPT ![super[c].my_id] = c]
     ELSE UNCHANGED <<super, house>>
  /\ looking' = [looking EXCEPT ![b] = c]
  /\ Pops(b)
  /\ UNCHANGED <<clientVars, down, used_ids, pairs, heard>>

InitializeSelf(c, p) ==
  super' = [super EXCEPT ![c].child = IF super[c].i_am_data THEN "data" ELSE "control"]
\* initialize_super_states: both get their child_state.
InitializeBoth(c, p) ==
  LET data    == IF super[c].i_am_data THEN c ELSE p
      control == IF super[c].i_am_data THEN p ELSE c
  IN super' = [super EXCEPT ![data].child = "data", ![control].child = "control"]

\* ... and if the partner is in the clearing house, both are initialised.
FindPartner(b) ==
  LET c == looking[b]
      p == house[super[c].my_partner]
  IN /\ c # None
     /\ looking' = [looking EXCEPT ![b] = None]
     /\ IF p = None THEN UNCHANGED <<super, pairs>>
        ELSE /\ InitializeBoth(c, p)
             /\ pairs' = Append(pairs, IF super[c].i_am_data
                                       THEN [data |-> c, control |-> p]
                                       ELSE [data |-> p, control |-> c])
     /\ UNCHANGED <<clientVars, up, down, used_ids, house, heard>>

AsDataEvent(child) == "data"
\* data_state and control_state call the receiver's function of their name.
EventOf(child) == child

DeliverToChild(b, c) ==
  /\ Receives(b, c) /\ super[c] # None
  /\ super[c].child # "none"
  /\ heard' = [heard EXCEPT ![c] =
                 Append(@, [event |-> EventOf(super[c].child), value |-> Head(up[b]).value])]
  /\ Pops(b)
  /\ UNCHANGED <<clientVars, down, used_ids, super, house, looking, pairs>>

----------------------------------------------------------------------------

SpawnStep(t) ==
  /\ ~clash
  /\ \/ PickBundle(t) \/ ReadUnusedId(t) \/ MakeConnection(t)
     \/ \E ch \in Channels : ReceiveNumber(t, ch) \/ TellRole(t, ch)

Worker(b) ==
  /\ ~clash
  /\ \/ FindPartner(b)
     \/ \E c \in {b} \X Ids : \/ MakeSuperState(b, c) \/ TakeRole(b, c) \/ DeliverToChild(b, c)

User(t) == ~clash /\ \E ch \in Channels : Say(t, ch)

Next == \/ \E t \in Threads : SpawnStep(t) \/ User(t)
        \/ \E b \in Bundles : Worker(b)

Spec == Init /\ [][Next]_vars

\* The operating system runs the threads of both sides; what was sent arrives.
FairSpec ==
  /\ Spec
  /\ \A t \in Threads : WF_vars(SpawnStep(t))
  /\ \A m \in Moduli : \A b \in 0..(m - 1) : WF_vars(b \in Bundles /\ Worker(b))
----------------------------------------------------------------------------
(* Properties.                                                             *)

Heard(t, ch) ==
  IF wants[t] = "dual" /\ at[t] = "spawned" THEN heard[ConnOf(t, ch)] ELSE <<>>

TakenIds(b) ==
  {x \in Threads \X Channels : id[x[1]][x[2]] # None /\ BundleOf(x[1], x[2]) = b}

\* Two connections of a bundle get one id only if two threads were in spawn
\* between the read and the increment of unused_id at the same time, or the
\* 16 bits of the id have gone round (batched_connection_client.cpp 303-330).
ClashOnlyByOverlap ==
  clash => overlapped \/ \E b \in Bundles : Cardinality(TakenIds(b)) > IdMod

\* "Person who goes second: initialize everything for you + your partner": the
\* two states of a pair belong to the two connections of one dual_connection,
\* the data one to the data connection, however the spawns of other threads
\* fall in between; and only one of the two makes them, and once, although
\* they meet only through the clearing house (dual_connection.hpp 92-104,
\* dual_connection_superstate.cpp 32-52).
PairedRight == ~clash =>
  /\ \A i \in 1..Len(pairs) : \E t \in Threads :
       pairs[i] = [data |-> ConnOf(t, "data"), control |-> ConnOf(t, "control")]
  /\ IsInjective(pairs)

\* A super_state without child_state is given one message only, its role: the
\* user's messages come after its partner was initialised too (the asserts at
\* dual_connection_superstate.cpp 38 and 43).
RoleComesFirst == ~clash =>
  \A b \in Bundles : \A c \in {b} \X Ids :
    Receives(b, c) /\ super[c] # None /\ super[c].child = "none" =>
      /\ super[c].my_partner = -1 /\ Head(up[b]).kind = "role"
      /\ Head(up[b]).value # super[c].my_id

\* Each message a dual_connection sent reaches the callback of the channel it
\* was sent on, in order and once (dual_connection.hpp 170-195,
\* dual_connection.cpp 87-89).
HeardInOrder == ~clash =>
  \A t \in Threads, ch \in Channels :
    LET h == Heard(t, ch)
    IN /\ Len(h) <= said[t][ch]
       /\ \A k \in 1..Len(h) : h[k] = [event |-> ch, value |-> k]

\* A spawn that was begun returns a dual_connection, and what is sent on that
\* is heard, if no ids clash.
SpawnEnds == \A t \in Threads :
  (at[t] # "start") ~> (at[t] = "spawned" \/ clash)
MessagesHeard == \A t \in Threads, ch \in Channels : \A n \in 1..MaxMsgs :
  (said[t][ch] >= n) ~> (Len(Heard(t, ch)) >= n \/ clash)
=============================================================================
