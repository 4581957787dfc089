----------------------------- MODULE SimpleRpc -----------------------------
(***************************************************************************)
(* simple_rpc: one socket per connection, and on the server one detached   *)
(* thread per accepted socket.  A message is its size and then its bytes;  *)
(* a reply is bytes alone.  The thread ends on BrokenSocketException; any  *)
(* other exception leaves it, which ends the server's process.             *)
(*                                                                         *)
(* The build is the release build.  Nothing sets AcceptConnectionLoop's    *)
(* alive to false.  The user's deliver_new_event answers each message once *)
(* (test_simple_rpc_server.cpp).  The kernel's sockets are external: bytes *)
(* arrive in order, the receiver reads all that came before it hears that  *)
(* the sender closed, a close with unread data and an answer to a closed   *)
(* socket reset the connection, and accept fails, before it looks for a    *)
(* connection, when the process has no descriptor left.                    *)
(*                                                                         *)
(* A few definitions stand next to faulty variants of themselves; the      *)
(* specification uses none of these.                                       *)
(***************************************************************************)
EXTENDS Integers, Sequences, SequencesExt, FiniteSets

CONSTANTS
  Client,  \* simple_rpc::connections, each made once
  Limits,  \* numbers of descriptors the server's process may have for connections
  Sizes,   \* sizes of messages
  Hdr,     \* the bytes of a size (8 in the code)
  MaxMsgs  \* bound: messages of a client

ASSUME SizesAssumption == Sizes \subseteq Nat
ASSUME NumbersAssumption == Hdr \in Nat \ {0} /\ Limits \subseteq Nat /\ MaxMsgs \in Nat

VARIABLES
  limit,    \* descriptors the server's process has for connections
  server,   \* "up", or "terminated" by an exception nothing caught
  thread,   \* where the thread of each connection is
  fds,      \* connections whose descriptor the server has open
  valid,    \* is_valid and
  clean,    \*   is_cleanly_disconnected of the server's Socket
  size,     \* the size the thread read last
  got,      \* history: what deliver_new_event was given
  peer,     \* the client's end: "new", "open", "closed" or "reset"
  sent,     \* history: sizes of the messages the client sent
  short,    \* history: a sendmsg of the client sent part of its bytes only
  wire,     \* bytes on their way to the server
  replies   \* replies on their way to the client

serverVars == <<limit, server, thread, fds, valid, clean, size, got>>
clientVars == <<peer, sent, short>>
vars == <<serverVars, clientVars, wire, replies>>

Init ==
  /\ limit \in Limits
  /\ server = "up" /\ fds = {}
  /\ thread = [c \in Client |-> "none"]
  /\ valid = [c \in Client |-> FALSE] /\ clean = [c \in Client |-> FALSE]
  /\ size = [c \in Client |-> 0] /\ got = [c \in Client |-> <<>>]
  /\ peer = [c \in Client |-> "new"]
  /\ sent = [c \in Client |-> <<>>] /\ short = [c \in Client |-> FALSE]
  /\ wire = [c \in Client |-> <<>>] /\ replies = [c \in Client |-> 0]

----------------------------------------------------------------------------
(* The client's connection.                                                *)

Connect(c) ==
  /\ peer[c] = "new" /\ peer' = [peer EXCEPT ![c] = "open"]
  /\ UNCHANGED <<serverVars, sent, short, wire, replies>>

\* The bytes of message k, each by its place in the frame: Hdr of them hold
\* the value of the size field, and n are the message.
Bytes(k, field, n) ==
  [i \in 1..(Hdr + n) |-> [msg |-> k, at |-> i, size |-> field]]
\* real_size taken of the sizes that are sent, the field's own included.
FrameCountingItself(k, n) == Bytes(k, Hdr + n, n)
Frame(k, n) == Bytes(k, n, n)

\* Bound: one sendmsg of all is cut.
NoneCut == \A d \in Client : ~short[d]

\* connection::raw_send; Socket::raw_send takes a short sendmsg for a whole one.
Send(c, n, bytes) ==
  LET frame == Frame(Len(sent[c]) + 1, n)
  IN /\ peer[c] = "open" /\ Len(sent[c]) < MaxMsgs
     /\ bytes \in 1..Len(frame) /\ (bytes < Len(frame) => NoneCut)
     /\ wire' = [wire EXCEPT ![c] = @ \o SubSeq(frame, 1, bytes)]
     /\ sent' = [sent EXCEPT ![c] = Append(@, n)]
     /\ short' = [short EXCEPT ![c] = @ \/ bytes < Len(frame)]
     /\ UNCHANGED <<serverVars, peer, replies>>

ReceiveReply(c) ==
  /\ peer[c] = "open" /\ replies[c] > 0
  /\ replies' = [replies EXCEPT ![c] = @ - 1]
  /\ UNCHANGED <<serverVars, clientVars, wire>>

\* The client destroys its connection, or dies.
Close(c) ==
  /\ peer[c] = "open"
  /\ peer' = [peer EXCEPT ![c] = IF replies[c] = 0 THEN "closed" ELSE "reset"]
  /\ replies' = [replies EXCEPT ![c] = 0]
  /\ UNCHANGED <<serverVars, sent, short, wire>>

----------------------------------------------------------------------------
(* AcceptConnectionLoop::loop_until_dead with async, and ServerSocket.     *)

\* Without async the loop handles a connection before it accepts another.
AcceptorIdle == \A c \in Client : thread[c] \in {"none", "ended"}
AcceptorFree == TRUE

Accept(c) ==
  /\ AcceptorFree /\ Cardinality(fds) < limit
  /\ peer[c] # "new" /\ thread[c] = "none"
  /\ fds' = fds \cup {c}
  /\ valid' = [valid EXCEPT ![c] = TRUE]
  /\ thread' = [thread EXCEPT ![c] = "size"]
  /\ UNCHANGED <<limit, server, clean, size, got, clientVars, wire, replies>>

\* accept returns -1, and the new thread receives from Socket{-1}: a
\* ProtocolException, for EBADF.
AcceptFails ==
  /\ Cardinality(fds) >= limit
  /\ server' = "terminated"
  /\ UNCHANGED <<limit, thread, fds, valid, clean, size, got, clientVars, wire, replies>>

----------------------------------------------------------------------------
(* Socket::raw_receive of n bytes: recvmsg with MSG_WAITALL.               *)

Ended(c) == peer[c] \in {"closed", "reset"}

RecvAll(c, n) ==
  /\ n > 0 /\ Len(wire[c]) >= n
  /\ wire' = [wire EXCEPT ![c] = SubSeq(@, n + 1, Len(@))]

\* recvmsg returns 0; the socket is marked, and BrokenSocketException thrown.
\* The thread catches it, and ~Socket closes the descriptor of a valid socket.
HearsCloseAtOnce(c, n) == n = 0 \/ Ended(c)
HearsClose(c, n) == n = 0 \/ (Ended(c) /\ wire[c] = <<>>)
RecvZero(c, n) ==
  /\ HearsClose(c, n)
  /\ valid' = [valid EXCEPT ![c] = FALSE]
  /\ clean' = [clean EXCEPT ![c] = TRUE]
  /\ thread' = [thread EXCEPT ![c] = "ended"]
  /\ fds' = IF valid'[c] THEN fds \ {c} ELSE fds
  /\ UNCHANGED <<limit, size, got, clientVars, wire, replies>>

\* Part of the bytes, or an error, which a receive of 0 bytes may hear of too:
\* ProtocolException.
RecvFails(c, n) ==
  /\ \/ Ended(c) /\ wire[c] # <<>> /\ Len(wire[c]) < n
     \/ peer[c] = "reset" /\ wire[c] = <<>>
  /\ server' = "terminated"
  /\ UNCHANGED <<limit, thread, fds, valid, clean, size, got, clientVars, wire, replies>>

----------------------------------------------------------------------------
(* The thread of a connection: receiver's onReceipt.                       *)

\* What catch(BrokenSocketException&) makes of it; without it the process ends.
NotCaught == server' = "terminated"
Caught == UNCHANGED server

\* The size field of these bytes; bytes of something else have any value.
SizeFields(bytes) ==
  IF \A i \in 1..Hdr : bytes[i].at = i THEN {bytes[1].size} ELSE Sizes

ReadSize(c) ==
  /\ thread[c] = "size"
  /\ \/ /\ RecvAll(c, Hdr)
        /\ \E n \in SizeFields(SubSeq(wire[c], 1, Hdr)) : size' = [size EXCEPT ![c] = n]
        /\ thread' = [thread EXCEPT ![c] = "payload"]
        /\ UNCHANGED <<limit, server, fds, valid, clean, got, clientVars, replies>>
     \/ RecvZero(c, Hdr) /\ Caught
     \/ RecvFails(c, Hdr)

ReadPayload(c) ==
  /\ thread[c] = "payload"
  /\ \/ /\ RecvAll(c, size[c])
        /\ got' = [got EXCEPT ![c] = Append(@, SubSeq(wire[c], 1, size[c]))]
        /\ thread' = [thread EXCEPT ![c] = "deliver"]
        /\ UNCHANGED <<limit, server, fds, valid, clean, size, clientVars, replies>>
     \/ RecvZero(c, size[c]) /\ Caught
     \/ RecvFails(c, size[c])

\* processor->deliver_new_event, which replies through Socket::raw_send:
\* nothing can be sent on a socket that is not valid; a sendmsg that fails with
\* EPIPE marks the socket and counts as sent, and another error is thrown.
Deliver(c) ==
  /\ thread[c] = "deliver"
  /\ \/ /\ valid[c] /\ peer[c] = "open"
        /\ replies' = [replies EXCEPT ![c] = @ + 1]
        /\ thread' = [thread EXCEPT ![c] = "size"]
        /\ UNCHANGED <<server, valid, peer>>
     \/ /\ valid[c] /\ peer[c] = "closed"
        /\ peer' = [peer EXCEPT ![c] = "reset"]
        /\ thread' = [thread EXCEPT ![c] = "size"]
        /\ UNCHANGED <<server, valid, replies>>
     \/ /\ valid[c] /\ peer[c] = "reset"
        /\ valid' = [valid EXCEPT ![c] = FALSE]
        /\ thread' = [thread EXCEPT ![c] = "size"]
        /\ UNCHANGED <<server, peer, replies>>
     \/ /\ ~valid[c] \/ peer[c] = "reset"
        /\ server' = "terminated"
        /\ UNCHANGED <<thread, valid, peer, replies>>
  /\ UNCHANGED <<limit, fds, clean, size, got, sent, short, wire>>

----------------------------------------------------------------------------

Acceptor == server = "up" /\ (AcceptFails \/ \E c \in Client : Accept(c))
Thread(c) == server = "up" /\ (ReadSize(c) \/ ReadPayload(c) \/ Deliver(c))
User(c) == server = "up" /\ \/ Connect(c) \/ Close(c)
                            \/ \E n \in Sizes : \E bytes \in 1..(Hdr + n) : Send(c, n, bytes)
Answered(c) == server = "up" /\ ReceiveReply(c)

Next == Acceptor \/ \E c \in Client : Thread(c) \/ User(c) \/ Answered(c)

Spec == Init /\ [][Next]_vars

\* The operating system runs the server's threads.
FairSpec == Spec /\ WF_vars(Acceptor) /\ \A c \in Client : WF_vars(Thread(c))
----------------------------------------------------------------------------
(* Properties.                                                             *)

\* Messages up to the first of size 0, which the server takes for a close.
Readable(c) == LET zeros == {k \in 1..Len(sent[c]) : sent[c][k] = 0}
               IN IF zeros = {} THEN Len(sent[c])
                  ELSE (CHOOSE k \in zeros : \A j \in zeros : k <= j) - 1

Whole(c, k) ==
  [i \in 1..sent[c][k] |-> [msg |-> k, at |-> Hdr + i, size |-> sent[c][k]]]

\* deliver_new_event is given the client's messages, each with all its bytes
\* and no other, in order and once, unless a sendmsg was cut short
\* (simple_rpc.cpp 21-31 against 93-100).
DeliveredWhole == \A c \in Client : ~short[c] =>
  /\ Len(got[c]) <= Readable(c)
  /\ \A k \in 1..Len(got[c]) : got[c][k] = Whole(c, k)

\* A thread that ended had given the user every message the client sent before
\* it closed, or before the message of size 0 (simple_rpc.cpp 96-107,
\* Socket.cpp 133-153).
EndedHeardAll == \A c \in Client :
  thread[c] = "ended" /\ ~short[c] => Len(got[c]) = Readable(c)

\* One connection ends the process of all only if it was reset or a sendmsg
\* was cut short on it.  Connections that end in order do not, until so many
\* of them have been that no descriptor is left: ~Socket closes none of theirs
\* (simple_rpc.cpp 105-108, Socket.cpp 14-20 and 143-149, ServerSocket.cpp
\* 60-95).
TerminatesOnlyIf == server = "terminated" =>
  \/ \E c \in Client : peer[c] = "reset" \/ short[c]
  \/ Cardinality({c \in Client : thread[c] # "none"}) >= limit

\* What a client sends reaches the user's function, however many other
\* connections are open (ServerSocket.cpp 86-101, simple_rpc.cpp 93-101).
SentIsDelivered == \A c \in Client : \A k \in 1..MaxMsgs :
  (Readable(c) >= k /\ ~short[c]) ~>
    (Len(got[c]) >= k \/ short[c] \/ server = "terminated")
=============================================================================
