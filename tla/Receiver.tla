------------------------------ MODULE Receiver ------------------------------
(***************************************************************************)
(* The server side of a batched connection (receiver,                      *)
(* batched_connection_server.cpp): an acceptor thread hands each accepted  *)
(* socket round robin to one of ThreadCount workers, through a queue and   *)
(* an eventfd that the worker's EPoll watches; the worker blocks until the *)
(* socket's id has come, adds the socket to its EPoll, and from then on    *)
(* reads one frame whenever the socket is ready, makes the action of a     *)
(* logical connection on its first frame, and gives it the payload.        *)
(*                                                                         *)
(* A client is its socket.  Its bytes are in flight, then in the           *)
(* receiver's kernel (rx), then read.  Frame f of a socket is the pieces   *)
(* <<f, 1>>, <<f, 2>>, ...: two of its id, two of its size and one for     *)
(* each unit of payload; <<0, 1>> is the socket id.                        *)
(*                                                                         *)
(* A few definitions stand next to faulty variants of themselves; the      *)
(* specification uses none of these.                                       *)
(***************************************************************************)
EXTENDS Naturals, Sequences, SequencesExt

CONSTANTS
  Sock,         \* client sockets, numbered in the order in which they connect
  NoSock,       \* not a socket
  ThreadCount,  \* receiver::thread_count
  Ids,          \* logical connection ids
  Sizes,        \* payload sizes, 0 for a frame that only announces its id
  MaxEvents,    \* bound: clients that connect and frames they send, together
  EarlyClose    \* a client may go away before its socket id has arrived

ASSUME ThreadsAssumption == ThreadCount \in Nat \ {0}
ASSUME SockAssumption == Sock \subseteq Nat /\ NoSock \notin Sock
ASSUME FramesAssumption == Sizes \subseteq Nat /\ MaxEvents \in Nat
ASSUME CloseAssumption == EarlyClose \in BOOLEAN

Workers  == 0..(ThreadCount - 1)
FieldLen == 2

VARIABLES
  link,      \* the client's end: "away", "new" (connected), "open" (socket id
             \* sent), "closed" (FIN) or "reset"
  frames,    \* the frames each client has sent: [id, size]
  flight,    \* pieces on their way
  rx,        \* pieces that have arrived and were not read
  backlog,   \* the listening socket's queue
  acc,       \* where the acceptor is
  fresh,     \* the socket it has in hand
  last,      \* last_used_list
  queue,     \* active_sockets of each worker
  event,     \* the counter of each worker's eventfd
  notifier,  \* the worker's EPoll still has that eventfd
  epoll,     \* the sockets whose receiver_state is in the worker's EPoll
  at,        \* where the worker is
  cur,       \* the socket it works on
  frame,     \* the frame it is reading
  made,      \* new_connection calls: the logical ids, in order, of each socket
  delivered, \* deliver_new_event calls: [id, frame], in order, of each socket
  up         \* the process lives

clientVars   == <<link, frames, flight>>
acceptorVars == <<backlog, acc, fresh, last>>
readerVars   == <<frame, made, delivered>>
workerVars   == <<event, notifier, epoll, at, cur>>
vars == <<clientVars, rx, acceptorVars, queue, workerVars, readerVars, up>>

SocketId == <<0, 1>>
FramePieces(f, n) == [k \in 1..(2 * FieldLen + n) |-> <<f, k>>]
Piece == Nat \X (Nat \ {0})

\* A worker is in epoll_wait; in the loop of accept_sockets; in the blocking
\* receive of a socket id; in receive_action, before the id, the size, the
\* payload.
Places == {"wait", "drain", "sid", "id", "size", "body"}
Reading == {"id", "size", "body"}

TypeOK ==
  /\ link \in [Sock -> {"away", "new", "open", "closed", "reset"}]
  /\ frames \in [Sock -> Seq([id : Ids, size : Sizes])]
  /\ flight \in [Sock -> Seq(Piece)] /\ rx \in [Sock -> Seq(Piece)]
  /\ backlog \in Seq(Sock)
  /\ acc \in {"accept", "enqueue", "notify"}
  /\ fresh \in Sock \cup {NoSock} /\ last \in Workers
  /\ queue \in [Workers -> Seq(Sock)]
  /\ event \in [Workers -> Nat] /\ notifier \in [Workers -> BOOLEAN]
  /\ epoll \in [Workers -> SUBSET Sock]
  /\ at \in [Workers -> Places] /\ cur \in [Workers -> Sock \cup {NoSock}]
  /\ frame \in [Workers -> Nat]
  /\ made \in [Sock -> Seq(Ids)]
  /\ delivered \in [Sock -> Seq([id : Ids, frame : Nat])]
  /\ up \in BOOLEAN

Init ==
  /\ link = [s \in Sock |-> "away"]
  /\ frames = [s \in Sock |-> <<>>]
  /\ flight = [s \in Sock |-> <<>>] /\ rx = [s \in Sock |-> <<>>]
  /\ backlog = <<>> /\ acc = "accept" /\ fresh = NoSock /\ last = 0
  /\ queue = [w \in Workers |-> <<>>]
  /\ event = [w \in Workers |-> 0] /\ notifier = [w \in Workers |-> TRUE]
  /\ epoll = [w \in Workers |-> {}]
  /\ at = [w \in Workers |-> "wait"] /\ cur = [w \in Workers |-> NoSock]
  /\ frame = [w \in Workers |-> 0]
  /\ made = [s \in Sock |-> <<>>]
  /\ delivered = [s \in Sock |-> <<>>]
  /\ up = TRUE

----------------------------------------------------------------------------
(* The clients and the network.                                            *)

LinkGoes(s, from, to) == link[s] = from /\ link' = [link EXCEPT ![s] = to]

\* Connections made and frames sent.
Events ==
  Cardinality({s \in Sock : link[s] # "away"}) + MapThenSumSet(LAMBDA s : Len(frames[s]), Sock)

Connect(s) ==
  /\ Events < MaxEvents /\ \A r \in Sock : r < s => link[r] # "away"
  /\ LinkGoes(s, "away", "new")
  /\ backlog' = Append(backlog, s)
  /\ UNCHANGED <<frames, flight, rx, acc, fresh, last, queue, workerVars,
                 readerVars, up>>

\* SocketBundle's constructor sends the socket id.
SendSid(s) ==
  /\ LinkGoes(s, "new", "open")
  /\ flight' = [flight EXCEPT ![s] = <<SocketId>>]
  /\ UNCHANGED <<frames, rx, acceptorVars, queue, workerVars, readerVars, up>>

\* send_with_id: the whole frame in one sendmsg.
SendFrame(s, id, n) ==
  /\ link[s] = "open" /\ Events < MaxEvents
  /\ frames' = [frames EXCEPT ![s] = Append(@, [id |-> id, size |-> n])]
  /\ flight' = [flight EXCEPT ![s] = @ \o FramePieces(Len(frames[s]) + 1, n)]
  /\ UNCHANGED <<link, rx, acceptorVars, queue, workerVars, readerVars, up>>

\* TCP cuts where it likes.
Arrive(s) ==
  /\ \E n \in 1..Len(flight[s]) :
       /\ rx' = [rx EXCEPT ![s] = @ \o SubSeq(flight[s], 1, n)]
       /\ flight' = [flight EXCEPT ![s] = SubSeq(@, n + 1, Len(@))]
  /\ UNCHANGED <<link, frames, acceptorVars, queue, workerVars, readerVars, up>>

MayLeave(s) ==
  \/ link[s] = "new" /\ EarlyClose
  \/ link[s] = "open" /\ (EarlyClose \/ SocketId \notin Range(flight[s]))

\* The client's end closes, or its host dies in the middle of a frame and
\* what it had not transmitted is lost; the end of the stream comes after the
\* last piece.
Close(s) ==
  /\ MayLeave(s) /\ link' = [link EXCEPT ![s] = "closed"]
  /\ \E n \in 0..Len(flight[s]) : flight' = [flight EXCEPT ![s] = SubSeq(@, 1, n)]
  /\ UNCHANGED <<frames, rx, acceptorVars, queue, workerVars, readerVars, up>>

Reset(s) ==
  /\ MayLeave(s) /\ link' = [link EXCEPT ![s] = "reset"]
  /\ flight' = [flight EXCEPT ![s] = <<>>]
  /\ UNCHANGED <<frames, rx, acceptorVars, queue, workerVars, readerVars, up>>

EndOfStream(s) == link[s] = "closed" /\ flight[s] = <<>> /\ rx[s] = <<>>

----------------------------------------------------------------------------
(* acceptor_fun.                                                           *)

NextUnwrapped == last + 1
NextWorker == (last + 1) % ThreadCount

Accept ==
  /\ up /\ acc = "accept" /\ backlog # <<>>
  /\ acc' = "enqueue"
  /\ fresh' = Head(backlog) /\ backlog' = Tail(backlog)
  /\ UNCHANGED <<clientVars, rx, last, queue, workerVars, readerVars, up>>

EnqueueSilently ==
  /\ up /\ acc = "enqueue"
  /\ acc' = "accept"
  /\ queue' = [queue EXCEPT ![NextWorker] = Append(@, fresh)]
  /\ fresh' = NoSock /\ last' = NextWorker
  /\ UNCHANGED <<clientVars, rx, backlog, workerVars, readerVars, up>>
Enqueue ==
  /\ up /\ acc = "enqueue"
  /\ acc' = "notify"
  /\ queue' = [queue EXCEPT ![NextWorker] = Append(@, fresh)]
  /\ fresh' = NoSock
  /\ UNCHANGED <<clientVars, rx, backlog, last, workerVars, readerVars, up>>

\* The eventfd may be gone: the write then reaches no worker.
NotifyNext ==
  event' = [event EXCEPT ![NextWorker] = IF notifier[NextWorker] THEN @ + 1 ELSE @]

Notify ==
  /\ up /\ acc = "notify"
  /\ acc' = "accept"
  /\ NotifyNext
  /\ last' = NextWorker
  /\ UNCHANGED <<clientVars, rx, backlog, fresh, queue, notifier, epoll, at, cur,
                 readerVars, up>>

----------------------------------------------------------------------------
(* accept_sockets, called by a worker's EPoll when the eventfd is ready.   *)

WorkerGoes(w, from, to) == up /\ at[w] = from /\ at' = [at EXCEPT ![w] = to]

\* eventfd::wait takes the whole count, before the queue is looked at.
CountTaken(w) == event' = [event EXCEPT ![w] = 0]

WakeForSockets(w) ==
  /\ notifier[w] /\ event[w] > 0
  /\ WorkerGoes(w, "wait", "drain")
  /\ CountTaken(w)
  /\ UNCHANGED <<clientVars, rx, acceptorVars, queue, notifier, epoll, cur,
                 readerVars, up>>

Dequeue(w) ==
  /\ queue[w] # <<>>
  /\ WorkerGoes(w, "drain", "sid")
  /\ cur' = [cur EXCEPT ![w] = Head(queue[w])]
  /\ queue' = [queue EXCEPT ![w] = Tail(@)]
  /\ UNCHANGED <<clientVars, rx, acceptorVars, event, notifier, epoll, readerVars, up>>

QueueDrained(w) ==
  /\ queue[w] = <<>>
  /\ WorkerGoes(w, "drain", "wait")
  /\ UNCHANGED <<clientVars, rx, acceptorVars, queue, event, notifier, epoll, cur,
                 readerVars, up>>

RegisterOneSocket(w) ==
  /\ WorkerGoes(w, "sid", "wait")
  /\ rx[cur[w]] # <<>>
  /\ rx' = [rx EXCEPT ![cur[w]] = Tail(@)]
  /\ epoll' = [epoll EXCEPT ![w] = @ \cup {cur[w]}]
  /\ cur' = [cur EXCEPT ![w] = NoSock]
  /\ UNCHANGED <<clientVars, acceptorVars, queue, event, notifier, readerVars, up>>

\* register_receiver_state: a receive without timeout; then the socket gets a
\* receiver_state in the worker's EPoll.
RegisterSocket(w) ==
  /\ WorkerGoes(w, "sid", "drain")
  /\ rx[cur[w]] # <<>>
  /\ rx' = [rx EXCEPT ![cur[w]] = Tail(@)]
  /\ epoll' = [epoll EXCEPT ![w] = @ \cup {cur[w]}]
  /\ cur' = [cur EXCEPT ![w] = NoSock]
  /\ UNCHANGED <<clientVars, acceptorVars, queue, event, notifier, readerVars, up>>

\* EPoll::wait catches whatever an action throws and removes that action's
\* object: here the exception comes out of accept_sockets, so the object is
\* the worker's eventfd.  tick_one swallows the BrokenSocketException.
DropNotifier(w) == notifier' = [notifier EXCEPT ![w] = FALSE]

SidBroken(w) ==
  /\ WorkerGoes(w, "sid", "wait")
  /\ EndOfStream(cur[w])
  /\ DropNotifier(w)
  /\ cur' = [cur EXCEPT ![w] = NoSock]
  /\ UNCHANGED <<clientVars, rx, acceptorVars, queue, event, epoll, readerVars, up>>

\* Any other exception leaves tick_one and the thread: the process ends.
Terminate(w) ==
  /\ up /\ up' = FALSE
  /\ UNCHANGED <<clientVars, rx, acceptorVars, queue, workerVars, readerVars>>

SidFails(w) ==
  /\ at[w] = "sid" /\ link[cur[w]] = "reset" /\ rx[cur[w]] = <<>>
  /\ Terminate(w)

----------------------------------------------------------------------------
(* receive_action, called by the worker's EPoll when a socket is ready.    *)

StateGone(w, s) == epoll' = [epoll EXCEPT ![w] = @ \ {s}]

\* EPOLLERR or EPOLLHUP: the receiver_state is erased, unread data with it.
HangUp(w, s) ==
  /\ up /\ at[w] = "wait"
  /\ s \in epoll[w] /\ link[s] = "reset"
  /\ StateGone(w, s)
  /\ UNCHANGED <<clientVars, rx, acceptorVars, queue, event, notifier, at, cur,
                 readerVars, up>>

WakeForFrame(w, s) ==
  /\ s \in epoll[w] /\ link[s] # "reset"
  /\ rx[s] # <<>> \/ EndOfStream(s)
  /\ WorkerGoes(w, "wait", "id")
  /\ cur' = [cur EXCEPT ![w] = s]
  /\ UNCHANGED <<clientVars, rx, acceptorVars, queue, event, notifier, epoll,
                 readerVars, up>>

\* The frame header as the worker has read it.
Id(w)   == frames[cur[w]][frame[w]].id
Size(w) == frames[cur[w]][frame[w]].size
AlwaysPayload(w) == TRUE
HasPayload(w) == Size(w) > 0
Known(w, id) == id \in Range(made[cur[w]])

\* The pieces the current receive waits for.
Wanted(w) == IF at[w] = "body" THEN Size(w) ELSE FieldLen

\* recvmsg with MSG_WAITALL got them all.
ReadsAllThereIs(w) ==
  Len(rx[cur[w]]) >= Wanted(w) /\ rx' = [rx EXCEPT ![cur[w]] = <<>>]
ReadsAll(w) ==
  /\ Len(rx[cur[w]]) >= Wanted(w)
  /\ rx' = [rx EXCEPT ![cur[w]] = SubSeq(@, Wanted(w) + 1, Len(@))]

ReceiveId(w) ==
  /\ WorkerGoes(w, "id", "size")
  /\ ReadsAll(w)
  /\ frame' = [frame EXCEPT ![w] = rx[cur[w]][1][1]]
  /\ UNCHANGED <<clientVars, acceptorVars, queue, event, notifier, epoll, cur,
                 made, delivered, up>>

\* The first frame of a logical connection makes its action_items; a frame
\* without payload is done with.
ReceiveSize(w) ==
  /\ WorkerGoes(w, "size", IF HasPayload(w) THEN "body" ELSE "wait")
  /\ ReadsAll(w)
  /\ made' = IF Known(w, Id(w)) THEN made
             ELSE [made EXCEPT ![cur[w]] = Append(@, Id(w))]
  /\ UNCHANGED <<clientVars, acceptorVars, queue, event, notifier, epoll, cur,
                 frame, delivered, up>>

ReceiveBody(w) ==
  /\ WorkerGoes(w, "body", "wait")
  /\ ReadsAll(w)
  /\ delivered' = [delivered EXCEPT ![cur[w]] =
                     Append(@, [id |-> Id(w), frame |-> frame[w]])]
  /\ UNCHANGED <<clientVars, acceptorVars, queue, event, notifier, epoll, cur,
                 frame, made, up>>

\* recvmsg returned 0: BrokenSocketException, the receiver_state is removed.
ReceiveBroken(w) ==
  /\ at[w] \in Reading /\ WorkerGoes(w, at[w], "wait")
  /\ EndOfStream(cur[w])
  /\ StateGone(w, cur[w])
  /\ UNCHANGED <<clientVars, rx, acceptorVars, queue, event, notifier, cur,
                 readerVars, up>>

\* The stream ends, or is reset, in the middle of a field: ProtocolException.
ReceiveCut(w) ==
  /\ at[w] \in Reading /\ Len(rx[cur[w]]) < Wanted(w)
  /\ \/ link[cur[w]] = "closed" /\ flight[cur[w]] = <<>> /\ rx[cur[w]] # <<>>
     \/ link[cur[w]] = "reset"
  /\ Terminate(w)

ReceiveTimeoutRetried(w) ==
  /\ at[w] \in Reading
  /\ Len(rx[cur[w]]) < Wanted(w) /\ flight[cur[w]] # <<>>
  /\ WorkerGoes(w, at[w], "wait")
  /\ UNCHANGED <<clientVars, rx, acceptorVars, queue, event, notifier, epoll, cur,
                 readerVars, up>>

\* Five milliseconds pass, and the rest of the field is still on its way: a
\* Timeout that receive_action turns into a ProtocolException, or already one
\* because recvmsg returned some of the field.
ReceiveTimeout(w) ==
  /\ at[w] \in Reading /\ Len(rx[cur[w]]) < Wanted(w)
  /\ at[w] = "id" => rx[cur[w]] # <<>>
  /\ flight[cur[w]] # <<>>
  /\ Terminate(w)

----------------------------------------------------------------------------

\* What clients do after the process has ended no longer matters.
Clients == up /\ \E s \in Sock :
  \/ Connect(s) \/ SendSid(s) \/ Close(s) \/ Reset(s)
  \/ \E id \in Ids, n \in Sizes : SendFrame(s, id, n)

Network == up /\ \E s \in Sock : Arrive(s)

Acceptor == Accept \/ Enqueue \/ Notify

WorkerStep(w) ==
  \/ WakeForSockets(w) \/ Dequeue(w) \/ QueueDrained(w)
  \/ RegisterSocket(w) \/ SidBroken(w) \/ SidFails(w)
  \/ ReceiveId(w) \/ ReceiveSize(w) \/ ReceiveBody(w)
  \/ ReceiveBroken(w) \/ ReceiveCut(w)
  \/ \E s \in Sock : HangUp(w, s) \/ WakeForFrame(w, s)

Next ==
  \/ Clients \/ Network \/ Acceptor
  \/ \E w \in Workers : WorkerStep(w) \/ ReceiveTimeout(w)

Spec == Init /\ [][Next]_vars

\* The operating system runs the acceptor and the workers; epoll_wait returns
\* every ready descriptor, since max_events counts all that were added, so a
\* ready one is not passed over for ever; the network delivers.  What clients do
\* is their choice: one that connected may never send its socket id.
Fairness ==
  /\ WF_vars(Acceptor)
  /\ \A w \in Workers :
       /\ WF_vars(WorkerStep(w)) /\ SF_vars(WakeForSockets(w))
       /\ \A s \in Sock : SF_vars(WakeForFrame(w, s))
  /\ \A s \in Sock : WF_vars(up /\ Arrive(s))

FairSpec == Spec /\ Fairness
----------------------------------------------------------------------------
(* Properties.                                                             *)

Draining == {"drain", "sid"}
Gone(s)  == link[s] \in {"closed", "reset"}

\* The worker is in the receive of a socket id, which has no timeout, and the
\* client has not sent it; and: it is not so for ever.
AwaitsClient(w) == at[w] = "sid" /\ link[cur[w]] = "new"
NotHeldUp(w)    == []<>~AwaitsClient(w)

\* A socket in a worker's queue is never forgotten: unless the worker is in
\* the loop of accept_sockets, and will look at the queue again, its eventfd
\* is readable or the acceptor is about to notify it; neither order of
\* enqueue, notify, the reset of the count and the last try_dequeue leaves a
\* socket behind (batched_connection_server.cpp 104-111, 148-150).
NoLostWakeup ==
  \A w \in Workers :
    queue[w] # <<>> /\ notifier[w] /\ at[w] \notin Draining =>
      event[w] > 0 \/ (acc = "notify" /\ NextWorker = w)

\* The worker has the socket: in its queue, in its hands or in its EPoll.
Keeps(w, s) ==
  \/ s \in Range(queue[w]) \cup epoll[w]
  \/ at[w] \notin {"wait", "drain"} /\ cur[w] = s

\* A Socket, its receiver_state and its actions have no lock: what protects them
\* is that one worker has them at a time.  A worker comes to a socket only
\* through the acceptor, which has just accepted it, and no other worker had it
\* before that step or has it then: no step hands a socket from one worker to
\* another, whatever exceptions and hang-ups drop
\* (batched_connection_server.cpp 90-111, 145-151, epoll.cpp 54-64).
OneWorker ==
  [][\A s \in Sock, w \in Workers : Keeps(w, s)' =>
       /\ Keeps(w, s) \/ fresh = s
       /\ \A v \in Workers : v # w => ~Keeps(v, s) /\ ~Keeps(v, s)']_vars

\* What receive_action takes for a header is one: outside a frame the next
\* piece of a registered socket is the first of a frame, whatever a frame's
\* arrival was interrupted by (batched_connection_server.cpp 36-75, 97-101).
HeaderNext ==
  \A w \in Workers : \A s \in epoll[w] :
    LET unread == rx[s] \o flight[s]
    IN up /\ unread # <<>> /\ (cur[w] = s => at[w] \notin {"size", "body"})
         => unread[1][1] > 0 /\ unread[1][2] = 1

\* The frames of s that carry a message, among the first n, and those whose
\* messages were its first n deliveries.
Messages(s, n) == {f \in 1..n : frames[s][f].size > 0}
Given(s, n)    == {delivered[s][i].frame : i \in 1..n}

\* "There is a unique action function (produced by a separate call to
\* new_connection) per logical connection", made before its first message;
\* and each message is delivered once, in the order the client sent it, to the
\* action of the connection it was sent on (batched_connection.hpp 147-148,
\* batched_connection_server.cpp 36-69).
InOrder ==
  \A s \in Sock :
    /\ IsInjective(made[s])
    /\ \A i \in 1..Len(delivered[s]) :
         LET d == delivered[s][i]
         IN /\ d.frame \in Messages(s, Len(frames[s]))
            /\ d.id = frames[s][d.frame].id /\ d.id \in Range(made[s])
            /\ Given(s, i - 1) = Messages(s, d.frame - 1)

\* "looks like remote closed the connection.  nothing to see here": an
\* accepted socket is taken over by its worker: it reaches the worker's EPoll,
\* if its client stays, the process lives, and no client that never sends its
\* socket id holds the worker up (batched_connection_server.cpp 104-111,
\* 119-124).
HandedOff ==
  \A w \in Workers : NotHeldUp(w) =>
    \A s \in Sock : (s \in Range(queue[w])) ~> (s \in epoll[w] \/ ~up \/ Gone(s))

\* The same of a worker that still has its eventfd: as long as no client left
\* before its socket id was received, only a client of that worker that stays
\* and never sends its socket id can make a socket wait for ever, although the
\* acceptor and the worker share no lock (batched_connection_server.cpp 92-111,
\* 145-151).
TakenOver ==
  \A w \in Workers : NotHeldUp(w) =>
    \A s \in Sock : (s \in Range(queue[w])) ~>
      (s \in epoll[w] \/ ~up \/ Gone(s) \/ ~notifier[w])

\* A message that was sent is delivered, if its client stays and the process
\* lives, unless another client prevents it in one of two ways: it stays and
\* never sends its socket id, for which a worker waits without a timeout, or it
\* leaves before its id was received, which costs a worker its eventfd.  Nothing
\* else the other clients do, when they send, in which pieces, or that they close,
\* keeps a message back (batched_connection_server.cpp 36-75, 92-102, 113-130).
MessagesDelivered ==
  (\A w \in Workers : NotHeldUp(w)) =>
    \A s \in Sock : \A n \in 1..(MaxEvents - 1) :
      (Cardinality(Messages(s, Len(frames[s]))) >= n) ~>
        (Len(delivered[s]) >= n \/ ~up \/ Gone(s) \/ \E w \in Workers : ~notifier[w])

\* "bad bad timeout detected!": no receive in the middle of a frame times out,
\* so while every client stays the process lives
\* (batched_connection_server.cpp 70-73).
NoBadTimeout == (\A s \in Sock : ~Gone(s)) => up

\* "let everything get cleaned up": when a client's socket is removed, so are
\* the action_items that hold a reference to it
\* (batched_connection_server.cpp 122-123).
CleanedUp ==
  \A s \in Sock : made[s] # <<>> => \E w \in Workers : s \in epoll[w]
=============================================================================
