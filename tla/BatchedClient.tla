--------------------------- MODULE BatchedClient ---------------------------
(***************************************************************************)
(* The client side of a batched connection: the threads of several         *)
(* logical connections (connection, batched_connection.hpp) share one      *)
(* SocketBundle, that is one TCP socket, one abortable lock, and either    *)
(* one spare buffer or one "orphan", the prefix of a frame whose rest has  *)
(* not arrived.  There is no reader thread: whichever caller of            *)
(* raw_receive finds its own queue empty takes the socket lock, reads      *)
(* whatever the network has, and delivers every complete frame of it to    *)
(* the queue of the connection it is addressed to, its own or another's.   *)
(*                                                                         *)
(* Each logical connection is used by one thread at a time, so a           *)
(* connection and the thread inside its raw_receive have the same name.    *)
(* A byte is a pair <<f, k>>: the k-th byte of the f-th frame the server   *)
(* sent on this socket.  A frame is HdrSize header units (the id and the   *)
(* size field) and its payload.                                            *)
(*                                                                         *)
(* A few definitions stand next to faulty variants of themselves; the      *)
(* specification uses none of these.                                       *)
(***************************************************************************)
EXTENDS Naturals, Sequences

CONSTANTS
  Conn,          \* the logical connections of one SocketBundle
  FrameSizes,    \* payload sizes the server may send
  Requests,      \* total sizes a caller may ask raw_receive for; 0 is a peek
  MaxFrames,     \* bound: frames the server sends
  Builds,        \* TRUE: the debug build, with a 500ms receive timeout; FALSE: the release build
  NoConn         \* not a connection: nobody holds the lock

ASSUME SizesAssumption == FrameSizes \subseteq Nat /\ Requests \subseteq Nat
ASSUME BoundsAssumption == MaxFrames \in Nat
ASSUME BuildsAssumption == Builds \subseteq BOOLEAN
ASSUME NoConnAssumption == NoConn \notin Conn

HdrSize == 2

VARIABLES
  frames,      \* the frames sent so far: the contents bytes refer to
  wire,        \* bytes in flight or in the socket's receive buffer
  closed,      \* the server's end is gone
  hasTimeout,  \* the socket has a receive timeout
  owner,       \* holder of socket_lock, or NoConn
  spare,       \* SocketBundle.spare holds a buffer
  orphans,     \* contents of SocketBundle.orphans; <<>> when it is null
  hand,        \* the bytes in the buffer the lock holder works on
  queue,       \* incoming[c]: a sequence of chunks, each a sequence of bytes
  interrupted, \* the atomic_bool of each connection
  pc,          \* where each connection's thread is in raw_receive
  want,        \* expected_size of the call in progress
  sent,        \* history: payload bytes the server addressed to c
  got          \* history: payload bytes raw_receive copied out for c

netVars    == <<frames, wire, closed, hasTimeout, sent>>
bundleVars == <<owner, spare, orphans, hand>>
vars       == <<netVars, bundleVars, interrupted, queue, pc, want, got>>

\* The bytes that can exist: those of frames that were sent.
BytesOf(fr) == (1..Len(fr)) \X (Nat \ {0})
Byte == BytesOf(frames)

\* Where a thread is when it is not inside raw_receive: before its first
\* call, or after one that returned, threw ReadInterruptedException, or threw
\* the ProtocolException of a closed socket.
Outside == {"idle", "returned", "interrupted", "failed"}
\* Inside: the loop test, the throw after the loop, the unlocked look at the
\* queue, the pop, lock_or_abort, recv, process_data, the end of the lock's
\* scope.  A thread whose request was oversized dies of the dead_code it throws.
Inside == {"test", "throw", "look", "pop", "lock", "recv", "process", "unlock"}
Holding == {"recv", "process", "unlock"}

FrameBytesFrom0(f, n) == [k \in 1..(HdrSize + n) |-> <<f, k - 1>>]
FrameBytes(f, n) == [k \in 1..(HdrSize + n) |-> <<f, k>>]
Payload(bs) == SubSeq(bs, HdrSize + 1, Len(bs))

\* The two header fields as process_data reads them at the front of a buffer.
ReaderId(bs) == owner
HeadId(bs)   == frames[bs[1][1]].id
HeadSize(bs) == frames[bs[1][1]].size
HeadEnd(bs)  == HdrSize + HeadSize(bs)

TypeOK ==
  /\ frames \in Seq([id : Conn, size : FrameSizes])
  /\ wire \in Seq(Byte)
  /\ closed \in BOOLEAN
  /\ hasTimeout \in Builds
  /\ owner \in Conn \cup {NoConn}
  /\ spare \in BOOLEAN
  /\ orphans \in Seq(Byte)
  /\ hand \in Seq(Byte)
  /\ queue \in [Conn -> Seq(Seq(Byte))]
  /\ interrupted \in [Conn -> BOOLEAN]
  /\ pc \in [Conn -> Outside \cup Inside \cup {"dead"}]
  /\ want \in [Conn -> Requests \cup {0}]
  /\ sent \in [Conn -> Seq(Byte)]
  /\ got \in [Conn -> Seq(Byte)]

Init ==
  /\ frames = <<>> /\ wire = <<>> /\ closed = FALSE
  /\ hasTimeout \in Builds
  /\ owner = NoConn /\ spare = TRUE /\ orphans = <<>> /\ hand = <<>>
  /\ queue = [c \in Conn |-> <<>>]
  /\ interrupted = [c \in Conn |-> FALSE]
  /\ pc = [c \in Conn |-> "idle"]
  /\ want = [c \in Conn |-> 0]
  /\ sent = [c \in Conn |-> <<>>]
  /\ got = [c \in Conn |-> <<>>]

Goto(c, from, to) == pc[c] = from /\ pc' = [pc EXCEPT ![c] = to]

----------------------------------------------------------------------------
(* The environment: the server's end of the socket, and interrupts.        *)

\* send_with_id at the server: the whole frame leaves in one sendmsg.
ServerSend(c, n) ==
  /\ ~closed /\ Len(frames) < MaxFrames
  /\ frames' = Append(frames, [id |-> c, size |-> n])
  /\ wire' = wire \o FrameBytes(Len(frames) + 1, n)
  /\ sent' = [sent EXCEPT ![c] = @ \o Payload(FrameBytes(Len(frames) + 1, n))]
  /\ UNCHANGED <<closed, hasTimeout, bundleVars, interrupted, queue, pc, want, got>>

\* The server's end closes; bytes it had not transmitted are lost.
ServerClose ==
  /\ ~closed /\ closed' = TRUE
  /\ \E k \in 0..Len(wire) : wire' = SubSeq(wire, 1, k)
  /\ UNCHANGED <<frames, hasTimeout, sent, bundleVars, interrupted, queue, pc, want, got>>

Interrupt(c) ==
  /\ interrupted' = [interrupted EXCEPT ![c] = TRUE]
  /\ UNCHANGED <<netVars, bundleVars, queue, pc, want, got>>

LeaveFlag(c) == UNCHANGED interrupted
LowerFlag(c) == interrupted' = [interrupted EXCEPT ![c] = FALSE]

ClearInterrupt(c) ==
  /\ LowerFlag(c)
  /\ UNCHANGED <<netVars, bundleVars, queue, pc, want, got>>

----------------------------------------------------------------------------
(* raw_receive.                                                            *)

Call(c, n) ==
  /\ pc[c] \in Outside
  /\ pc' = [pc EXCEPT ![c] = "test"]
  /\ want' = [want EXCEPT ![c] = n]
  /\ UNCHANGED <<netVars, bundleVars, interrupted, queue, got>>

LoopTest(c) ==
  /\ Goto(c, "test", IF interrupted[c] THEN "throw" ELSE "look")
  /\ UNCHANGED <<netVars, bundleVars, interrupted, queue, want, got>>

\* The only exit of the loop: the flag is reset and the exception thrown.
ThrowInterrupted(c) ==
  /\ Goto(c, "throw", "interrupted")
  /\ LowerFlag(c)
  /\ UNCHANGED <<netVars, bundleVars, queue, want, got>>

\* The size of the queue, read without queue_lock.
LookAtQueue(c) ==
  /\ Goto(c, "look", IF queue[c] # <<>> THEN "pop" ELSE "lock")
  /\ UNCHANGED <<netVars, bundleVars, interrupted, queue, want, got>>

\* What is left of a chunk goes back to the front of the queue.
PutBackNever(rest, q) == q
PutBackLast(rest, q) == IF rest # <<>> THEN Append(q, rest) ELSE q
PutBack(rest, q) == IF rest # <<>> THEN <<rest>> \o q ELSE q

\* Under queue_lock: the first chunk satisfies the request, and what is left
\* of it goes back to the front.
PopChunk(c) ==
  LET chunk == Head(queue[c])
      rest  == SubSeq(chunk, want[c] + 1, Len(chunk))
  IN /\ Goto(c, "pop", "returned")
     /\ queue[c] # <<>> /\ Len(chunk) >= want[c]
     /\ got' = [got EXCEPT ![c] = @ \o SubSeq(chunk, 1, want[c])]
     /\ queue' = [queue EXCEPT ![c] = PutBack(rest, Tail(@))]
     /\ UNCHANGED <<netVars, bundleVars, interrupted, want>>

\* The first chunk is shorter than the request: it is popped and
\* handle_oversized_request throws dead_code, which nobody can name.
PopOversized(c) ==
  /\ Goto(c, "pop", "dead")
  /\ queue[c] # <<>> /\ Len(Head(queue[c])) < want[c]
  /\ queue' = [queue EXCEPT ![c] = Tail(@)]
  /\ UNCHANGED <<netVars, bundleVars, interrupted, want, got>>

AbortOnFlagOnly(c)  == interrupted[c]
AbortOnQueueOnly(c) == queue[c] # <<>>

\* The predicate given to lock_or_abort.
AbortWanted(c) == interrupted[c] \/ queue[c] # <<>>

LockAborted(c) ==
  /\ Goto(c, "lock", "test")
  /\ AbortWanted(c)
  /\ UNCHANGED <<netVars, bundleVars, interrupted, queue, want, got>>

\* The lock is free and the predicate false: the thread owns the bundle and
\* takes the orphan's buffer if there is one, the spare otherwise.
LockAcquired(c) ==
  /\ Goto(c, "lock", "recv")
  /\ owner = NoConn /\ ~AbortWanted(c)
  /\ owner' = c
  /\ hand' = orphans
  /\ orphans' = <<>>
  /\ spare' = IF orphans # <<>> THEN spare ELSE FALSE
  /\ UNCHANGED <<netVars, interrupted, queue, want, got>>

\* drain: recv returns as many bytes as it likes of those that are there, and
\* process_data looks at them behind what the buffer already held.
Drain(c) ==
  /\ Goto(c, "recv", "process")
  /\ \E n \in 1..Len(wire) :
       /\ hand' = hand \o SubSeq(wire, 1, n)
       /\ wire' = SubSeq(wire, n + 1, Len(wire))
  /\ UNCHANGED <<frames, closed, hasTimeout, sent, owner, spare, orphans, interrupted,
                 queue, want, got>>

ReturnBufferOnly ==
  orphans' = hand /\ spare' = (spare \/ hand = <<>>) /\ hand' = <<>> /\ UNCHANGED owner
ReturnBufferLost ==
  orphans' = hand /\ UNCHANGED spare /\ hand' = <<>> /\ owner' = NoConn
ReturnBufferAsSpare ==
  orphans' = <<>> /\ spare' = TRUE /\ hand' = <<>> /\ owner' = NoConn

\* The two catch blocks for ResourceReturn: the buffer goes back where it
\* came from, and the lock that travelled in the exception is released.
ReturnBuffer ==
  /\ orphans' = hand
  /\ spare' = (spare \/ hand = <<>>)
  /\ hand' = <<>>
  /\ owner' = NoConn

\* recv timed out, with nothing sent or all of it still on its way: Timeout,
\* swallowed, and the loop goes round.
DrainTimeout(c) ==
  /\ hasTimeout
  /\ Goto(c, "recv", "test")
  /\ ReturnBuffer
  /\ UNCHANGED <<netVars, interrupted, queue, want, got>>

\* recv returned 0: ProtocolException, to the caller.
DrainClosed(c) ==
  /\ Goto(c, "recv", "failed")
  /\ wire = <<>> /\ closed
  /\ ReturnBuffer
  /\ UNCHANGED <<netVars, interrupted, queue, want, got>>

----------------------------------------------------------------------------
(* process_data, one recursive call at a time.                             *)

IsPartial(bs) == Len(bs) < HdrSize \/ Len(bs) < HeadEnd(bs)

\* Less than a header, or less than the frame: the buffer becomes the orphan.
KeepOrphan(c) ==
  /\ Goto(c, "process", "unlock")
  /\ IsPartial(hand)
  /\ orphans' = hand
  /\ hand' = <<>>
  /\ UNCHANGED <<netVars, owner, spare, interrupted, queue, want, got>>

\* A whole frame: its payload is queued for its addressee.  Any leftover is
\* the next call's buffer; if there is none, the buffer becomes the spare.
DispatchFrame(c) ==
  LET chunk    == SubSeq(hand, HdrSize + 1, HeadEnd(hand))
      leftover == SubSeq(hand, HeadEnd(hand) + 1, Len(hand))
  IN /\ ~IsPartial(hand)
     /\ Goto(c, "process", IF leftover # <<>> THEN "process" ELSE "unlock")
     /\ queue' = [queue EXCEPT ![HeadId(hand)] = Append(@, chunk)]
     /\ hand' = leftover
     /\ spare' = (spare \/ leftover = <<>>)
     /\ UNCHANGED <<netVars, owner, orphans, interrupted, want, got>>

Unlock(c) ==
  /\ Goto(c, "unlock", "test")
  /\ owner' = NoConn
  /\ UNCHANGED <<netVars, spare, orphans, hand, interrupted, queue, want, got>>

----------------------------------------------------------------------------

\* What the thread inside raw_receive does by itself.
Step(c) ==
  \/ LoopTest(c) \/ ThrowInterrupted(c)
  \/ LookAtQueue(c) \/ PopChunk(c) \/ PopOversized(c)
  \/ LockAborted(c) \/ LockAcquired(c)
  \/ Drain(c) \/ DrainTimeout(c) \/ DrainClosed(c)
  \/ KeepOrphan(c) \/ DispatchFrame(c)
  \/ Unlock(c)

Server == (\E c \in Conn, n \in FrameSizes : ServerSend(c, n)) \/ ServerClose

Users == \E c \in Conn : \/ \E n \in Requests : Call(c, n)
                         \/ Interrupt(c)
                         \/ ClearInterrupt(c)

Next == Server \/ Users \/ \E c \in Conn : Step(c)

Spec == Init /\ [][Next]_vars

\* The operating system keeps running a thread that can run; the network
\* delivers, so that threads which keep reading do not time out for ever.
FairSpec ==
  /\ Spec
  /\ \A c \in Conn : WF_vars(Step(c))
  /\ SF_vars(\E c \in Conn : Drain(c))
----------------------------------------------------------------------------
(* Properties.                                                             *)

InCall(c) == pc[c] \in Inside

\* The lock holder owns the bundle's buffer between taking it and giving it up.
HandInUse == \E c \in Conn : pc[c] \in {"recv", "process"}

\* socket_lock excludes: the thread between lock_or_abort and the end of the
\* lock's scope is its one holder, and every way out, the exceptions of
\* from_network included, releases it (batched_connection_client.cpp 236-280).
LockInv == \A c \in Conn : owner = c <=> pc[c] \in Holding

\* The bundle never loses or duplicates its one receive buffer: it is the
\* spare, or the orphan, or in the lock holder's hands, and only one of these,
\* across timeouts, closes and partial frames; and process_data never has an
\* empty buffer to interpret (the asserts at 61, 75, 244, 255, 261, 266, 271
\* and 276 of batched_connection_client.cpp).
OneBuffer ==
  /\ spare => orphans = <<>> /\ ~HandInUse
  /\ orphans # <<>> => ~HandInUse
  /\ HandInUse \/ spare \/ orphans # <<>>
  /\ ~HandInUse => hand = <<>>
  /\ hand = <<>> => \A c \in Conn : pc[c] # "process"

\* "it would be a bad bug if somehow we had a message ready": a thread that is
\* about to block in recv has an empty queue, although other threads filled
\* queues between its look at the queue and its getting the lock
\* (batched_connection_client.cpp 238-243).
NoMessageUnderLock == \A c \in Conn : pc[c] = "recv" => queue[c] = <<>>

\* The bytes not yet dispatched, in the order process_data will see them.
Undispatched == (orphans \o hand) \o wire

\* The number of bytes of frame f of the frames fr.
FrameEnd(fr, f) == HdrSize + fr[f].size

\* j bytes after byte k of frame f comes byte k + j of that frame, and after
\* the frame's last byte the first of the next frame.
Follows(fr, s, i, j) ==
  /\ s[i][2] + j <= FrameEnd(fr, s[i][1])
       => s[i + j] = <<s[i][1], s[i][2] + j>>
  /\ s[i][2] + j = FrameEnd(fr, s[i][1]) + 1
       => s[i + j] = <<s[i][1] + 1, 1>>

\* s starts with a header and runs through the frames fr in the order sent.
Contiguous(fr, s) ==
  /\ s # <<>> => s[1][2] = 1
  /\ \A i \in 1..Len(s) : \A j \in 0..(Len(s) - i) : Follows(fr, s, i, j)

\* s ends with the last byte of the last of the frames fr.
Complete(fr, s) ==
  s # <<>> => s[Len(s)] = <<Len(fr), FrameEnd(fr, Len(fr))>>

\* What process_data reads as a header is a header: the undispatched bytes
\* start at the first byte of a frame and are the frames in the order sent,
\* however recv cut them and whichever thread read each piece; while the
\* server lives they reach to the last byte it sent
\* (batched_connection_client.cpp 53-97, 246-263).
FrameAligned ==
  /\ Contiguous(frames, Undispatched)
  /\ ~closed => Complete(frames, Undispatched)

Channels == INSTANCE LogicalChannels WITH
  receiving <- [c \in Conn |-> InCall(c)]

\* Whatever threads share the bundle, each connection's callers see one
\* reliable byte stream: raw_receive returns exactly the next expected_size
\* bytes sent to that connection, or throws and takes nothing.
RefinesChannels == Channels!Spec
=============================================================================
