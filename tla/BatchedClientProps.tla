------------------------- MODULE BatchedClientProps -------------------------
(***************************************************************************)
(* The property of BatchedClient that folds over its queues, and its       *)
(* liveness.                                                               *)
(***************************************************************************)
EXTENDS BatchedClient, SequencesExt

\* Of the bytes bs, the payload of the frames addressed to c.
Carried(fr, c, b) == IF b[2] > HdrSize /\ fr[b[1]].id = c THEN <<b>> ELSE <<>>
PayloadFor(fr, c, bs) == FlattenSeq([i \in 1..Len(bs) |-> Carried(fr, c, bs[i])])

\* What became of the bytes sent to c: those its callers got, then those queued
\* for it, then those not yet dispatched.
HeldFor(c) ==
  got[c] \o FlattenSeq(queue[c]) \o PayloadFor(frames, c, Undispatched)

\* No byte is lost, duplicated, reordered or given to the wrong connection on
\* its way from the socket through orphan, buffer and queue to the caller: the
\* bytes held for c are those sent to it.  A server that closed may have cut the
\* end off; a thread that died of an oversized request took a chunk with it.
Conserved ==
  \A c \in Conn : pc[c] # "dead" =>
    IF closed THEN IsPrefix(HeldFor(c), sent[c]) ELSE HeldFor(c) = sent[c]

\* A receive that could be satisfied ends: while the server lives and a byte
\* sent to c has not reached it, a thread in raw_receive comes out or is
\* interrupted, whichever thread happens to hold the lock, the orphan and the
\* rest of the bytes, and however often the other threads are interrupted.
Delivery ==
  \A c \in Conn :
    (InCall(c) /\ Len(got[c]) < Len(sent[c])) ~> (~InCall(c) \/ interrupted[c] \/ closed)

\* In the debug build interrupt() ends a receive that waits for a silent
\* server, unless the flag is taken back, wherever the thread was when it was
\* set (batched_connection_client.cpp 30-36, 120-124, 208-216, 236-258).
InterruptEndsCall ==
  \A c \in Conn :
    (hasTimeout /\ InCall(c) /\ interrupted[c]) ~> (~InCall(c) \/ ~interrupted[c])
=============================================================================
