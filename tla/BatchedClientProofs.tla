------------------------ MODULE BatchedClientProofs ------------------------
(***************************************************************************)
(* Proofs about BatchedClient, for every set of connections, every set of  *)
(* frame sizes and requests, any number of frames and interrupts, with and *)
(* without a receive timeout.                                              *)
(***************************************************************************)
EXTENDS BatchedClientProps, SequenceTheorems, WellFoundedInduction, NaturalsInduction, TLAPS

\* A piece of a sequence is a sequence of the same elements.
LEMMA PieceType ==
  ASSUME NEW S, NEW s \in Seq(S), NEW m \in Nat \ {0}, NEW n \in 0..Len(s)
  PROVE  /\ SubSeq(s, m, n) \in Seq(S)
         /\ Len(SubSeq(s, m, n)) = IF m <= n THEN n - m + 1 ELSE 0
         /\ \A i \in 1..(n - m + 1) : SubSeq(s, m, n)[i] = s[m + i - 1]
<1>1. \A i \in m..n : s[i] \in S  BY ElementOfSeq
<1>2. m \in Int /\ n \in Int  BY LenProperties
<1> QED BY <1>1, <1>2, SubSeqProperties

\* What the bytes of a frame are.
LEMMA FrameBytesType ==
  ASSUME NEW f \in Nat, NEW n \in Nat
  PROVE  /\ FrameBytes(f, n) \in Seq({f} \X (Nat \ {0}))
         /\ Len(FrameBytes(f, n)) = HdrSize + n
         /\ \A k \in 1..(HdrSize + n) : FrameBytes(f, n)[k] = <<f, k>>
<1> DEFINE T == {f} \X (Nat \ {0})
<1>1. HdrSize + n \in Nat  BY DEF HdrSize
<1>2. FrameBytes(f, n) \in [1..(HdrSize + n) -> T]  BY <1>1 DEF FrameBytes
<1>3. FrameBytes(f, n) \in Seq(T)  BY <1>1, <1>2, SeqDef
<1> QED BY <1>1, <1>2, <1>3, LenProperties DEF FrameBytes

LEMMA PayloadType ==
  ASSUME NEW f \in Nat, NEW n \in Nat
  PROVE  /\ Payload(FrameBytes(f, n)) \in Seq({f} \X (Nat \ {0}))
         /\ Len(Payload(FrameBytes(f, n))) = n
         /\ \A k \in 1..n : Payload(FrameBytes(f, n))[k] = <<f, HdrSize + k>>
<1>1. PICK T, b : T = {f} \X (Nat \ {0}) /\ b = FrameBytes(f, n)  OBVIOUS
<1>2. /\ b \in Seq(T) /\ Len(b) = HdrSize + n
      /\ \A k \in 1..(HdrSize + n) : b[k] = <<f, k>>
  BY <1>1, FrameBytesType
<1>3. HdrSize \in Nat /\ HdrSize + 1 \in Nat \ {0} /\ Len(b) \in 0..Len(b)
  BY <1>2 DEF HdrSize
<1>4. PICK p : p = SubSeq(b, HdrSize + 1, Len(b))  OBVIOUS
<1>5. /\ p \in Seq(T)
      /\ Len(p) = IF HdrSize + 1 <= Len(b) THEN Len(b) - (HdrSize + 1) + 1 ELSE 0
      /\ \A i \in 1..(Len(b) - (HdrSize + 1) + 1) : p[i] = b[(HdrSize + 1) + i - 1]
  BY <1>2, <1>3, <1>4, PieceType
<1>6. Len(p) = n  BY <1>2, <1>3, <1>5
<1>7. ASSUME NEW k \in 1..n PROVE p[k] = <<f, HdrSize + k>>
  <2>1. /\ k \in 1..(Len(b) - (HdrSize + 1) + 1) /\ HdrSize + k \in 1..(HdrSize + n)
        /\ (HdrSize + 1) + k - 1 = HdrSize + k
    BY <1>2, <1>3
  <2> QED BY <1>2, <1>5, <2>1
<1> QED BY <1>1, <1>4, <1>5, <1>6, <1>7 DEF Payload

LEMMA TypeInit == Init => TypeOK
<1> SUFFICES ASSUME Init PROVE TypeOK
  OBVIOUS
<1> USE DEF Init
<1>1. frames \in Seq([id : Conn, size : FrameSizes])  BY EmptySeq
<1>2. <<>> \in Seq(Byte) /\ <<>> \in Seq(Seq(Byte))  BY EmptySeq
<1>3. wire \in Seq(Byte) /\ orphans \in Seq(Byte) /\ hand \in Seq(Byte)  BY <1>2
<1>4. /\ queue \in [Conn -> Seq(Seq(Byte))]
      /\ sent \in [Conn -> Seq(Byte)]
      /\ got \in [Conn -> Seq(Byte)]
  BY <1>2
<1>5. /\ pc \in [Conn -> Outside \cup Inside \cup {"dead"}]
      /\ want \in [Conn -> Requests \cup {0}]
      /\ interrupted \in [Conn -> BOOLEAN]
  BY DEF Outside
<1> QED BY <1>1, <1>3, <1>4, <1>5 DEF TypeOK

\* What process_data reads at the front of a buffer that is not partial.
LEMMA HeadType ==
  ASSUME TypeOK, NEW bs \in Seq(Byte), bs # <<>>
  PROVE  /\ bs[1] \in Byte
         /\ bs[1][1] \in 1..Len(frames)
         /\ HeadId(bs) \in Conn
         /\ HeadSize(bs) \in Nat
         /\ HeadEnd(bs) \in Nat
<1>1. 1 \in 1..Len(bs)  BY EmptySeq, LenProperties
<1>2. bs[1] \in Byte  BY <1>1, ElementOfSeq
<1>3. bs[1][1] \in 1..Len(frames)  BY <1>2 DEF Byte, BytesOf
<1>4. frames[bs[1][1]] \in [id : Conn, size : FrameSizes]
  BY <1>3, ElementOfSeq DEF TypeOK
<1>5. HeadId(bs) \in Conn /\ HeadSize(bs) \in FrameSizes
  BY <1>4 DEF HeadId, HeadSize
<1>6. HeadSize(bs) \in Nat  BY <1>5, SizesAssumption
<1> QED BY <1>2, <1>3, <1>5, <1>6 DEF HeadEnd, HdrSize

LEMMA WholeFrame ==
  ASSUME TypeOK, ~IsPartial(hand)
  PROVE  /\ hand # <<>>
         /\ HeadEnd(hand) \in HdrSize..Len(hand)
<1>1. Len(hand) \in Nat /\ hand \in Seq(Byte)  BY LenProperties DEF TypeOK
<1>2. hand # <<>>  BY <1>1, EmptySeq DEF IsPartial, HdrSize
<1>3. HeadEnd(hand) \in Nat /\ HeadSize(hand) \in Nat  BY <1>1, <1>2, HeadType
<1> QED BY <1>1, <1>2, <1>3 DEF IsPartial, HdrSize, HeadEnd

LEMMA WantType == ASSUME TypeOK, NEW c \in Conn PROVE want[c] \in Nat
<1>1. Requests \cup {0} \subseteq Nat  BY SizesAssumption
<1>2. want[c] \in Requests \cup {0}  BY DEF TypeOK
<1> QED BY <1>1, <1>2

LEMMA TypeStep == TypeOK /\ [Next]_vars => TypeOK'
<1> SUFFICES ASSUME TypeOK, [Next]_vars PROVE TypeOK'
  OBVIOUS
<1> USE DEF TypeOK
<1>1. ASSUME NEW c \in Conn, NEW n \in FrameSizes, ServerSend(c, n) PROVE TypeOK'
  <2> DEFINE f == Len(frames) + 1
  <2>1. f \in Nat /\ n \in Nat /\ Len(frames) \in Nat
    BY SizesAssumption, LenProperties
  <2>2. frames' \in Seq([id : Conn, size : FrameSizes]) /\ Len(frames') = f
    BY <1>1 DEF ServerSend
  <2>3. Byte \subseteq Byte' /\ {f} \X (Nat \ {0}) \subseteq Byte'
    <3>1. 1..Len(frames) \subseteq 1..f /\ {f} \subseteq 1..f  BY <2>1
    <3>2. Byte' = (1..f) \X (Nat \ {0})  BY <2>2 DEF Byte, BytesOf
    <3> QED BY <3>1, <3>2 DEF Byte, BytesOf
  <2>4. FrameBytes(f, n) \in Seq(Byte') /\ Payload(FrameBytes(f, n)) \in Seq(Byte')
    BY <2>1, <2>3, FrameBytesType, PayloadType, SeqMonotonic
  <2>5. \A s \in Seq(Byte) : s \in Seq(Byte')
    BY <2>3, SeqMonotonic
  <2>6. wire' \in Seq(Byte') /\ orphans' \in Seq(Byte') /\ hand' \in Seq(Byte')
    BY <1>1, <2>4, <2>5, ConcatProperties DEF ServerSend, bundleVars
  <2>7. sent' \in [Conn -> Seq(Byte')]
    BY <1>1, <2>4, <2>5, ConcatProperties DEF ServerSend
  <2>8. queue' \in [Conn -> Seq(Seq(Byte'))] /\ got' \in [Conn -> Seq(Byte')]
    <3>1. \A s \in Seq(Seq(Byte)) : s \in Seq(Seq(Byte'))
      <4>1. Seq(Byte) \subseteq Seq(Byte')  BY <2>5
      <4> QED BY <4>1, SeqMonotonic
    <3> QED BY <1>1, <2>5, <3>1 DEF ServerSend
  <2> QED BY <1>1, <2>2, <2>6, <2>7, <2>8 DEF ServerSend, bundleVars
<1> SUFFICES ASSUME UNCHANGED frames PROVE TypeOK'
  BY <1>1 DEF Next, Server, Users, Step, vars, netVars, ServerClose, Interrupt,
     ClearInterrupt, Call, LoopTest, ThrowInterrupted, LookAtQueue, PopChunk,
     PopOversized, LockAborted, LockAcquired, Drain, DrainTimeout, DrainClosed,
     KeepOrphan, DispatchFrame, Unlock
<1> Byte' = Byte  BY DEF Byte, BytesOf
<1>2. CASE ServerClose
  <2>1. wire' \in Seq(Byte)  BY <1>2, PieceType DEF ServerClose
  <2> QED BY <1>2, <2>1 DEF ServerClose, bundleVars
<1>3. ASSUME NEW c \in Conn, Interrupt(c) \/ ClearInterrupt(c) PROVE TypeOK'
  <2>1. interrupted' \in [Conn -> BOOLEAN]
    BY <1>3 DEF Interrupt, ClearInterrupt, LowerFlag
  <2> QED BY <1>3, <2>1 DEF Interrupt, ClearInterrupt, LowerFlag, netVars, bundleVars
<1>4. ASSUME NEW c \in Conn, NEW n \in Requests, Call(c, n) PROVE TypeOK'
  BY <1>4 DEF Call, netVars, bundleVars, Outside, Inside
<1>5. ASSUME NEW c \in Conn,
             LoopTest(c) \/ ThrowInterrupted(c) \/ LookAtQueue(c) \/ LockAborted(c)
      PROVE  TypeOK'
  BY <1>5 DEF LoopTest, ThrowInterrupted, LowerFlag, LookAtQueue, LockAborted, Goto, netVars,
     bundleVars, Outside, Inside
<1>6. ASSUME NEW c \in Conn, PopChunk(c) PROVE TypeOK'
  <2> DEFINE chunk == Head(queue[c])
             rest  == SubSeq(chunk, want[c] + 1, Len(chunk))
  <2>1. queue[c] \in Seq(Seq(Byte)) /\ queue[c] # <<>> /\ want[c] \in Nat
    <3>1. want[c] \in Nat  BY WantType
    <3>2. queue[c] \in Seq(Seq(Byte))  OBVIOUS
    <3> QED BY <1>6, <3>1, <3>2 DEF PopChunk
  <2>2. chunk \in Seq(Byte) /\ Tail(queue[c]) \in Seq(Seq(Byte))
    BY <2>1, HeadTailProperties
  <2>3. Len(chunk) \in Nat /\ want[c] <= Len(chunk)
    BY <1>6, <2>2, LenProperties DEF PopChunk
  <2>4. rest \in Seq(Byte) /\ SubSeq(chunk, 1, want[c]) \in Seq(Byte)
    <3> HIDE DEF chunk
    <3>0. want[c] \in Nat  BY <2>1
    <3>1. /\ want[c] + 1 \in Nat \ {0} /\ 1 \in Nat \ {0}
          /\ Len(chunk) \in 0..Len(chunk) /\ want[c] \in 0..Len(chunk)
      BY <2>3, <3>0
    <3>2. ASSUME NEW m \in Nat \ {0}, NEW n \in 0..Len(chunk)
          PROVE  SubSeq(chunk, m, n) \in Seq(Byte)
      BY <2>2, PieceType
    <3> QED BY <3>1, <3>2
  <2>5. got' \in [Conn -> Seq(Byte)]
    BY <1>6, <2>4, ConcatProperties DEF PopChunk
  <2>6. <<rest>> \o Tail(queue[c]) \in Seq(Seq(Byte))
    BY <2>2, <2>4, ConcatProperties
  <2>7. queue' \in [Conn -> Seq(Seq(Byte))]
    BY <1>6, <2>2, <2>6 DEF PopChunk, PutBack
  <2> QED BY <1>6, <2>5, <2>7 DEF PopChunk, Goto, netVars, bundleVars,
             Outside
<1>7. ASSUME NEW c \in Conn, PopOversized(c) PROVE TypeOK'
  BY <1>7, HeadTailProperties DEF PopOversized, Goto, netVars, bundleVars
<1>8. ASSUME NEW c \in Conn, LockAcquired(c) PROVE TypeOK'
  BY <1>8, EmptySeq DEF LockAcquired, Goto, netVars, Inside
<1>9. ASSUME NEW c \in Conn, Drain(c) PROVE TypeOK'
  <2>1. PICK n \in 1..Len(wire) :
           /\ hand' = hand \o SubSeq(wire, 1, n)
           /\ wire' = SubSeq(wire, n + 1, Len(wire))
    BY <1>9 DEF Drain
  <2>2. Len(wire) \in Nat  BY LenProperties
  <2>3. SubSeq(wire, 1, n) \in Seq(Byte) /\ wire' \in Seq(Byte)
    <3>1. SubSeq(wire, 1, n) \in Seq(Byte)  BY <2>2, PieceType
    <3>2. n + 1 \in Nat \ {0} /\ Len(wire) \in 0..Len(wire)  BY <2>2
    <3>3. SubSeq(wire, n + 1, Len(wire)) \in Seq(Byte)  BY <3>2, PieceType
    <3> QED BY <2>1, <3>1, <3>3
  <2>4. hand' \in Seq(Byte)
    <3>1. hand \in Seq(Byte) /\ SubSeq(wire, 1, n) \in Seq(Byte)  BY <2>3
    <3>2. hand \o SubSeq(wire, 1, n) \in Seq(Byte)  BY <3>1, ConcatProperties, Zenon
    <3> QED BY <2>1, <3>2
  <2>5. /\ UNCHANGED <<frames, closed, hasTimeout, sent, owner, spare, orphans, interrupted,
                       queue, want, got>>
        /\ pc' = [pc EXCEPT ![c] = "process"]
    BY <1>9, Zenon DEF Drain, Goto
  <2>6. pc' \in [Conn -> Outside \cup Inside \cup {"dead"}]  BY <2>5 DEF Inside
  <2>7. Byte' = Byte  BY <2>5 DEF Byte, BytesOf
  <2>8. queue' = queue /\ orphans' = orphans /\ sent' = sent /\ got' = got  BY <2>5
  <2>9. /\ queue' \in [Conn -> Seq(Seq(Byte'))] /\ orphans' \in Seq(Byte')
        /\ sent' \in [Conn -> Seq(Byte')] /\ got' \in [Conn -> Seq(Byte')]
    BY <2>7, <2>8, Zenon
  <2>10. /\ frames' \in Seq([id : Conn, size : FrameSizes]) /\ closed' \in BOOLEAN
         /\ hasTimeout' \in Builds /\ owner' \in Conn \cup {NoConn} /\ spare' \in BOOLEAN
         /\ interrupted' \in [Conn -> BOOLEAN] /\ want' \in [Conn -> Requests \cup {0}]
    BY <2>5
  <2>11. wire' \in Seq(Byte') /\ hand' \in Seq(Byte')  BY <2>3, <2>4, <2>7, Zenon
  <2> QED BY <2>6, <2>9, <2>10, <2>11, Zenon DEF TypeOK
<1>10. ASSUME NEW c \in Conn, DrainTimeout(c) \/ DrainClosed(c) PROVE TypeOK'
  <2>1. /\ UNCHANGED <<netVars, interrupted, queue, want, got>>
        /\ \E to \in {"test", "failed"} : pc' = [pc EXCEPT ![c] = to]
        /\ orphans' = hand /\ spare' \in BOOLEAN /\ hand' = <<>> /\ owner' = NoConn
    BY <1>10 DEF DrainTimeout, DrainClosed, ReturnBuffer, Goto
  <2>2. pc' \in [Conn -> Outside \cup Inside \cup {"dead"}]
    BY <2>1 DEF Inside, Outside
  <2> QED BY <2>1, <2>2, EmptySeq DEF netVars
<1>11. ASSUME NEW c \in Conn, KeepOrphan(c) PROVE TypeOK'
  BY <1>11, EmptySeq DEF KeepOrphan, Goto, netVars, Inside
<1>12. ASSUME NEW c \in Conn, DispatchFrame(c) PROVE TypeOK'
  <2> DEFINE chunk    == SubSeq(hand, HdrSize + 1, HeadEnd(hand))
             leftover == SubSeq(hand, HeadEnd(hand) + 1, Len(hand))
             id       == HeadId(hand)
  <2>1. ~IsPartial(hand)  BY <1>12 DEF DispatchFrame
  <2>2. hand \in Seq(Byte) /\ hand # <<>> /\ Len(hand) \in Nat
        /\ HeadEnd(hand) \in HdrSize..Len(hand)
    BY <2>1, WholeFrame, LenProperties
  <2>3. id \in Conn  BY <2>2, HeadType
  <2>4. chunk \in Seq(Byte) /\ leftover \in Seq(Byte)
    <3>1. /\ HdrSize + 1 \in Nat \ {0} /\ HeadEnd(hand) \in 0..Len(hand)
          /\ HeadEnd(hand) + 1 \in Nat \ {0} /\ Len(hand) \in 0..Len(hand)
      BY <2>2 DEF HdrSize
    <3>2. ASSUME NEW m \in Nat \ {0}, NEW n \in 0..Len(hand)
          PROVE  SubSeq(hand, m, n) \in Seq(Byte)
      BY <2>2, PieceType
    <3> QED BY <3>1, <3>2
  <2>5. Append(queue[id], chunk) \in Seq(Seq(Byte))
    BY <2>3, <2>4
  <2>6. queue' \in [Conn -> Seq(Seq(Byte))]
    BY <1>12, <2>3, <2>5 DEF DispatchFrame
  <2>7. hand' \in Seq(Byte) /\ spare' \in BOOLEAN
    BY <1>12, <2>4, EmptySeq DEF DispatchFrame
  <2>8. pc' \in [Conn -> Outside \cup Inside \cup {"dead"}]
    BY <1>12 DEF DispatchFrame, Goto, Inside
  <2> QED BY <1>12, <2>6, <2>7, <2>8 DEF DispatchFrame, netVars
<1>13. ASSUME NEW c \in Conn, Unlock(c) PROVE TypeOK'
  BY <1>13 DEF Unlock, Goto, netVars, Inside
<1>14. CASE UNCHANGED vars
  BY <1>14 DEF vars, netVars, bundleVars
<1> QED BY <1>1, <1>2, <1>3, <1>4, <1>5, <1>6, <1>7, <1>8, <1>9, <1>10, <1>11,
           <1>12, <1>13, <1>14 DEF Next, Server, Users, Step

\* Every variable keeps its type, for any number of connections and frames:
\* in particular process_data only ever indexes sock.incoming with the id of a
\* connection (batched_connection_client.cpp 67-79).
THEOREM TypeCorrect == Spec => []TypeOK
<1>1. Init => TypeOK  BY TypeInit
<1>2. TypeOK /\ [Next]_vars => TypeOK'  BY TypeStep
<1> QED BY <1>1, <1>2, PTL DEF Spec
----------------------------------------------------------------------------
(* The lock, the buffer and the queues.                                    *)

\* Who holds the lock, where the buffer is and what is queued depend on each
\* other, and together are inductive.
SharingInv == LockInv /\ OneBuffer /\ NoMessageUnderLock

LEMMA SharingInit == Init => SharingInv
BY NoConnAssumption
   DEF Init, SharingInv, LockInv, OneBuffer, NoMessageUnderLock, HandInUse, Holding

\* A step of one thread leaves the others where they were.
LEMMA GotoFrame ==
  ASSUME TypeOK, NEW c \in Conn, NEW from, NEW to, Goto(c, from, to)
  PROVE  /\ pc[c] = from /\ pc'[c] = to
         /\ \A d \in Conn : d # c => pc'[d] = pc[d]
BY DEF TypeOK, Goto

LEMMA SharingStep == TypeOK /\ SharingInv /\ [Next]_vars => SharingInv'
<1> SUFFICES ASSUME TypeOK, SharingInv, [Next]_vars PROVE SharingInv'
  OBVIOUS
<1> USE DEF SharingInv
<1>1. ASSUME NEW c \in Conn, NEW n \in FrameSizes, ServerSend(c, n)
      PROVE  SharingInv'
  BY <1>1 DEF ServerSend, bundleVars, LockInv, OneBuffer, NoMessageUnderLock,
     HandInUse
<1>2. CASE ServerClose
  BY <1>2 DEF ServerClose, bundleVars, LockInv, OneBuffer, NoMessageUnderLock,
     HandInUse
<1>3. ASSUME NEW c \in Conn, Interrupt(c) \/ ClearInterrupt(c) PROVE SharingInv'
  BY <1>3 DEF Interrupt, ClearInterrupt, LowerFlag, bundleVars, LockInv, OneBuffer,
     NoMessageUnderLock, HandInUse
<1>4. ASSUME NEW c \in Conn, NEW n \in Requests, Call(c, n) PROVE SharingInv'
  BY <1>4 DEF Call, TypeOK, Outside, Holding, bundleVars, LockInv, OneBuffer,
     NoMessageUnderLock, HandInUse
\* Steps of a thread that neither has nor takes the lock.
<1>5. ASSUME NEW c \in Conn,
             LoopTest(c) \/ ThrowInterrupted(c) \/ LookAtQueue(c) \/ LockAborted(c)
      PROVE  SharingInv'
  <2>1. pc[c] \notin Holding /\ pc'[c] \notin Holding
    BY <1>5, GotoFrame
       DEF LoopTest, ThrowInterrupted, LookAtQueue, LockAborted, Holding
  <2>2. \A d \in Conn : d # c => pc'[d] = pc[d]
    BY <1>5, GotoFrame DEF LoopTest, ThrowInterrupted, LookAtQueue, LockAborted
  <2>3. UNCHANGED <<bundleVars, queue>>
    BY <1>5 DEF LoopTest, ThrowInterrupted, LookAtQueue, LockAborted
  <2> QED BY <2>1, <2>2, <2>3 DEF Holding, bundleVars, LockInv, OneBuffer,
             NoMessageUnderLock, HandInUse
<1>6. ASSUME NEW c \in Conn, PopChunk(c) \/ PopOversized(c) PROVE SharingInv'
  <2>1. pc[c] \notin Holding /\ pc'[c] \notin Holding
    BY <1>6, GotoFrame DEF PopChunk, PopOversized, Holding
  <2>2. \A d \in Conn : d # c => pc'[d] = pc[d] /\ queue'[d] = queue[d]
    BY <1>6, GotoFrame DEF PopChunk, PopOversized, TypeOK
  <2>3. UNCHANGED bundleVars  BY <1>6 DEF PopChunk, PopOversized
  <2> QED BY <2>1, <2>2, <2>3 DEF Holding, bundleVars, LockInv, OneBuffer,
             NoMessageUnderLock, HandInUse
\* Taking the lock: nobody held it, so the buffer was not in use.
<1>7. ASSUME NEW c \in Conn, LockAcquired(c) PROVE SharingInv'
  <2>1. /\ pc[c] = "lock" /\ pc'[c] = "recv"
        /\ \A d \in Conn : d # c => pc'[d] = pc[d]
    BY <1>7, GotoFrame DEF LockAcquired
  <2>2. \A d \in Conn : pc[d] \notin Holding
    BY <1>7, NoConnAssumption DEF LockAcquired, LockInv
  <2>3. LockInv'
    BY <1>7, <2>1, <2>2, NoConnAssumption DEF LockAcquired, LockInv, Holding
  <2>4. HandInUse' /\ orphans' = <<>> /\ ~spare'
    BY <1>7, <2>1 DEF LockAcquired, HandInUse, OneBuffer
  <2>5. OneBuffer'  BY <2>1, <2>2, <2>4 DEF OneBuffer, Holding
  <2>6. NoMessageUnderLock'
    BY <1>7, <2>1, <2>2 DEF LockAcquired, NoMessageUnderLock, Holding, AbortWanted
  <2> QED BY <2>3, <2>5, <2>6
\* Steps of the lock holder that keep the buffer in hand.
<1>8. ASSUME NEW c \in Conn, Drain(c) PROVE SharingInv'
  <2>1. /\ pc[c] = "recv" /\ pc'[c] = "process"
        /\ \A d \in Conn : d # c => pc'[d] = pc[d]
    BY <1>8, GotoFrame DEF Drain
  <2>2. HandInUse /\ HandInUse'  BY <2>1 DEF HandInUse
  <2>3. UNCHANGED <<owner, spare, orphans, queue>>  BY <1>8 DEF Drain
  <2>4. hand' # <<>>
    <3>1. PICK n \in 1..Len(wire) : hand' = hand \o SubSeq(wire, 1, n)
      BY <1>8 DEF Drain
    <3>2. wire \in Seq(Byte) /\ hand \in Seq(Byte) /\ Len(wire) \in Nat
      BY LenProperties DEF TypeOK
    <3>3. SubSeq(wire, 1, n) \in Seq(Byte) /\ Len(SubSeq(wire, 1, n)) = n
      BY <3>2, PieceType
    <3>4. SubSeq(wire, 1, n) # <<>>  BY <3>3, EmptySeq
    <3> QED BY <3>1, <3>2, <3>3, <3>4, ConcatEqualIffEmpty
  <2> QED BY <2>1, <2>2, <2>3, <2>4
          DEF Holding, LockInv, OneBuffer, NoMessageUnderLock
\* Steps that put the buffer back.
<1>9. ASSUME NEW c \in Conn, DrainTimeout(c) \/ DrainClosed(c) PROVE SharingInv'
  <2>1. /\ pc[c] = "recv" /\ pc'[c] \in {"test", "failed"}
        /\ \A d \in Conn : d # c => pc'[d] = pc[d]
    BY <1>9, GotoFrame DEF DrainTimeout, DrainClosed
  <2>2. owner = c /\ HandInUse /\ \A d \in Conn : d # c => pc[d] \notin Holding
    BY <2>1 DEF LockInv, Holding, HandInUse
  <2>3. ReturnBuffer /\ queue' = queue  BY <1>9 DEF DrainTimeout, DrainClosed
  <2>4. ~HandInUse' /\ \A d \in Conn : pc'[d] \notin Holding
    BY <2>1, <2>2 DEF HandInUse, Holding
  <2>5. LockInv'  BY <2>3, <2>4, NoConnAssumption DEF ReturnBuffer, LockInv
  <2>6. OneBuffer'  BY <2>2, <2>3, <2>4 DEF ReturnBuffer, OneBuffer, Holding
  <2>7. NoMessageUnderLock'  BY <2>4 DEF NoMessageUnderLock, Holding
  <2> QED BY <2>5, <2>6, <2>7
<1>10. ASSUME NEW c \in Conn, KeepOrphan(c) PROVE SharingInv'
  <2>1. /\ pc[c] = "process" /\ pc'[c] = "unlock"
        /\ \A d \in Conn : d # c => pc'[d] = pc[d]
    BY <1>10, GotoFrame DEF KeepOrphan
  <2>2. HandInUse /\ \A d \in Conn : d # c => pc[d] \notin Holding
    BY <2>1 DEF LockInv, Holding, HandInUse
  <2>3. ~HandInUse'  BY <2>1, <2>2 DEF HandInUse, Holding
  <2>4. LockInv'  BY <1>10, <2>1 DEF KeepOrphan, LockInv, Holding
  <2>5. hand # <<>>
    BY <2>1 DEF OneBuffer
  <2>6. OneBuffer'
    BY <1>10, <2>1, <2>2, <2>3, <2>5 DEF KeepOrphan, OneBuffer, Holding
  <2>7. NoMessageUnderLock'
    BY <1>10, <2>1 DEF KeepOrphan, NoMessageUnderLock
  <2> QED BY <2>4, <2>6, <2>7
<1>11. ASSUME NEW c \in Conn, DispatchFrame(c) PROVE SharingInv'
  <2> DEFINE leftover == SubSeq(hand, HeadEnd(hand) + 1, Len(hand))
  <2>1. /\ pc[c] = "process"
        /\ pc'[c] = IF leftover # <<>> THEN "process" ELSE "unlock"
        /\ \A d \in Conn : d # c => pc'[d] = pc[d]
    BY <1>11, GotoFrame DEF DispatchFrame
  <2>2. HandInUse /\ \A d \in Conn : d # c => pc[d] \notin Holding
    BY <2>1 DEF LockInv, Holding, HandInUse
  <2>3. hand' = leftover /\ spare' = (spare \/ leftover = <<>>)
        /\ UNCHANGED <<owner, orphans>>
    BY <1>11 DEF DispatchFrame
  <2>4. HandInUse' <=> leftover # <<>>
    BY <2>1, <2>2 DEF HandInUse, Holding
  <2>5. LockInv'  BY <2>1, <2>3 DEF LockInv, Holding
  <2>6. OneBuffer'
    BY <2>1, <2>2, <2>3, <2>4 DEF OneBuffer, HandInUse, Holding
  <2>7. NoMessageUnderLock'
    BY <2>1, <2>2 DEF NoMessageUnderLock, Holding
  <2> QED BY <2>5, <2>6, <2>7
<1>12. ASSUME NEW c \in Conn, Unlock(c) PROVE SharingInv'
  <2>1. /\ pc[c] = "unlock" /\ pc'[c] = "test"
        /\ \A d \in Conn : d # c => pc'[d] = pc[d]
    BY <1>12, GotoFrame DEF Unlock
  <2>2. LockInv'
    BY <1>12, <2>1, NoConnAssumption DEF Unlock, LockInv, Holding
  <2>3. HandInUse' <=> HandInUse  BY <2>1 DEF HandInUse
  <2>4. UNCHANGED <<spare, orphans, hand, queue>>  BY <1>12 DEF Unlock
  <2> QED BY <2>1, <2>2, <2>3, <2>4 DEF OneBuffer, NoMessageUnderLock
<1>13. CASE UNCHANGED vars
  BY <1>13 DEF vars, bundleVars, LockInv, OneBuffer, NoMessageUnderLock, HandInUse
<1> QED BY <1>1, <1>2, <1>3, <1>4, <1>5, <1>6, <1>7, <1>8, <1>9, <1>10, <1>11,
           <1>12, <1>13 DEF Next, Server, Users, Step

LEMMA Sharing == Spec => []SharingInv
<1>1. TypeOK /\ SharingInv /\ [Next]_vars => SharingInv'  BY SharingStep
<1>2. Init => SharingInv  BY SharingInit
<1> QED BY <1>1, <1>2, TypeCorrect, PTL DEF Spec

\* socket_lock excludes, and is released on every way out of raw_receive.
THEOREM LockSafe == Spec => []LockInv
<1>1. SharingInv => LockInv  BY DEF SharingInv
<1> QED BY <1>1, Sharing, PTL

\* The bundle's one buffer is the spare, the orphan or in the lock holder's
\* hands, and exactly one of these.
THEOREM BufferSafe == Spec => []OneBuffer
<1>1. SharingInv => OneBuffer  BY DEF SharingInv
<1> QED BY <1>1, Sharing, PTL

\* No thread blocks in recv while a message for it waits in its queue.
THEOREM QueueEmptyUnderLock == Spec => []NoMessageUnderLock
<1>1. SharingInv => NoMessageUnderLock  BY DEF SharingInv
<1> QED BY <1>1, Sharing, PTL

----------------------------------------------------------------------------
(* The bytes process_data takes for a header are one.                      *)

Frames == Seq([id : Conn, size : FrameSizes])

LEMMA FrameEndType ==
  ASSUME NEW fr \in Frames, NEW f \in 1..Len(fr)
  PROVE  FrameEnd(fr, f) \in Nat /\ FrameEnd(fr, f) >= HdrSize
<1>1. fr[f] \in [id : Conn, size : FrameSizes]  BY ElementOfSeq DEF Frames
<1>2. fr[f].size \in Nat  BY <1>1, SizesAssumption
<1> QED BY <1>2 DEF FrameEnd, HdrSize

LEMMA ByteType ==
  ASSUME NEW fr, NEW s \in Seq(BytesOf(fr)), NEW i \in 1..Len(s)
  PROVE  s[i][1] \in 1..Len(fr) /\ s[i][2] \in Nat \ {0}
<1>1. s[i] \in BytesOf(fr)  BY ElementOfSeq
<1> QED BY <1>1 DEF BytesOf

\* The end of the bytes may be cut off ...
LEMMA ContiguousPrefix ==
  ASSUME NEW fr \in Frames, NEW s \in Seq(BytesOf(fr)), NEW t \in Seq(BytesOf(fr)), Contiguous(fr, s),
         Len(t) <= Len(s), \A i \in 1..Len(t) : t[i] = s[i]
  PROVE  Contiguous(fr, t)
<1>1. Len(s) \in Nat /\ Len(t) \in Nat  BY LenProperties
<1>2. t # <<>> => s # <<>> /\ 1 \in 1..Len(t)  BY <1>1, EmptySeq
<1>3. ASSUME NEW i \in 1..Len(t), NEW j \in 0..(Len(t) - i)
      PROVE  Follows(fr, t, i, j)
  <2>1. i \in 1..Len(s) /\ j \in 0..(Len(s) - i) /\ i + j \in 1..Len(t)
    BY <1>1
  <2>2. Follows(fr, s, i, j)  BY <2>1 DEF Contiguous
  <2>3. t[i] = s[i] /\ t[i + j] = s[i + j]  BY <2>1
  <2> QED BY <2>2, <2>3 DEF Follows
<1>4. t # <<>> => t[1][2] = 1  BY <1>2 DEF Contiguous
<1> QED BY <1>3, <1>4 DEF Contiguous

\* ... a whole frame taken off the front ...
LEMMA ContiguousDrop ==
  ASSUME NEW fr \in Frames, NEW s \in Seq(BytesOf(fr)), NEW t \in Seq(BytesOf(fr)), Contiguous(fr, s),
         s # <<>>, FrameEnd(fr, s[1][1]) <= Len(s),
         Len(t) = Len(s) - FrameEnd(fr, s[1][1]),
         \A i \in 1..Len(t) : t[i] = s[FrameEnd(fr, s[1][1]) + i]
  PROVE  Contiguous(fr, t)
<1> DEFINE n == FrameEnd(fr, s[1][1])
<1>1. Len(s) \in Nat /\ Len(t) \in Nat /\ 1 \in 1..Len(s)
  BY LenProperties, EmptySeq
<1>2. s[1][1] \in 1..Len(fr) /\ s[1][2] = 1
  BY <1>1, ByteType DEF Contiguous
<1>3. n \in Nat /\ n <= Len(s)  BY <1>2, FrameEndType
<1> HIDE DEF n
<1>4. t # <<>> => t[1][2] = 1
  <2> SUFFICES ASSUME t # <<>> PROVE t[1][2] = 1
    OBVIOUS
  <2>1. 1 \in 1..Len(t) /\ n \in 0..(Len(s) - 1)  BY <1>1, <1>3, EmptySeq DEF n
  <2>2. Follows(fr, s, 1, n)  BY <1>1, <2>1 DEF Contiguous
  <2>3. s[1 + n] = <<s[1][1] + 1, 1>>
    BY <1>2, <1>3, <2>2 DEF Follows, n
  <2>4. t[1] = s[1 + n]  BY <2>1, <1>3 DEF n
  <2> QED BY <2>3, <2>4
<1>5. ASSUME NEW i \in 1..Len(t), NEW j \in 0..(Len(t) - i)
      PROVE  Follows(fr, t, i, j)
  <2>1. i + j \in 1..Len(t) /\ n + (i + j) = (n + i) + j  BY <1>1, <1>3
  <2>2. n + i \in 1..Len(s) /\ j \in 0..(Len(s) - (n + i))
    BY <1>1, <1>3 DEF n
  <2>3. t[i] = s[n + i] /\ t[i + j] = s[(n + i) + j]  BY <2>1 DEF n
  <2>4. Follows(fr, s, n + i, j)  BY <2>2 DEF Contiguous
  <2> QED BY <2>3, <2>4 DEF Follows
<1> QED BY <1>4, <1>5 DEF Contiguous

\* ... and a new frame put at the end.
LEMMA ContiguousAppend ==
  ASSUME NEW n \in FrameSizes, NEW c \in Conn,
         NEW fr \in Frames, NEW gr \in Frames,
         gr = Append(fr, [id |-> c, size |-> n]),
         NEW s \in Seq(BytesOf(fr)), Contiguous(fr, s), Complete(fr, s),
         NEW t, t = s \o FrameBytes(Len(fr) + 1, n)
  PROVE  Contiguous(gr, t) /\ Complete(gr, t)
<1> DEFINE F == Len(fr)
           G == F + 1
           m == HdrSize + n
           e == FrameBytes(G, n)
           T == (1..G) \X (Nat \ {0})
<1>1. F \in Nat /\ n \in Nat /\ m \in Nat /\ m >= 1 /\ Len(s) \in Nat
  BY SizesAssumption, LenProperties DEF Frames, HdrSize
<1>2. /\ Len(e) = m /\ \A k \in 1..m : e[k] = <<G, k>>
      /\ e \in Seq({G} \X (Nat \ {0}))
  <2>1. G \in Nat /\ n \in Nat  BY <1>1
  <2> HIDE DEF G
  <2>2. /\ FrameBytes(G, n) \in Seq({G} \X (Nat \ {0}))
        /\ Len(FrameBytes(G, n)) = HdrSize + n
        /\ \A k \in 1..(HdrSize + n) : FrameBytes(G, n)[k] = <<G, k>>
    BY <2>1, FrameBytesType
  <2> QED BY <2>2
<1>3. Len(gr) = G /\ gr[G] = [id |-> c, size |-> n]
      /\ \A f \in 1..F : gr[f] = fr[f]
  BY <1>1 DEF Frames
<1>4. FrameEnd(gr, G) = m /\ \A f \in 1..F : FrameEnd(gr, f) = FrameEnd(fr, f)
  BY <1>3 DEF FrameEnd
<1>5. /\ Len(t) = Len(s) + m
      /\ \A i \in 1..Len(s) : t[i] = s[i]
      /\ \A k \in 1..m : t[Len(s) + k] = <<G, k>>
  <2>1. s \in Seq(T)
    <3>1. BytesOf(fr) \subseteq T  BY <1>1 DEF BytesOf
    <3> QED BY <3>1, SeqMonotonic
  <2>2. e \in Seq(T)
    <3>1. {G} \X (Nat \ {0}) \subseteq T  BY <1>1
    <3> QED BY <1>2, <3>1, SeqMonotonic
  <2>3. /\ Len(t) = Len(s) + m
        /\ \A i \in 1..(Len(s) + m) :
             t[i] = IF i <= Len(s) THEN s[i] ELSE e[i - Len(s)]
    <3>1. t = s \o e  OBVIOUS
    <3>2. Len(e) = m  BY <1>2
    <3> HIDE DEF e, m, T
    <3>3. /\ Len(s \o e) = Len(s) + Len(e)
          /\ \A i \in 1..(Len(s) + Len(e)) :
               (s \o e)[i] = IF i <= Len(s) THEN s[i] ELSE e[i - Len(s)]
      BY <2>1, <2>2, ConcatProperties, Zenon
    <3> QED BY <3>1, <3>2, <3>3, Zenon
  <2>4. \A k \in 1..m : t[Len(s) + k] = e[k]  BY <1>1, <2>3
  <2> QED BY <1>1, <1>2, <2>3, <2>4
<1> HIDE DEF F, G, m, e, T
<1>6. t[Len(t)] = <<G, m>>  BY <1>1, <1>5
<1>l. Len(t) = Len(s) + m  BY <1>5
<1>7. t # <<>> => t[1][2] = 1
  <2>1. CASE s = <<>>
    <3>1. Len(s) = 0  BY <2>1, EmptySeq
    <3>2. t[0 + 1] = <<G, 1>>  BY <1>1, <1>5, <3>1
    <3> QED BY <3>2
  <2>2. CASE s # <<>>
    <3>1. 1 \in 1..Len(s)  BY <2>2, EmptySeq
    <3> QED BY <2>2, <3>1, <1>5 DEF Contiguous
  <2> QED BY <2>1, <2>2
<1>8. ASSUME NEW i \in 1..Len(t), NEW j \in 0..(Len(t) - i)
      PROVE  Follows(gr, t, i, j)
  <2>1. CASE i > Len(s)
    <3> DEFINE k == i - Len(s)
    <3>1. k \in 1..m /\ i = Len(s) + k /\ k + j \in 1..m
          /\ i + j = Len(s) + (k + j)
      BY <1>1, <1>l, <2>1
    <3>2. t[i] = <<G, k>> /\ t[i + j] = <<G, k + j>>  BY <1>5, <3>1
    <3>3. FrameEnd(gr, t[i][1]) = m /\ t[i][2] = k
      BY <1>4, <3>2
    <3>4. t[i][1] = G /\ t[i][2] + j = k + j /\ k + j # m + 1
      BY <1>1, <3>1, <3>2, <3>3
    <3> QED BY <3>2, <3>3, <3>4, Zenon DEF Follows
  <2>2. CASE i <= Len(s)
    <3>1. i \in 1..Len(s) /\ t[i] = s[i] /\ s # <<>>
      BY <1>1, <1>5, <2>2, EmptySeq
    <3>2. s[i][1] \in 1..F /\ s[i][2] \in Nat \ {0}
      BY <3>1, ByteType DEF F
    <3>3. /\ FrameEnd(gr, t[i][1]) = FrameEnd(fr, s[i][1])
          /\ FrameEnd(fr, s[i][1]) \in Nat
      BY <1>4, <3>1, <3>2, FrameEndType DEF F
    <3>4. CASE i + j <= Len(s)
      <4>1. j \in 0..(Len(s) - i) /\ i + j \in 1..Len(s)  BY <1>1, <3>1, <3>4
      <4>2. Follows(fr, s, i, j) /\ t[i + j] = s[i + j]
        BY <1>5, <3>1, <4>1 DEF Contiguous
      <4> QED BY <3>1, <3>3, <4>2 DEF Follows
    <3>5. CASE i + j > Len(s)
      <4> DEFINE j0 == Len(s) - i
                 k  == i + j - Len(s)
      <4>1. /\ j0 \in 0..(Len(s) - i) /\ i + j0 = Len(s)
            /\ k \in 1..m /\ j = j0 + k /\ i + j = Len(s) + k
        <5>1. i \in Nat /\ j \in Nat /\ i <= Len(s) /\ i + j <= Len(s) + m
          BY <1>1, <1>l, <3>1
        <5> QED BY <1>1, <3>5, <5>1
      <4>2. Follows(fr, s, i, j0)  BY <3>1, <4>1 DEF Contiguous
      <4>3. s[i + j0] = <<F, FrameEnd(fr, F)>>  BY <3>1, <4>1 DEF F, Complete
      <4>4. t[i + j] = <<G, k>>  BY <1>5, <4>1
      <4> HIDE DEF j0, k
      <4> DEFINE a == s[i][2]
                 z == FrameEnd(fr, s[i][1])
      <4>5. a \in Nat /\ z \in Nat /\ j0 \in Nat /\ k \in Nat /\ k >= 1 /\ j = j0 + k
        <5>1. a \in Nat /\ z \in Nat  BY <3>2, <3>3
        <5>2. j0 \in Nat /\ k \in Nat /\ k >= 1 /\ j = j0 + k  BY <1>1, <4>1
        <5> QED BY <5>1, <5>2
      <4>6. t[i][2] = a /\ t[i][1] = s[i][1] /\ FrameEnd(gr, t[i][1]) = z
        BY <3>1, <3>3
      <4>7. a + j0 <= z => s[i][1] = F /\ a + j0 = FrameEnd(fr, F) /\ z = FrameEnd(fr, F)
        BY <4>2, <4>3 DEF Follows
      <4> HIDE DEF a, z
      <4>8. ~(a + j <= z)
        <5>1. a + j <= z => a + j0 <= z /\ a + j0 # z  BY <4>5
        <5> QED BY <4>7, <5>1
      <4>9. a + j = z + 1 => k = 1 /\ s[i][1] = F
        <5>1. a + j = z + 1 => a + j0 <= z /\ (a + j0 = z => k = 1)  BY <4>5
        <5> QED BY <4>7, <5>1
      <4>10. a + j = z + 1 => t[i + j] = <<t[i][1] + 1, 1>>
        BY <4>4, <4>6, <4>9 DEF G
      <4> QED BY <4>6, <4>8, <4>10 DEF Follows, a, z
    <3> QED BY <1>1, <3>1, <3>4, <3>5
  <2> QED BY <1>1, <2>1, <2>2
<1>9. Complete(gr, t)  BY <1>3, <1>4, <1>6 DEF Complete
<1>10. Contiguous(gr, t)  BY <1>7, <1>8 DEF Contiguous
<1> QED BY <1>9, <1>10

LEMMA UndispatchedType ==
  ASSUME TypeOK
  PROVE  /\ Undispatched \in Seq(Byte)
         /\ orphans = <<>> => Undispatched = hand \o wire
         /\ hand = <<>> => Undispatched = orphans \o wire
<1>1. /\ orphans \in Seq(Byte) /\ hand \in Seq(Byte) /\ wire \in Seq(Byte)
  BY DEF TypeOK
<1>2. Undispatched \in Seq(Byte)  BY <1>1, ConcatProperties DEF Undispatched
<1>3. <<>> \o hand = hand /\ orphans \o <<>> = orphans  BY <1>1, ConcatEmptySeq
<1> QED BY <1>2, <1>3 DEF Undispatched

\* The server puts a frame at the end of the undispatched bytes ...
LEMMA SendAppends ==
  ASSUME TypeOK, NEW c \in Conn, NEW n \in FrameSizes, ServerSend(c, n)
  PROVE  Undispatched' = Undispatched \o FrameBytes(Len(frames) + 1, n)
<1> DEFINE s == Undispatched
<1>a. /\ s \in Seq(Byte)
      /\ orphans \in Seq(Byte) /\ hand \in Seq(Byte) /\ wire \in Seq(Byte)
  BY UndispatchedType DEF TypeOK
<1>1. /\ wire' = wire \o FrameBytes(Len(frames) + 1, n)
      /\ orphans' = orphans /\ hand' = hand
  BY DEF ServerSend, bundleVars
<1>2. s' = s \o FrameBytes(Len(frames) + 1, n)
  <2> DEFINE e == FrameBytes(Len(frames) + 1, n)
             T == (1..(Len(frames) + 1)) \X (Nat \ {0})
  <2>1. Len(frames) + 1 \in Nat /\ n \in Nat
    BY SizesAssumption, LenProperties DEF TypeOK
  <2>2. e \in Seq({Len(frames) + 1} \X (Nat \ {0}))  BY <2>1, FrameBytesType
  <2>3. {Len(frames) + 1} \X (Nat \ {0}) \subseteq T /\ Byte \subseteq T
    BY <2>1 DEF Byte, BytesOf
  <2>4. e \in Seq(T) /\ wire \in Seq(T) /\ orphans \in Seq(T) /\ hand \in Seq(T)
    BY <1>a, <2>2, <2>3, SeqMonotonic
  <2> HIDE DEF e, T
  <2> DEFINE p == orphans \o hand
  <2>5. p \in Seq(T)  BY <2>4, ConcatProperties
  <2>6. (p \o wire) \o e = p \o (wire \o e)
    <3> HIDE DEF p
    <3> QED BY <2>4, <2>5, ConcatAssociative, SMTT(30)
  <2> QED BY <1>1, <2>6 DEF Undispatched, e
<1> QED BY <1>2

\* ... loses some of them when it closes ...
LEMMA CloseCuts ==
  ASSUME TypeOK, ServerClose
  PROVE  /\ Undispatched' \in Seq(Byte) /\ Len(Undispatched') <= Len(Undispatched)
         /\ \A i \in 1..Len(Undispatched') : Undispatched'[i] = Undispatched[i]
<1> DEFINE s == Undispatched
<1>a. /\ s \in Seq(Byte)
      /\ orphans \in Seq(Byte) /\ hand \in Seq(Byte) /\ wire \in Seq(Byte)
  BY UndispatchedType DEF TypeOK
<1>1. PICK k \in 0..Len(wire) : wire' = SubSeq(wire, 1, k)
  BY DEF ServerClose
<1>2. UNCHANGED <<frames, orphans, hand>> /\ closed'
  BY DEF ServerClose, bundleVars
<1> DEFINE p == orphans \o hand
<1>3. p \in Seq(Byte) /\ wire' \in Seq(Byte) /\ Len(wire') = k
      /\ \A i \in 1..k : wire'[i] = wire[i]
  <2>1. p \in Seq(Byte)  BY <1>a, ConcatProperties
  <2>2. Len(wire) \in Nat  BY <1>a, LenProperties
  <2> QED BY <1>a, <1>1, <2>1, <2>2, PieceType
<1> HIDE DEF p
<1>4. /\ Len(s) = Len(p) + Len(wire)
      /\ \A i \in 1..(Len(p) + Len(wire)) :
           s[i] = IF i <= Len(p) THEN p[i] ELSE wire[i - Len(p)]
  BY <1>a, <1>3, ConcatProperties DEF Undispatched, p
<1>5. /\ s' \in Seq(Byte) /\ Len(s') = Len(p) + k
      /\ \A i \in 1..(Len(p) + k) :
           s'[i] = IF i <= Len(p) THEN p[i] ELSE wire'[i - Len(p)]
  <2>1. s' = p \o wire'  BY <1>2 DEF Undispatched, p
  <2>2. /\ p \o wire' \in Seq(Byte)
        /\ Len(p \o wire') = Len(p) + Len(wire')
        /\ \A i \in 1..(Len(p) + Len(wire')) :
             (p \o wire')[i] = IF i <= Len(p) THEN p[i] ELSE wire'[i - Len(p)]
    BY <1>3, ConcatProperties
  <2> HIDE DEF s
  <2> QED BY <1>3, <2>1, <2>2
<1>6. Len(p) \in Nat /\ Len(wire) \in Nat /\ k \in Nat /\ k <= Len(wire)
  BY <1>a, <1>3, LenProperties
<1>7. Len(s') <= Len(s) /\ \A i \in 1..Len(s') : s'[i] = s[i]
  <2> HIDE DEF s
  <2>1. Len(s') <= Len(s)  BY <1>4, <1>5, <1>6
  <2>2. ASSUME NEW i \in 1..Len(s') PROVE s'[i] = s[i]
    <3>1. i \in 1..(Len(p) + k) /\ i \in 1..(Len(p) + Len(wire))
      BY <1>5, <1>6
    <3>2. /\ s'[i] = IF i <= Len(p) THEN p[i] ELSE wire'[i - Len(p)]
          /\ s[i] = IF i <= Len(p) THEN p[i] ELSE wire[i - Len(p)]
      BY <1>4, <1>5, <3>1, Zenon
    <3>3. ~(i <= Len(p)) => i - Len(p) \in 1..k  BY <1>6, <3>1
    <3>4. ~(i <= Len(p)) => wire'[i - Len(p)] = wire[i - Len(p)]
      BY <1>3, <3>3, Zenon
    <3> QED BY <3>2, <3>4
  <2> QED BY <2>1, <2>2
<1> QED BY <1>5, <1>7

\* ... and process_data takes a whole frame off the front.
LEMMA DispatchDrops ==
  ASSUME TypeOK, SharingInv, NEW c \in Conn, DispatchFrame(c)
  PROVE  LET s == Undispatched
             n == FrameEnd(frames, s[1][1])
         IN /\ s # <<>> /\ n = HeadEnd(hand) /\ n <= Len(hand) /\ n <= Len(s)
            /\ \A i \in 1..Len(hand) : s[i] = hand[i]
            /\ s' \in Seq(Byte) /\ Len(s') = Len(s) - n
            /\ \A i \in 1..Len(s') : s'[i] = s[n + i]
            /\ s' # <<>> => s'[Len(s')] = s[Len(s)]
<1> DEFINE s == Undispatched
<1>a. /\ s \in Seq(Byte)
      /\ orphans \in Seq(Byte) /\ hand \in Seq(Byte) /\ wire \in Seq(Byte)
  BY UndispatchedType DEF TypeOK
<1> DEFINE n == HeadEnd(hand)
           t == SubSeq(hand, n + 1, Len(hand))
<1>1. UNCHANGED <<frames, closed, orphans, wire>> /\ hand' = t
  BY DEF DispatchFrame, netVars
<1>2. HandInUse  BY DEF DispatchFrame, Goto, HandInUse
<1>3. orphans = <<>>  BY <1>2 DEF SharingInv, OneBuffer
<1>4. hand # <<>> /\ n \in HdrSize..Len(hand) /\ Len(hand) \in Nat
  BY <1>a, WholeFrame, LenProperties DEF DispatchFrame
<1>5. n \in Nat /\ n <= Len(hand) /\ Len(hand) >= 1 /\ Len(wire) \in Nat
  BY <1>a, <1>4, LenProperties DEF HdrSize
<1>6. t \in Seq(Byte) /\ Len(t) = Len(hand) - n
      /\ \A i \in 1..Len(t) : t[i] = hand[n + i]
  <2> HIDE DEF n
  <2>1. n + 1 \in Nat \ {0} /\ Len(hand) \in 0..Len(hand)  BY <1>5
  <2> QED BY <1>a, <1>5, <2>1, PieceType, SMTT(30)
<1>7. /\ s \in Seq(Byte) /\ Len(s) = Len(hand) + Len(wire)
      /\ \A i \in 1..(Len(hand) + Len(wire)) :
           s[i] = IF i <= Len(hand) THEN hand[i] ELSE wire[i - Len(hand)]
  BY <1>a, <1>3, UndispatchedType, ConcatProperties
<1>8. /\ s' \in Seq(Byte) /\ Len(s') = Len(t) + Len(wire)
      /\ \A i \in 1..(Len(t) + Len(wire)) :
           s'[i] = IF i <= Len(t) THEN t[i] ELSE wire[i - Len(t)]
  <2>1. s' = t \o wire
    BY <1>1, <1>3, <1>6, ConcatEmptySeq DEF Undispatched
  <2> QED BY <1>a, <1>6, <2>1, ConcatProperties
<1>9. n = FrameEnd(frames, s[1][1]) /\ s # <<>>
  <2>1. s[1] = hand[1] /\ s # <<>>  BY <1>5, <1>7, EmptySeq
  <2> QED BY <2>1 DEF HeadEnd, HeadSize, FrameEnd
<1> HIDE DEF n, t
<1>10. n <= Len(s) /\ Len(s') = Len(s) - n
       /\ \A i \in 1..Len(s') : s'[i] = s[n + i]
  <2> HIDE DEF s
  <2>1. n <= Len(s) /\ Len(s') = Len(s) - n  BY <1>5, <1>6, <1>7, <1>8
  <2>2. ASSUME NEW i \in 1..Len(s') PROVE s'[i] = s[n + i]
    <3>1. i \in 1..(Len(t) + Len(wire)) /\ n + i \in 1..(Len(hand) + Len(wire))
      BY <1>5, <1>6, <1>8
    <3>2. CASE i <= Len(t)
      <4>1. i \in 1..Len(t) /\ n + i <= Len(hand)  BY <1>5, <1>6, <3>1, <3>2
      <4> QED BY <1>6, <1>7, <1>8, <3>1, <4>1
    <3>3. CASE ~(i <= Len(t))
      <4>1. ~(n + i <= Len(hand)) /\ i - Len(t) = (n + i) - Len(hand)
        BY <1>5, <1>6, <3>1, <3>3
      <4> QED BY <1>7, <1>8, <3>1, <3>3, <4>1
    <3> QED BY <3>2, <3>3
  <2> QED BY <2>1, <2>2
<1> HIDE DEF s
<1>11. s' # <<>> => s'[Len(s')] = s[Len(s)]
  <2> SUFFICES ASSUME s' # <<>> PROVE s'[Len(s')] = s[Len(s)]
    OBVIOUS
  <2>1. Len(s') \in Nat \ {0}  BY <1>8, EmptySeq
  <2> QED BY <1>5, <1>7, <1>10, <2>1
<1>12. \A i \in 1..Len(hand) : s[i] = hand[i]  BY <1>5, <1>7
<1> QED BY <1>5, <1>8, <1>9, <1>10, <1>11, <1>12 DEF n, s

\* Nothing else changes them: moving bytes from the network into the buffer, or
\* the buffer between hand, orphan and spare, leaves them as they are.
LEMMA OthersKeep ==
  ASSUME TypeOK, SharingInv, [Next]_vars, ~ServerClose,
         \A c \in Conn : ~DispatchFrame(c) /\ \A n \in FrameSizes : ~ServerSend(c, n)
  PROVE  UNCHANGED <<Undispatched, frames, closed>>
<1> DEFINE s == Undispatched
           Kept == s' = s /\ UNCHANGED <<frames, closed>>
<1>a. /\ s \in Seq(Byte)
      /\ orphans \in Seq(Byte) /\ hand \in Seq(Byte) /\ wire \in Seq(Byte)
  BY UndispatchedType DEF TypeOK
\* Steps that do not touch the bytes.
<1>1. ASSUME NEW c \in Conn, Interrupt(c) \/ ClearInterrupt(c) PROVE Kept
  BY <1>1 DEF Interrupt, ClearInterrupt, LowerFlag, netVars, bundleVars, Undispatched
<1>2. ASSUME NEW c \in Conn, NEW n \in Requests, Call(c, n) PROVE Kept
  BY <1>2 DEF Call, netVars, bundleVars, Undispatched
<1>3. ASSUME NEW c \in Conn,
             \/ LoopTest(c) \/ ThrowInterrupted(c) \/ LookAtQueue(c)
             \/ LockAborted(c) \/ PopChunk(c) \/ PopOversized(c) \/ Unlock(c)
      PROVE  Kept
  <2>1. UNCHANGED <<frames, closed, wire, orphans, hand>>
    BY <1>3 DEF LoopTest, ThrowInterrupted, LookAtQueue, LockAborted, PopChunk,
       PopOversized, Unlock, netVars, bundleVars
  <2> QED BY <2>1 DEF Undispatched
\* Steps that move them.
<1>4. ASSUME NEW c \in Conn, LockAcquired(c) PROVE Kept
  <2>1. ~HandInUse
    BY <1>4, NoConnAssumption
       DEF LockAcquired, SharingInv, LockInv, HandInUse, Holding
  <2>2. hand = <<>>  BY <2>1 DEF SharingInv, OneBuffer
  <2>3. hand' = orphans /\ orphans' = <<>> /\ UNCHANGED <<wire, frames, closed>>
    BY <1>4 DEF LockAcquired, netVars
  <2>4. s' = hand' \o wire'
    BY <1>a, <2>3, ConcatEmptySeq DEF Undispatched
  <2> QED BY <2>2, <2>3, <2>4, UndispatchedType
<1>5. ASSUME NEW c \in Conn, DrainTimeout(c) \/ DrainClosed(c) \/ KeepOrphan(c)
      PROVE  Kept
  <2>1. HandInUse
    BY <1>5 DEF DrainTimeout, DrainClosed, KeepOrphan, Goto, HandInUse
  <2>2. orphans = <<>>  BY <2>1 DEF SharingInv, OneBuffer
  <2>3. orphans' = hand /\ hand' = <<>> /\ UNCHANGED <<wire, frames, closed>>
    BY <1>5 DEF DrainTimeout, DrainClosed, KeepOrphan, ReturnBuffer, netVars
  <2>4. s' = orphans' \o wire'
    BY <1>a, <2>3, ConcatEmptySeq DEF Undispatched
  <2> QED BY <2>2, <2>3, <2>4, UndispatchedType
<1>6. ASSUME NEW c \in Conn, Drain(c) PROVE Kept
  <2>1. PICK n \in 1..Len(wire) :
           /\ hand' = hand \o SubSeq(wire, 1, n)
           /\ wire' = SubSeq(wire, n + 1, Len(wire))
    BY <1>6 DEF Drain
  <2>2. UNCHANGED <<frames, closed, orphans>>  BY <1>6 DEF Drain
  <2>3. Len(wire) \in Nat  BY <1>a, LenProperties
  <2>4. /\ SubSeq(wire, 1, n) \in Seq(Byte)
        /\ SubSeq(wire, n + 1, Len(wire)) \in Seq(Byte)
    <3>1. SubSeq(wire, 1, n) \in Seq(Byte)  BY <1>a, <2>3, PieceType
    <3>2. n + 1 \in Nat \ {0} /\ Len(wire) \in 0..Len(wire)  BY <2>3
    <3> QED BY <1>a, <3>1, <3>2, PieceType
  <2>5. SubSeq(wire, 1, n) \o SubSeq(wire, n + 1, Len(wire)) = wire
    <3>1. /\ 1 \in 1..(Len(wire) + 1) /\ n \in (1 - 1)..Len(wire)
          /\ Len(wire) \in n..Len(wire)
      BY <2>3
    <3>2. SubSeq(wire, 1, n) \o SubSeq(wire, n + 1, Len(wire))
            = SubSeq(wire, 1, Len(wire))
      BY <1>a, <3>1, ConcatAdjacentSubSeq
    <3> QED BY <1>a, <3>2, SubSeqFull
  <2>6. HandInUse  BY <1>6 DEF Drain, Goto, HandInUse
  <2>7. orphans = <<>>  BY <2>6 DEF SharingInv, OneBuffer
  <2>8. (hand \o SubSeq(wire, 1, n)) \o SubSeq(wire, n + 1, Len(wire)) = hand \o wire
    <3>1. PICK w1, w2 : w1 = SubSeq(wire, 1, n) /\ w2 = SubSeq(wire, n + 1, Len(wire))
      OBVIOUS
    <3>2. hand \in Seq(Byte) /\ w1 \in Seq(Byte) /\ w2 \in Seq(Byte) /\ w1 \o w2 = wire
      <4>1. hand \in Seq(Byte)  BY <1>a
      <4> QED BY <2>4, <2>5, <3>1, <4>1
    <3>3. hand \in Seq(Byte) /\ w1 \in Seq(Byte) /\ w2 \in Seq(Byte)  BY <3>2
    <3>4. (hand \o w1) \o w2 = hand \o wire
      <4>1. (hand \o w1) \o w2 = hand \o (w1 \o w2)  BY ONLY <3>3, ConcatAssociative, SMTT(30)
      <4> QED BY <3>2, <4>1, Zenon
    <3> QED BY <3>1, <3>4, Zenon
  <2>9. s' = hand' \o wire'
    <3>1. hand' \in Seq(Byte)  BY <1>a, <2>1, <2>4, ConcatProperties
    <3>2. <<>> \o hand' = hand'  BY <3>1, ConcatEmptySeq
    <3> QED BY <2>2, <2>7, <3>2 DEF Undispatched
  <2> QED BY <2>1, <2>2, <2>7, <2>8, <2>9, UndispatchedType
<1>7. CASE UNCHANGED vars
  BY <1>7 DEF vars, netVars, bundleVars, Undispatched
<1> QED BY <1>1, <1>2, <1>3, <1>4, <1>5, <1>6, <1>7 DEF Next, Server, Users, Step

LEMMA AlignedStep ==
  TypeOK /\ SharingInv /\ FrameAligned /\ [Next]_vars => FrameAligned'
<1> SUFFICES ASSUME TypeOK, SharingInv, FrameAligned, [Next]_vars
             PROVE  FrameAligned'
  OBVIOUS
<1>0. TypeOK'  BY TypeStep
<1> DEFINE s == Undispatched
<1>a. frames \in Frames /\ s \in Seq(Byte) /\ frames' \in Frames
  BY <1>0, UndispatchedType DEF TypeOK, Frames
<1>b. Contiguous(frames, s) /\ (~closed => Complete(frames, s))  BY DEF FrameAligned
<1>1. ASSUME NEW c \in Conn, NEW n \in FrameSizes, ServerSend(c, n)
      PROVE  FrameAligned'
  <2>1. frames' = Append(frames, [id |-> c, size |-> n]) /\ ~closed
    BY <1>1 DEF ServerSend
  <2>2. s' = s \o FrameBytes(Len(frames) + 1, n)  BY <1>1, SendAppends
  <2> HIDE DEF s
  <2>3. Contiguous(frames', s') /\ Complete(frames', s')
    BY <1>a, <1>b, <2>1, <2>2, ContiguousAppend DEF Byte
  <2> QED BY <2>3 DEF FrameAligned, s
<1>2. CASE ServerClose
  <2>1. closed' /\ frames' = frames  BY <1>2 DEF ServerClose
  <2>2. /\ s' \in Seq(Byte) /\ Len(s') <= Len(s)
        /\ \A i \in 1..Len(s') : s'[i] = s[i]
    BY <1>2, CloseCuts
  <2> HIDE DEF s
  <2>3. Contiguous(frames, s')  BY <1>a, <1>b, <2>2, ContiguousPrefix DEF Byte
  <2> QED BY <2>1, <2>3 DEF FrameAligned, s
<1>3. ASSUME NEW c \in Conn, DispatchFrame(c) PROVE FrameAligned'
  <2>1. UNCHANGED <<frames, closed>>  BY <1>3 DEF DispatchFrame, netVars
  <2> DEFINE n == FrameEnd(frames, s[1][1])
  <2>2. /\ s # <<>> /\ n <= Len(s)
        /\ s' \in Seq(Byte) /\ Len(s') = Len(s) - n
        /\ \A i \in 1..Len(s') : s'[i] = s[n + i]
        /\ s' # <<>> => s'[Len(s')] = s[Len(s)]
    BY <1>3, DispatchDrops
  <2> HIDE DEF s
  <2>3. Contiguous(frames, s')  BY <1>a, <1>b, <2>2, ContiguousDrop DEF Byte
  <2>4. ~closed => Complete(frames, s')  BY <1>b, <2>2 DEF Complete
  <2> QED BY <2>1, <2>3, <2>4 DEF FrameAligned, s
<1>4. CASE /\ ~ServerClose
           /\ \A c \in Conn : ~DispatchFrame(c) /\ \A n \in FrameSizes : ~ServerSend(c, n)
  <2>1. s' = s /\ UNCHANGED <<frames, closed>>  BY <1>4, OthersKeep
  <2> QED BY <1>b, <2>1 DEF FrameAligned
<1> QED BY <1>1, <1>2, <1>3, <1>4

\* process_data always reads headers where the server wrote headers, however
\* the stream was cut, orphaned and passed from thread to thread.
THEOREM HeadersAligned == Spec => []FrameAligned
<1>1. Init => FrameAligned
  <2> SUFFICES ASSUME Init PROVE FrameAligned
    OBVIOUS
  <2>1. Undispatched = <<>>
    BY ConcatEmptySeq, EmptySeq DEF Init, Undispatched
  <2> QED BY <2>1, EmptySeq DEF FrameAligned, Contiguous, Complete
<1>2. TypeOK /\ SharingInv /\ FrameAligned /\ [Next]_vars => FrameAligned'
  BY AlignedStep
<1> QED BY <1>1, <1>2, TypeCorrect, Sharing, PTL DEF Spec

----------------------------------------------------------------------------
(* What a caller gets is what was sent to it.                              *)

\* st[f] bytes were sent to c in the frames before f, and where the payload of
\* a frame for c is among the bytes s that were sent to c.
Numbered(c, st, fr, s) ==
  /\ st[Len(fr) + 1] = Len(s)
  /\ \A f \in 1..(Len(fr) + 1) : st[f] <= Len(s)
  /\ \A f \in 1..Len(fr) :
       /\ st[f + 1] = IF fr[f].id = c THEN st[f] + fr[f].size ELSE st[f]
       /\ fr[f].id = c => \A k \in 1..fr[f].size : s[st[f] + k] = <<f, HdrSize + k>>

\* The chunks q, one after the other, are the bytes of s after the a-th up to
\* the n-th; chunk i begins after byte pos[i].
LaidOut(pos, q, s, a, n) ==
  /\ pos[1] = a /\ pos[Len(q) + 1] = n
  /\ \A i \in 1..Len(q) :
       /\ pos[i + 1] = pos[i] + Len(q[i]) /\ pos[i + 1] <= n
       /\ \A k \in 1..Len(q[i]) : q[i][k] = s[pos[i] + k]
Laid(q, s, a, n) == \E pos \in [1..(Len(q) + 1) -> Nat] : LaidOut(pos, q, s, a, n)

\* f is the first frame that was not dispatched and can still arrive.
Awaited(f) ==
  /\ Undispatched # <<>> => Undispatched[1][1] = f
  /\ Undispatched = <<>> /\ ~closed => f = Len(frames) + 1

\* Of what was sent to c, c has taken a part, the next is in its queue, and the
\* rest begins with the payload of the first undispatched frame for it.
StreamOf(c, f) == \E st \in [1..(Len(frames) + 1) -> Nat] :
  /\ Numbered(c, st, frames, sent[c])
  /\ pc[c] # "dead" => Laid(queue[c], sent[c], Len(got[c]), st[f])
StreamInv == \E f \in 1..(Len(frames) + 1) : Awaited(f) /\ \A c \in Conn : StreamOf(c, f)

\* A chunk is put at the end of a queue,
LEMMA LaidAppend ==
  ASSUME NEW S, NEW q \in Seq(Seq(S)), NEW s, NEW a, NEW n \in Nat, Laid(q, s, a, n),
         NEW e \in Seq(S), \A k \in 1..Len(e) : e[k] = s[n + k]
  PROVE  Laid(Append(q, e), s, a, n + Len(e))
<1> DEFINE r == Append(q, e)
           m == n + Len(e)
<1>1. PICK pos \in [1..(Len(q) + 1) -> Nat] : LaidOut(pos, q, s, a, n)  BY DEF Laid
<1>2. /\ Len(q) \in Nat /\ Len(e) \in Nat /\ Len(r) = Len(q) + 1
      /\ \A i \in 1..Len(q) : r[i] = q[i]
      /\ r[Len(q) + 1] = e
  BY LenProperties
<1> HIDE DEF r
<1> DEFINE new == [i \in 1..(Len(r) + 1) |-> IF i = Len(r) + 1 THEN m ELSE pos[i]]
<1>3. new \in [1..(Len(r) + 1) -> Nat]  BY <1>2
<1>4. new[1] = a /\ new[Len(r) + 1] = m  BY <1>1, <1>2 DEF LaidOut
<1>5. ASSUME NEW i \in 1..Len(r)
      PROVE  /\ new[i + 1] = new[i] + Len(r[i]) /\ new[i + 1] <= m
             /\ \A k \in 1..Len(r[i]) : r[i][k] = s[new[i] + k]
  <2>1. CASE i = Len(q) + 1
    <3>1. new[i] = n /\ new[i + 1] = m /\ r[i] = e  BY <1>1, <1>2, <2>1 DEF LaidOut
    <3> QED BY <1>2, <3>1
  <2>2. CASE i # Len(q) + 1
    <3>1. i \in 1..Len(q) /\ r[i] = q[i]  BY <1>2, <2>2
    <3>2. new[i] = pos[i] /\ new[i + 1] = pos[i + 1]  BY <1>2, <3>1
    <3>3. /\ pos[i + 1] = pos[i] + Len(q[i]) /\ pos[i + 1] <= n
          /\ \A k \in 1..Len(q[i]) : q[i][k] = s[pos[i] + k]
      <4> HIDE DEF new, m
      <4> QED BY <1>1, <3>1, Zenon DEF LaidOut
    <3>4. new[i + 1] <= m
      <4>0. i + 1 \in 1..(Len(q) + 1)  BY <1>2, <3>1
      <4>1. pos[i + 1] \in Nat  BY <4>0
      <4>2. \A x \in Nat : x <= n => x <= m  BY <1>2
      <4> QED BY <3>2, <3>3, <4>1, <4>2
    <3> HIDE DEF new
    <3>5. new[i + 1] = new[i] + Len(r[i])  BY <3>1, <3>2, <3>3
    <3>6. \A k \in 1..Len(r[i]) : r[i][k] = s[new[i] + k]
      <4>1. PICK x, p : x = q[i] /\ p = pos[i]  OBVIOUS
      <4>2. \A k \in 1..Len(x) : x[k] = s[p + k]  BY <3>3, <4>1
      <4>3. r[i] = x /\ new[i] = p  BY <3>1, <3>2, <4>1
      <4> QED BY <4>2, <4>3
    <3> QED BY <3>4, <3>5, <3>6
  <2> QED BY <2>1, <2>2
<1> HIDE DEF new, m
<1>6. LaidOut(new, r, s, a, m)  BY <1>4, <1>5 DEF LaidOut
<1> QED BY <1>3, <1>6 DEF Laid, r, m

\* more is sent,
LEMMA LaidLonger ==
  ASSUME NEW S, NEW q \in Seq(Seq(S)), NEW s \in Seq(S), NEW t, NEW a, NEW n \in 0..Len(s),
         Laid(q, s, a, n), \A i \in 1..Len(s) : t[i] = s[i]
  PROVE  Laid(q, t, a, n)
<1>1. PICK pos \in [1..(Len(q) + 1) -> Nat] : LaidOut(pos, q, s, a, n)  BY DEF Laid
<1>2. Len(q) \in Nat /\ Len(s) \in Nat  BY LenProperties
<1>3. ASSUME NEW i \in 1..Len(q), NEW k \in 1..Len(q[i]) PROVE q[i][k] = t[pos[i] + k]
  <2>1. q[i] \in Seq(S)  BY ElementOfSeq
  <2>2. Len(q[i]) \in Nat /\ pos[i] \in Nat  BY <1>2, <2>1, LenProperties
  <2>3. /\ pos[i + 1] = pos[i] + Len(q[i]) /\ pos[i + 1] <= n
        /\ q[i][k] = s[pos[i] + k]
    BY <1>1 DEF LaidOut
  <2>4. pos[i] + k \in 1..Len(s)
    <3>1. PICK x, y, z : x = pos[i] /\ y = Len(q[i]) /\ z = Len(s)  OBVIOUS
    <3>2. x \in Nat /\ y \in Nat /\ z \in Nat /\ n \in 0..z /\ k \in 1..y /\ x + y <= n
      BY <1>2, <2>2, <2>3, <3>1
    <3>3. x + k \in 1..z  BY ONLY <3>2
    <3> QED BY <3>1, <3>3
  <2> QED BY <2>3, <2>4
<1>4. LaidOut(pos, q, t, a, n)  BY <1>1, <1>3 DEF LaidOut
<1> QED BY <1>4 DEF Laid

\* a receive takes the first bytes of the first chunk and puts the rest back.
LEMMA LaidTake ==
  ASSUME NEW S, NEW q \in Seq(Seq(S)), NEW s, NEW a \in Nat, NEW n, Laid(q, s, a, n),
         q # <<>>, NEW w \in 0..Len(Head(q))
  PROVE  /\ a + Len(Head(q)) <= n
         /\ \A k \in 1..Len(Head(q)) : Head(q)[k] = s[a + k]
         /\ Laid(PutBack(SubSeq(Head(q), w + 1, Len(Head(q))), Tail(q)), s, a + w, n)
<1>1. PICK pos \in [1..(Len(q) + 1) -> Nat] : LaidOut(pos, q, s, a, n)  BY DEF Laid
<1>2. PICK h, rest : h = Head(q) /\ rest = SubSeq(h, w + 1, Len(h))  OBVIOUS
<1>3. /\ Len(q) \in Nat /\ Len(q) >= 1 /\ h = q[1] /\ h \in Seq(S) /\ Len(h) \in Nat
      /\ Tail(q) \in Seq(Seq(S)) /\ Len(Tail(q)) = Len(q) - 1
      /\ \A i \in 1..Len(Tail(q)) : Tail(q)[i] = q[i + 1]
  BY <1>2, HeadTailProperties, LenProperties, EmptySeq
<1>4. /\ pos[1] = a /\ pos[2] = a + Len(h) /\ pos[2] <= n /\ pos[Len(q) + 1] = n
      /\ \A k \in 1..Len(h) : h[k] = s[a + k]
  BY <1>1, <1>3 DEF LaidOut
<1>5. /\ rest \in Seq(S) /\ Len(rest) = Len(h) - w
      /\ \A k \in 1..Len(rest) : rest[k] = h[w + k]
  <2>1. w \in Nat /\ w <= Len(h) /\ w + 1 \in Nat \ {0} /\ Len(h) \in 0..Len(h)
    BY <1>2, <1>3
  <2> QED BY <1>2, <1>3, <2>1, PieceType, SMTT(30)
<1>6. CASE rest = <<>>
  <2> DEFINE r == Tail(q)
             new == [i \in 1..(Len(r) + 1) |-> pos[i + 1]]
  <2>1. w = Len(h)
    <3>1. Len(rest) = 0  BY <1>6
    <3>2. w \in 0..Len(h)  BY <1>2
    <3> QED BY <1>3, <1>5, <3>1, <3>2
  <2>2. new \in [1..(Len(r) + 1) -> Nat]  BY <1>3
  <2>3. new[1] = a + w /\ new[Len(r) + 1] = n  BY <1>3, <1>4, <2>1
  <2>4. ASSUME NEW i \in 1..Len(r)
        PROVE  /\ new[i + 1] = new[i] + Len(r[i]) /\ new[i + 1] <= n
               /\ \A k \in 1..Len(r[i]) : r[i][k] = s[new[i] + k]
    <3>1. PICK j, x, p, p2 :
             j \in 1..Len(q) /\ j = i + 1 /\ x = q[j] /\ p = pos[j] /\ p2 = pos[j + 1]
      BY <1>3
    <3>2. p2 = p + Len(x) /\ p2 <= n /\ \A k \in 1..Len(x) : x[k] = s[p + k]
      BY <1>1, <3>1 DEF LaidOut
    <3>3. r[i] = x /\ new[i] = p /\ new[i + 1] = p2  BY <1>3, <3>1
    <3> QED BY <3>2, <3>3
  <2> HIDE DEF new, r
  <2>5. LaidOut(new, r, s, a + w, n)  BY <2>3, <2>4 DEF LaidOut
  <2>6. Laid(Tail(q), s, a + w, n)  BY <2>2, <2>5 DEF Laid, r
  <2> QED BY <1>2, <1>4, <1>6, <2>6 DEF PutBack
<1>7. CASE rest # <<>>
  <2>1. PICK r : r = <<rest>> \o Tail(q)  OBVIOUS
  <2>2. /\ Len(r) = Len(q) /\ r[1] = rest
        /\ \A i \in 1..Len(q) : i # 1 => r[i] = q[i]
    <3>1. <<rest>> \in Seq(Seq(S)) /\ Len(<<rest>>) = 1 /\ <<rest>>[1] = rest  BY <1>5
    <3>2. /\ Len(r) = Len(<<rest>>) + Len(Tail(q))
          /\ \A i \in 1..(Len(<<rest>>) + Len(Tail(q))) :
               r[i] = IF i <= Len(<<rest>>) THEN <<rest>>[i] ELSE Tail(q)[i - Len(<<rest>>)]
      BY <1>3, <2>1, <3>1, ConcatProperties
    <3>3. Len(r) = Len(q) /\ r[1] = rest  BY <1>3, <3>1, <3>2
    <3>4. ASSUME NEW i \in 1..Len(q), i # 1 PROVE r[i] = q[i]
      <4>1. i - 1 \in 1..Len(Tail(q)) /\ (i - 1) + 1 = i  BY <1>3, <3>4
      <4>2. r[i] = Tail(q)[i - 1]  BY <1>3, <3>1, <3>2, <3>4
      <4> QED BY <1>3, <4>1, <4>2
    <3> QED BY <3>3, <3>4
  <2> DEFINE new == [i \in 1..(Len(r) + 1) |-> IF i = 1 THEN a + w ELSE pos[i]]
  <2>3. new \in [1..(Len(r) + 1) -> Nat]  BY <1>2, <1>3, <2>2
  <2>4. new[1] = a + w /\ new[Len(r) + 1] = n  BY <1>3, <1>4, <2>2
  <2>5. ASSUME NEW i \in 1..Len(r)
        PROVE  /\ new[i + 1] = new[i] + Len(r[i]) /\ new[i + 1] <= n
               /\ \A k \in 1..Len(r[i]) : r[i][k] = s[new[i] + k]
    <3>1. CASE i = 1
      <4>1. r[i] = rest /\ new[i] = a + w /\ new[i + 1] = a + Len(h)
        BY <1>3, <1>4, <2>2, <3>1
      <4>2. w \in Nat /\ w <= Len(h) /\ a + Len(h) <= n  BY <1>2, <1>3, <1>4
      <4>3. ASSUME NEW k \in 1..Len(rest) PROVE rest[k] = s[(a + w) + k]
        <5>1. w + k \in 1..Len(h) /\ (a + w) + k = a + (w + k)  BY <1>3, <1>5, <4>2
        <5> QED BY <1>4, <1>5, <5>1
      <4>4. (a + w) + Len(rest) = a + Len(h)  BY <1>3, <1>5, <4>2
      <4> HIDE DEF new
      <4> QED BY <4>1, <4>2, <4>3, <4>4
    <3>2. CASE i # 1
      <4>1. PICK x, p, p2 : x = q[i] /\ p = pos[i] /\ p2 = pos[i + 1]  OBVIOUS
      <4>2. p2 = p + Len(x) /\ p2 <= n /\ \A k \in 1..Len(x) : x[k] = s[p + k]
        BY <1>1, <2>2, <4>1 DEF LaidOut
      <4>3. r[i] = x /\ new[i] = p /\ new[i + 1] = p2  BY <1>3, <2>2, <3>2, <4>1
      <4> HIDE DEF new
      <4> QED BY <4>2, <4>3
    <3> QED BY <3>1, <3>2
  <2> HIDE DEF new
  <2>6. LaidOut(new, r, s, a + w, n)  BY <2>4, <2>5 DEF LaidOut
  <2>7. Laid(r, s, a + w, n)  BY <2>3, <2>6 DEF Laid
  <2> QED BY <1>2, <1>4, <1>7, <2>1, <2>7 DEF PutBack
<1> QED BY <1>6, <1>7

\* A frame for c lengthens what is sent to c, and no other.
Lengthens(c, st, fr, gr, s, t) ==
  /\ Len(s) <= Len(t) /\ \A i \in 1..Len(s) : t[i] = s[i]
  /\ \E new \in [1..(Len(gr) + 1) -> Nat] :
       /\ Numbered(c, new, gr, t)
       /\ \A f \in 1..(Len(fr) + 1) : new[f] = st[f]

LEMMA NumberedAppend ==
  ASSUME NEW c \in Conn, NEW d \in Conn, NEW n \in FrameSizes, NEW fr \in Frames,
         NEW s \in Seq(BytesOf(fr)),
         NEW st \in [1..(Len(fr) + 1) -> Nat], Numbered(c, st, fr, s),
         NEW t, t = IF d = c THEN s \o Payload(FrameBytes(Len(fr) + 1, n)) ELSE s,
         NEW gr, gr = Append(fr, [id |-> d, size |-> n])
  PROVE  Lengthens(c, st, fr, gr, s, t)
<1>1. PICK F, p : F = Len(fr) /\ p = Payload(FrameBytes(F + 1, n))  OBVIOUS
<1>2. F \in Nat /\ n \in Nat /\ Len(s) \in Nat
  BY <1>1, SizesAssumption, LenProperties DEF Frames
<1>3. /\ p \in Seq({F + 1} \X (Nat \ {0})) /\ Len(p) = n
      /\ \A k \in 1..n : p[k] = <<F + 1, HdrSize + k>>
  <2>1. PICK f \in Nat : f = F + 1  BY <1>2
  <2>2. p = Payload(FrameBytes(f, n))  BY <1>1, <2>1
  <2> QED BY <1>2, <2>1, <2>2, PayloadType
<1>4. /\ Len(t) = IF d = c THEN Len(s) + n ELSE Len(s)
      /\ \A i \in 1..Len(s) : t[i] = s[i]
      /\ d = c => \A k \in 1..n : t[Len(s) + k] = <<F + 1, HdrSize + k>>
  <2>1. CASE d # c  BY <2>1
  <2>2. CASE d = c
    <3>1. PICK T : T = (1..(F + 1)) \X (Nat \ {0})  OBVIOUS
    <3>2. BytesOf(fr) \subseteq T /\ {F + 1} \X (Nat \ {0}) \subseteq T
      BY <1>1, <1>2, <3>1 DEF BytesOf
    <3>3. s \in Seq(T) /\ p \in Seq(T)  BY <1>3, <3>2, SeqMonotonic
    <3>4. t = s \o p  BY <1>1, <2>2
    <3>5. /\ Len(t) = Len(s) + Len(p)
          /\ \A i \in 1..(Len(s) + Len(p)) :
               t[i] = IF i <= Len(s) THEN s[i] ELSE p[i - Len(s)]
      BY <3>3, <3>4, ConcatProperties
    <3>6. \A i \in 1..Len(s) : t[i] = s[i]  BY <1>2, <1>3, <3>5
    <3>7. ASSUME NEW k \in 1..n PROVE t[Len(s) + k] = p[k]
      <4>1. PICK i : i = Len(s) + k  OBVIOUS
      <4>2. i \in 1..(Len(s) + Len(p)) /\ ~(i <= Len(s)) /\ i - Len(s) = k
        BY <1>2, <1>3, <4>1
      <4> QED BY <3>5, <4>1, <4>2
    <3> QED BY <1>3, <2>2, <3>5, <3>6, <3>7
  <2> QED BY <2>1, <2>2
<1>5. /\ Len(gr) = F + 1 /\ gr[F + 1] = [id |-> d, size |-> n]
      /\ \A f \in 1..F : gr[f] = fr[f]
  BY <1>1, <1>2 DEF Frames
<1> DEFINE new == [f \in 1..(Len(gr) + 1) |-> IF f = F + 2 THEN Len(t) ELSE st[f]]
<1>6. new \in [1..(Len(gr) + 1) -> Nat]  BY <1>1, <1>2, <1>4, <1>5
<1>7. \A f \in 1..(F + 1) : new[f] = st[f]  BY <1>2, <1>5
<1>8. new[F + 2] = Len(t)  BY <1>2, <1>5
<1> HIDE DEF new
<1>9. st[F + 1] = Len(s) /\ \A f \in 1..(F + 1) : st[f] <= Len(s)
  BY <1>1 DEF Numbered
<1>10. ASSUME NEW f \in 1..(Len(gr) + 1) PROVE new[f] <= Len(t)
  <2>1. CASE f = F + 2  BY <1>2, <1>4, <1>8, <2>1
  <2>2. CASE f # F + 2
    <3>1. f \in 1..(F + 1) /\ st[f] \in Nat  BY <1>1, <1>2, <1>5, <2>2
    <3> QED BY <1>2, <1>4, <1>7, <1>9, <3>1
  <2> QED BY <2>1, <2>2
<1>11. ASSUME NEW f \in 1..Len(gr)
       PROVE  /\ new[f + 1] = IF gr[f].id = c THEN new[f] + gr[f].size ELSE new[f]
              /\ gr[f].id = c =>
                   \A k \in 1..gr[f].size : t[new[f] + k] = <<f, HdrSize + k>>
  <2>1. CASE f = F + 1
    <3>1. new[f] = Len(s) /\ new[f + 1] = Len(t)  BY <1>2, <1>7, <1>8, <1>9, <2>1
    <3>2. gr[f].id = d /\ gr[f].size = n  BY <1>5, <2>1
    <3> QED BY <1>4, <2>1, <3>1, <3>2
  <2>2. CASE f # F + 1
    <3>1. f \in 1..F /\ f + 1 \in 1..(F + 1) /\ gr[f] = fr[f]  BY <1>2, <1>5, <2>2
    <3>2. new[f] = st[f] /\ new[f + 1] = st[f + 1] /\ st[f] \in Nat /\ st[f + 1] <= Len(s)
      BY <1>1, <1>2, <1>7, <1>9, <3>1
    <3>3. /\ st[f + 1] = IF fr[f].id = c THEN st[f] + fr[f].size ELSE st[f]
          /\ fr[f].id = c => \A k \in 1..fr[f].size : s[st[f] + k] = <<f, HdrSize + k>>
      BY <1>1, <3>1 DEF Numbered
    <3>4. fr[f].size \in Nat
      <4>1. fr[f] \in [id : Conn, size : FrameSizes]  BY <1>1, <3>1, ElementOfSeq DEF Frames
      <4> QED BY <4>1, SizesAssumption
    <3>5. ASSUME fr[f].id = c, NEW k \in 1..fr[f].size
          PROVE  t[st[f] + k] = <<f, HdrSize + k>>
      <4>1. PICK x, y, z : x = st[f] /\ y = fr[f].size /\ z = Len(s)  OBVIOUS
      <4>2. x \in Nat /\ y \in Nat /\ z \in Nat /\ k \in 1..y /\ x + y <= z
        BY <1>2, <3>2, <3>3, <3>4, <3>5, <4>1
      <4>3. x + k \in 1..z  BY ONLY <4>2
      <4>4. st[f] + k \in 1..Len(s)  BY <4>1, <4>3
      <4> QED BY <1>4, <3>3, <3>5, <4>4
    <3> QED BY <3>1, <3>2, <3>3, <3>5
  <2> QED BY <2>1, <2>2
<1>12. Numbered(c, new, gr, t)
  <2>1. Len(gr) + 1 = F + 2  BY <1>2, <1>5
  <2> QED BY <1>8, <1>10, <1>11, <2>1 DEF Numbered
<1>13. Len(s) <= Len(t)  BY <1>2, <1>4
<1> QED BY <1>1, <1>4, <1>6, <1>7, <1>12, <1>13 DEF Lengthens

LEMMA StreamInit == Init => StreamInv
<1> SUFFICES ASSUME Init PROVE StreamInv
  OBVIOUS
<1> USE DEF Init
<1>1. Undispatched = <<>>
  BY ConcatEmptySeq, EmptySeq DEF Undispatched
<1>2. 1 \in 1..(Len(frames) + 1) /\ Len(frames) = 0  OBVIOUS
<1>3. Awaited(1)  BY <1>1, <1>2 DEF Awaited
<1>4. ASSUME NEW c \in Conn PROVE StreamOf(c, 1)
  <2>1. PICK z : z = [i \in 1..(0 + 1) |-> 0]  OBVIOUS
  <2>2. z \in [1..(0 + 1) -> Nat] /\ z[1] = 0  BY <2>1
  <2>3. sent[c] = <<>> /\ queue[c] = <<>> /\ got[c] = <<>>  OBVIOUS
  <2>4. Len(<<>>) = 0  OBVIOUS
  <2>5. Numbered(c, z, frames, sent[c])  BY <2>2, <2>3, <2>4 DEF Numbered
  <2>6. LaidOut(z, <<>>, <<>>, 0, 0)  BY <2>2, <2>4 DEF LaidOut
  <2>7. Laid(queue[c], sent[c], Len(got[c]), z[1])  BY <2>2, <2>3, <2>4, <2>6 DEF Laid
  <2> QED BY <1>2, <2>2, <2>5, <2>7 DEF StreamOf
<1> QED BY <1>2, <1>3, <1>4 DEF StreamInv

\* The stream of a connection that nothing happens to.
LEMMA StreamStays ==
  ASSUME NEW c \in Conn, NEW f, StreamOf(c, f), UNCHANGED frames,
         sent'[c] = sent[c], queue'[c] = queue[c], got'[c] = got[c],
         pc'[c] # "dead" => pc[c] # "dead"
  PROVE  StreamOf(c, f)'
<1>1. PICK st \in [1..(Len(frames) + 1) -> Nat] :
        /\ Numbered(c, st, frames, sent[c])
        /\ pc[c] # "dead" => Laid(queue[c], sent[c], Len(got[c]), st[f])
  BY DEF StreamOf
<1>2. PICK gr, s, q, g : gr = frames' /\ s = sent'[c] /\ q = queue'[c] /\ g = got'[c]
  OBVIOUS
<1>3. frames = gr /\ sent[c] = s /\ queue[c] = q /\ got[c] = g  BY <1>2
<1>4. Numbered(c, st, gr, s)  BY <1>1, <1>3
<1>5. pc'[c] # "dead" => Laid(q, s, Len(g), st[f])  BY <1>1, <1>3
<1> QED BY <1>1, <1>2, <1>3, <1>4, <1>5 DEF StreamOf

LEMMA StreamSend ==
  ASSUME TypeOK, TypeOK', NEW f \in 1..(Len(frames) + 1), Awaited(f),
         NEW d \in Conn, NEW n \in FrameSizes, ServerSend(d, n)
  PROVE  /\ Awaited(f)'
         /\ \A c \in Conn : StreamOf(c, f) => StreamOf(c, f)'
<1>1. /\ frames' = Append(frames, [id |-> d, size |-> n]) /\ ~closed
      /\ \A c \in Conn : sent'[c] = IF d = c THEN sent[c] \o Payload(FrameBytes(Len(frames) + 1, n))
                                             ELSE sent[c]
      /\ UNCHANGED <<queue, got, pc>>
  BY DEF ServerSend, TypeOK
<1>2. Awaited(f)'
  <2>0. Len(frames) + 1 \in Nat /\ n \in Nat
    BY SizesAssumption, LenProperties DEF TypeOK
  <2>1. PICK F \in Nat, m \in Nat : F = Len(frames) + 1 /\ m = n  BY <2>0
  <2>e. PICK e : e = FrameBytes(F, m)  OBVIOUS
  <2>2. /\ e \in Seq({F} \X (Nat \ {0})) /\ Len(e) = HdrSize + m
        /\ \A k \in 1..(HdrSize + m) : e[k] = <<F, k>>
    BY <2>e, FrameBytesType
  <2>3. e[1] = <<F, 1>> /\ Len(e) >= 1
    <3>1. 1 \in 1..(HdrSize + m) /\ HdrSize + m >= 1  BY DEF HdrSize
    <3> QED BY <2>2, <3>1
  <2>4. PICK s, t, T : /\ s = Undispatched /\ t = Undispatched'
                       /\ T = (1..F) \X (Nat \ {0})
    OBVIOUS
  <2>5. s \in Seq(Byte) /\ t = s \o e  BY <2>1, <2>e, <2>4, UndispatchedType, SendAppends
  <2>6. s \in Seq(T) /\ e \in Seq(T)
    <3>0. Len(frames) \in Nat  BY LenProperties DEF TypeOK
    <3>1. 1..Len(frames) \subseteq 1..F /\ {F} \subseteq 1..F  BY <2>1, <3>0
    <3>2. Byte \subseteq T /\ {F} \X (Nat \ {0}) \subseteq T
      BY <2>4, <3>1 DEF Byte, BytesOf
    <3> QED BY <2>2, <2>5, <3>2, SeqMonotonic
  <2>7. /\ Len(t) = Len(s) + Len(e) /\ Len(s) \in Nat
        /\ \A i \in 1..(Len(s) + Len(e)) : t[i] = IF i <= Len(s) THEN s[i] ELSE e[i - Len(s)]
    BY <2>5, <2>6, ConcatProperties, LenProperties
  <2>8. CASE s = <<>>
    <3>1. Len(s) = 0 /\ 1 \in 1..(Len(s) + Len(e)) /\ ~(1 <= Len(s)) /\ 1 - Len(s) = 1
      BY <2>2, <2>3, <2>8 DEF HdrSize
    <3>2. t[1] = <<F, 1>> /\ t # <<>>  BY <2>3, <2>7, <3>1, EmptySeq
    <3>3. f = F  BY <1>1, <2>1, <2>4, <2>8 DEF Awaited
    <3> QED BY <2>4, <3>2, <3>3 DEF Awaited
  <2>9. CASE s # <<>>
    <3>1. Len(s) >= 1  BY <2>5, <2>7, <2>9, EmptySeq
    <3>2. 1 \in 1..(Len(s) + Len(e)) /\ 1 <= Len(s)  BY <2>2, <2>7, <3>1 DEF HdrSize
    <3>3. t[1] = s[1] /\ t # <<>>  BY <2>2, <2>7, <3>1, <3>2, EmptySeq DEF HdrSize
    <3> QED BY <2>4, <2>9, <3>3 DEF Awaited
  <2> QED BY <2>8, <2>9
<1>3. ASSUME NEW c \in Conn, StreamOf(c, f) PROVE StreamOf(c, f)'
  <2>1. PICK st \in [1..(Len(frames) + 1) -> Nat] :
          /\ Numbered(c, st, frames, sent[c])
          /\ pc[c] # "dead" => Laid(queue[c], sent[c], Len(got[c]), st[f])
    BY <1>3 DEF StreamOf
  <2>2. PICK fr, gr, s, t : /\ fr = frames /\ gr = frames'
                            /\ s = sent[c] /\ t = sent'[c]
    OBVIOUS
  <2>3. /\ fr \in Frames /\ s \in Seq(BytesOf(fr)) /\ gr = Append(fr, [id |-> d, size |-> n])
        /\ t = IF d = c THEN s \o Payload(FrameBytes(Len(fr) + 1, n)) ELSE s
        /\ st \in [1..(Len(fr) + 1) -> Nat] /\ Numbered(c, st, fr, s)
    BY <1>1, <2>1, <2>2 DEF TypeOK, Frames, Byte
  <2>4. Lengthens(c, st, fr, gr, s, t)  BY <2>3, NumberedAppend
  <2>5. PICK new \in [1..(Len(gr) + 1) -> Nat] : Numbered(c, new, gr, t) /\ new[f] = st[f]
    BY <2>2, <2>4 DEF Lengthens
  <2>6. st[f] \in 0..Len(s)
    <3>1. f \in 1..(Len(fr) + 1)  BY <2>2
    <3>2. st[f] \in Nat /\ st[f] <= Len(s)  BY <2>3, <3>1 DEF Numbered
    <3>3. Len(s) \in Nat  BY <2>3, LenProperties
    <3> QED BY <3>2, <3>3
  <2>7. pc'[c] # "dead" => Laid(queue'[c], t, Len(got'[c]), new[f])
    <3> SUFFICES ASSUME pc'[c] # "dead" PROVE Laid(queue'[c], t, Len(got'[c]), new[f])
      OBVIOUS
    <3>1. PICK S, q, a, m : S = Byte /\ q = queue[c] /\ a = Len(got[c]) /\ m = st[f]
      OBVIOUS
    <3>2. q \in Seq(Seq(S)) /\ s \in Seq(S)  BY <2>2, <2>3, <3>1 DEF TypeOK, Byte
    <3>3. Laid(q, s, a, m)  BY <1>1, <2>1, <2>2, <3>1
    <3>4. \A i \in 1..Len(s) : t[i] = s[i]  BY <2>4 DEF Lengthens
    <3>5. Laid(q, t, a, m)  BY <2>6, <3>1, <3>2, <3>3, <3>4, LaidLonger
    <3> QED BY <1>1, <2>5, <3>1, <3>5
  <2> QED BY <2>2, <2>5, <2>7 DEF StreamOf
<1> QED BY <1>2, <1>3

\* Frame f is at the front of the undispatched bytes and leaves them; e is its
\* payload, put at the end of its addressee's queue.
FrameTaken(f, e) ==
  LET s == Undispatched
      t == Undispatched'
      n == FrameEnd(frames, f)
  IN /\ f \in 1..Len(frames) /\ s # <<>> /\ s[1][1] = f
     /\ n \in Nat /\ n >= HdrSize /\ n = HdrSize + frames[f].size /\ n <= Len(s)
     /\ \A k \in 1..n : s[k] = <<f, k>>
     /\ n + 1 <= Len(s) => s[n + 1] = <<f + 1, 1>>
     /\ t \in Seq(Byte) /\ Len(t) = Len(s) - n
     /\ \A i \in 1..Len(t) : t[i] = s[n + i]
     /\ e \in Seq(Byte) /\ Len(e) = frames[f].size
     /\ \A k \in 1..Len(e) : e[k] = <<f, HdrSize + k>>
     /\ \A c \in Conn : queue'[c] = IF c = frames[f].id THEN Append(queue[c], e) ELSE queue[c]
     /\ \A c \in Conn : pc'[c] # "dead" => pc[c] # "dead"
     /\ UNCHANGED <<frames, closed, sent, got>>

LEMMA DispatchTakes ==
  ASSUME TypeOK, SharingInv, FrameAligned, NEW b \in Conn, DispatchFrame(b)
  PROVE  \E f, e : FrameTaken(f, e)
<1>1. PICK s, t, n : s = Undispatched /\ t = Undispatched' /\ n = FrameEnd(frames, s[1][1])
  OBVIOUS
<1>2. /\ s # <<>> /\ n = HeadEnd(hand) /\ n <= Len(hand) /\ n <= Len(s)
      /\ \A i \in 1..Len(hand) : s[i] = hand[i]
      /\ t \in Seq(Byte) /\ Len(t) = Len(s) - n
      /\ \A i \in 1..Len(t) : t[i] = s[n + i]
  BY <1>1, DispatchDrops
<1>3. /\ s \in Seq(Byte) /\ Len(s) \in Nat /\ Len(s) >= 1 /\ frames \in Frames
      /\ hand \in Seq(Byte) /\ Len(hand) \in Nat
  BY <1>1, <1>2, UndispatchedType, LenProperties, EmptySeq DEF TypeOK, Frames
<1> PICK f : f = s[1][1]  OBVIOUS
<1>4. f \in 1..Len(frames) /\ s[1][2] = 1
  <2>1. 1 \in 1..Len(s)  BY <1>3
  <2> QED BY <1>1, <1>2, <1>3, <2>1, ByteType DEF FrameAligned, Contiguous, Byte
<1>5. n \in Nat /\ n >= HdrSize /\ n = HdrSize + frames[f].size
  BY <1>1, <1>3, <1>4, FrameEndType DEF FrameEnd
<1>6. /\ \A k \in 1..n : s[k] = <<f, k>>
      /\ n + 1 <= Len(s) => s[n + 1] = <<f + 1, 1>>
  <2>1. \A j \in 0..(Len(s) - 1) : Follows(frames, s, 1, j)
    BY <1>1, <1>3 DEF FrameAligned, Contiguous
  <2>2. ASSUME NEW k \in 1..n PROVE s[k] = <<f, k>>
    <3>1. k - 1 \in 0..(Len(s) - 1) /\ 1 + (k - 1) <= n /\ 1 + (k - 1) = k
      BY <1>2, <1>3, <1>5
    <3>2. Follows(frames, s, 1, k - 1)  BY <2>1, <3>1
    <3> QED BY <1>1, <1>4, <3>1, <3>2 DEF Follows
  <2>3. ASSUME n + 1 <= Len(s) PROVE s[n + 1] = <<f + 1, 1>>
    <3>1. n \in 0..(Len(s) - 1) /\ 1 + n = n + 1  BY <1>3, <1>5, <2>3
    <3>2. Follows(frames, s, 1, n)  BY <2>1, <3>1
    <3> QED BY <1>1, <1>4, <3>1, <3>2 DEF Follows
  <2> QED BY <2>2, <2>3
<1>7. UNCHANGED <<frames, closed, sent, got>>  BY DEF DispatchFrame, netVars
<1>9. PICK e : e = SubSeq(hand, HdrSize + 1, n)  OBVIOUS
<1>10. /\ e \in Seq(Byte) /\ Len(e) = frames[f].size
       /\ \A k \in 1..Len(e) : e[k] = <<f, HdrSize + k>>
  <2>1. HdrSize \in Nat /\ HdrSize + 1 \in Nat \ {0} /\ n \in 0..Len(hand)
    BY <1>2, <1>3, <1>5 DEF HdrSize
  <2>2. /\ e \in Seq(Byte)
        /\ Len(e) = IF HdrSize + 1 <= n THEN n - (HdrSize + 1) + 1 ELSE 0
        /\ \A i \in 1..(n - (HdrSize + 1) + 1) : e[i] = hand[(HdrSize + 1) + i - 1]
    BY <1>3, <1>9, <2>1, PieceType
  <2>3. frames[f].size \in Nat
    <3>1. frames[f] \in [id : Conn, size : FrameSizes]  BY <1>3, <1>4, ElementOfSeq DEF Frames
    <3> QED BY <3>1, SizesAssumption
  <2>4. Len(e) = frames[f].size
    <3>1. PICK z \in Nat, H \in Nat : z = frames[f].size /\ H = HdrSize  BY <2>1, <2>3
    <3>2. n = H + z /\ Len(e) = IF H + 1 <= n THEN n - (H + 1) + 1 ELSE 0
      BY <1>5, <2>2, <3>1
    <3>3. Len(e) = z  BY ONLY <3>2, z \in Nat, H \in Nat
    <3> QED BY <3>1, <3>3
  <2>5. ASSUME NEW k \in 1..Len(e) PROVE e[k] = <<f, HdrSize + k>>
    <3>1. PICK i : i = HdrSize + k  OBVIOUS
    <3>2. /\ k \in 1..(n - (HdrSize + 1) + 1) /\ (HdrSize + 1) + k - 1 = i
          /\ i \in 1..n /\ i \in 1..Len(hand)
      <4>1. PICK z \in Nat, H \in Nat, L \in Nat :
              z = frames[f].size /\ H = HdrSize /\ L = Len(hand)
        BY <1>3, <2>1, <2>3
      <4>2. k \in 1..z /\ n = H + z /\ n <= L /\ i = H + k
        BY <1>2, <1>5, <2>4, <3>1, <4>1
      <4>3. k \in 1..(n - (H + 1) + 1) /\ (H + 1) + k - 1 = i /\ i \in 1..n /\ i \in 1..L
        BY ONLY <4>2, z \in Nat, H \in Nat, L \in Nat
      <4> QED BY <4>1, <4>3
    <3>3. e[k] = hand[i]  BY <2>2, <3>2
    <3> QED BY <1>2, <1>6, <3>1, <3>2, <3>3
  <2> QED BY <2>2, <2>4, <2>5
<1>11. /\ HeadId(hand) = frames[f].id
       /\ \A c \in Conn : queue'[c] = IF c = frames[f].id THEN Append(queue[c], e) ELSE queue[c]
       /\ \A c \in Conn : pc'[c] # "dead" => pc[c] # "dead"
  <2>1. HeadId(hand) = frames[f].id
    <3>1. 1 \in 1..Len(hand)  BY <1>2, <1>3, <1>5 DEF HdrSize
    <3>2. hand[1] = s[1]  BY <1>2, <3>1
    <3> QED BY <1>4, <3>2 DEF HeadId
  <2>2. queue' = [queue EXCEPT ![HeadId(hand)] = Append(@, e)]
    BY <1>2, <1>9 DEF DispatchFrame
  <2>3. \A c \in Conn : pc'[c] # "dead" => pc[c] # "dead"
    BY DEF DispatchFrame, Goto, TypeOK
  <2> QED BY <2>1, <2>2, <2>3 DEF TypeOK
<1>12. FrameEnd(frames, f) = n /\ s # <<>> /\ s[1][1] = f /\ n <= Len(s)
  BY <1>1, <1>2
<1>13. FrameTaken(f, e)
  BY <1>1, <1>2, <1>4, <1>5, <1>6, <1>7, <1>10, <1>11, <1>12, Zenon DEF FrameTaken
<1> QED BY <1>13

\* The frame f is dispatched, and f + 1 is the next.
LEMMA StreamDispatch ==
  ASSUME TypeOK, SharingInv, FrameAligned, NEW f \in 1..(Len(frames) + 1), Awaited(f),
         NEW b \in Conn, DispatchFrame(b)
  PROVE  /\ f + 1 \in 1..(Len(frames) + 1) /\ Awaited(f + 1)'
         /\ \A c \in Conn : StreamOf(c, f) => StreamOf(c, f + 1)'
<1>1. PICK g, e : FrameTaken(g, e)  BY DispatchTakes
<1>2. PICK s, t, n : s = Undispatched /\ t = Undispatched' /\ n = FrameEnd(frames, g)
  OBVIOUS
<1>3. /\ s \in Seq(Byte) /\ Len(s) \in Nat /\ s # <<>> /\ t \in Seq(Byte)
  BY <1>1, <1>2, UndispatchedType, LenProperties DEF FrameTaken
<1>4. g = f  BY <1>1, <1>2, <1>3 DEF FrameTaken, Awaited
<1>5. /\ f \in 1..Len(frames) /\ Len(frames) \in Nat /\ n \in Nat /\ n >= HdrSize /\ n <= Len(s)
      /\ \A k \in 1..n : s[k] = <<f, k>>
      /\ n + 1 <= Len(s) => s[n + 1] = <<f + 1, 1>>
      /\ Len(t) = Len(s) - n /\ \A i \in 1..Len(t) : t[i] = s[n + i]
      /\ UNCHANGED <<frames, closed, sent, got>>
  BY <1>1, <1>2, <1>4, LenProperties DEF FrameTaken, TypeOK
<1>6. /\ e \in Seq(Byte) /\ Len(e) = frames[f].size
      /\ \A k \in 1..Len(e) : e[k] = <<f, HdrSize + k>>
      /\ \A c \in Conn : queue'[c] = IF c = frames[f].id THEN Append(queue[c], e) ELSE queue[c]
      /\ \A c \in Conn : pc'[c] # "dead" => pc[c] # "dead"
  BY <1>1, <1>4 DEF FrameTaken
<1>7. Awaited(f + 1)'
  <2>1. CASE t # <<>>
    <3>1. Len(t) \in Nat /\ Len(t) >= 1 /\ Len(t) = Len(s) - n
      BY <1>3, <1>5, <2>1, EmptySeq, LenProperties
    <3>2. 1 \in 1..Len(t) /\ n + 1 <= Len(s)  BY <1>3, <1>5, <3>1
    <3>3. t[1] = <<f + 1, 1>>  BY <1>5, <3>2
    <3> QED BY <1>2, <2>1, <3>3 DEF Awaited
  <2>2. CASE t = <<>>
    <3>1. Len(s) = n /\ n \in 1..n  BY <1>3, <1>5, <2>2, EmptySeq DEF HdrSize
    <3>2. s[Len(s)] = <<f, n>>  BY <1>5, <3>1
    <3>3. ~closed => f = Len(frames)  BY <1>2, <1>3, <3>2 DEF FrameAligned, Complete
    <3> QED BY <1>2, <1>5, <2>2, <3>3 DEF Awaited
  <2> QED BY <2>1, <2>2
<1>8. ASSUME NEW c \in Conn, StreamOf(c, f) PROVE StreamOf(c, f + 1)'
  <2>1. PICK st \in [1..(Len(frames) + 1) -> Nat] :
          /\ Numbered(c, st, frames, sent[c])
          /\ pc[c] # "dead" => Laid(queue[c], sent[c], Len(got[c]), st[f])
    BY <1>8 DEF StreamOf
  <2>2. /\ st[f + 1] = IF frames[f].id = c THEN st[f] + frames[f].size ELSE st[f]
        /\ frames[f].id = c =>
             \A k \in 1..frames[f].size : sent[c][st[f] + k] = <<f, HdrSize + k>>
    BY <1>5, <2>1 DEF Numbered
  <2>3. ASSUME pc'[c] # "dead" PROVE Laid(queue'[c], sent[c], Len(got[c]), st[f + 1])
    <3>1. Laid(queue[c], sent[c], Len(got[c]), st[f])  BY <1>6, <2>1, <2>3
    <3>2. CASE frames[f].id = c
      <4>1. queue[c] \in Seq(Seq(Byte)) /\ st[f] \in Nat  BY DEF TypeOK
      <4>2. \A k \in 1..Len(e) : e[k] = sent[c][st[f] + k]  BY <1>6, <2>2, <3>2
      <4>3. Laid(Append(queue[c], e), sent[c], Len(got[c]), st[f] + Len(e))
        BY <1>6, <3>1, <4>1, <4>2, LaidAppend
      <4> QED BY <1>6, <2>2, <3>2, <4>3
    <3>3. CASE frames[f].id # c  BY <1>6, <2>2, <3>1, <3>3
    <3> QED BY <3>2, <3>3
  <2> QED BY <1>5, <2>1, <2>3 DEF StreamOf, Numbered
<1> QED BY <1>5, <1>7, <1>8

\* The bytes a receive is about to take.
LEMMA NextBytes ==
  ASSUME TypeOK, StreamInv, NEW c \in Conn, PopChunk(c)
  PROVE  /\ Len(got[c]) + Len(Head(queue[c])) <= Len(sent[c])
         /\ \A k \in 1..Len(Head(queue[c])) : Head(queue[c])[k] = sent[c][Len(got[c]) + k]
         /\ Head(queue[c]) \in Seq(Byte) /\ want[c] \in 0..Len(Head(queue[c]))
<1>1. PICK f \in 1..(Len(frames) + 1) : StreamOf(c, f)  BY DEF StreamInv
<1>2. pc[c] # "dead"  BY DEF PopChunk, Goto
<1>3. PICK st \in [1..(Len(frames) + 1) -> Nat] :
        /\ Numbered(c, st, frames, sent[c])
        /\ Laid(queue[c], sent[c], Len(got[c]), st[f])
  BY <1>1, <1>2 DEF StreamOf
<1>4. st[f] <= Len(sent[c]) /\ st[f] \in Nat  BY <1>3 DEF Numbered
<1>5. queue[c] \in Seq(Seq(Byte)) /\ got[c] \in Seq(Byte) /\ sent[c] \in Seq(Byte)  BY DEF TypeOK
<1>6. queue[c] # <<>> /\ want[c] <= Len(Head(queue[c])) /\ want[c] \in Nat
  BY WantType DEF PopChunk
<1>7. Head(queue[c]) \in Seq(Byte) /\ Len(Head(queue[c])) \in Nat
  BY <1>5, <1>6, HeadTailProperties, LenProperties
<1>8. want[c] \in 0..Len(Head(queue[c])) /\ Len(got[c]) \in Nat /\ Len(sent[c]) \in Nat
  BY <1>5, <1>6, <1>7, LenProperties
<1>9. /\ Len(got[c]) + Len(Head(queue[c])) <= st[f]
      /\ \A k \in 1..Len(Head(queue[c])) : Head(queue[c])[k] = sent[c][Len(got[c]) + k]
  BY <1>3, <1>5, <1>6, <1>8, LaidTake
<1>10. Len(got[c]) + Len(Head(queue[c])) <= Len(sent[c])
  <2>1. PICK w, x, y, z : /\ w = Len(got[c]) /\ x = Len(Head(queue[c]))
                          /\ y = st[f] /\ z = Len(sent[c])
    OBVIOUS
  <2>2. w + x <= y /\ y <= z  BY <1>4, <1>9, <2>1
  <2>3. w \in Nat /\ x \in Nat /\ y \in Nat /\ z \in Nat  BY <1>4, <1>7, <1>8, <2>1, Zenon
  <2>4. w + x <= z  BY ONLY <2>2, <2>3
  <2> QED BY <2>1, <2>4
<1> QED BY <1>7, <1>8, <1>9, <1>10

LEMMA StreamPop ==
  ASSUME TypeOK, NEW f \in 1..(Len(frames) + 1), NEW c \in Conn, StreamOf(c, f),
         PopChunk(c)
  PROVE  StreamOf(c, f)'
<1>1. pc[c] # "dead"  BY DEF PopChunk, Goto
<1>2. PICK st \in [1..(Len(frames) + 1) -> Nat] :
        /\ Numbered(c, st, frames, sent[c])
        /\ Laid(queue[c], sent[c], Len(got[c]), st[f])
  BY <1>1 DEF StreamOf
<1>3. PICK q, h, w, a, r :
        /\ q = queue[c] /\ h = Head(q) /\ w = want[c] /\ a = Len(got[c])
        /\ r = PutBack(SubSeq(h, w + 1, Len(h)), Tail(q))
  OBVIOUS
<1>4. q \in Seq(Seq(Byte)) /\ q # <<>> /\ got[c] \in Seq(Byte) /\ a \in Nat
  BY <1>3, LenProperties DEF TypeOK, PopChunk
<1>5. h \in Seq(Byte) /\ Len(h) \in Nat  BY <1>3, <1>4, HeadTailProperties, LenProperties
<1>6. w \in 0..Len(h)
  <2>1. w \in Nat /\ w <= Len(h)  BY <1>3, WantType DEF PopChunk
  <2> QED BY <1>5, <2>1
<1>7. Laid(r, sent[c], a + w, st[f])
  BY <1>2, <1>3, <1>4, <1>6, LaidTake
<1>8. UNCHANGED <<frames, sent>> /\ queue'[c] = r /\ got'[c] = got[c] \o SubSeq(h, 1, w)
  BY <1>3 DEF PopChunk, netVars, TypeOK
<1>9. Len(got'[c]) = a + w
  <2>1. SubSeq(h, 1, w) \in Seq(Byte) /\ Len(SubSeq(h, 1, w)) = w
    BY <1>5, <1>6, PieceType
  <2> QED BY <1>3, <1>4, <1>8, <2>1, ConcatProperties
<1> QED BY <1>2, <1>7, <1>8, <1>9 DEF StreamOf, Numbered

\* A step that neither sends, closes, dispatches nor pops.
Quiet == /\ UNCHANGED <<sent, queue, got>>
         /\ \A c \in Conn : pc'[c] # "dead" => pc[c] # "dead"

LEMMA QuietSteps ==
  ASSUME TypeOK, [Next]_vars,
         \A c \in Conn : /\ ~DispatchFrame(c) /\ ~PopChunk(c) /\ ~PopOversized(c)
                         /\ \A n \in FrameSizes : ~ServerSend(c, n)
  PROVE  Quiet
<1>1. CASE ServerClose  BY <1>1 DEF ServerClose, Quiet
<1>2. ASSUME NEW c \in Conn, Interrupt(c) \/ ClearInterrupt(c) PROVE Quiet
  BY <1>2 DEF Interrupt, ClearInterrupt, netVars, Quiet
<1>3. ASSUME NEW c \in Conn, NEW n \in Requests, Call(c, n) PROVE Quiet
  BY <1>3 DEF Call, netVars, Quiet, Outside, TypeOK
<1>4. ASSUME NEW c \in Conn,
             \/ LoopTest(c) \/ ThrowInterrupted(c) \/ LookAtQueue(c) \/ LockAborted(c)
             \/ LockAcquired(c) \/ Drain(c) \/ DrainTimeout(c) \/ DrainClosed(c)
             \/ KeepOrphan(c) \/ Unlock(c)
      PROVE  Quiet
  <2>1. UNCHANGED <<sent, queue, got>>
    BY <1>4 DEF LoopTest, ThrowInterrupted, LookAtQueue, LockAborted, LockAcquired, Drain,
       DrainTimeout, DrainClosed, KeepOrphan, Unlock, netVars
  <2>2. PICK from, to : Goto(c, from, to) /\ from # "dead"
    BY <1>4 DEF LoopTest, ThrowInterrupted, LookAtQueue, LockAborted, LockAcquired, Drain,
       DrainTimeout, DrainClosed, KeepOrphan, Unlock, Goto
  <2>3. \A d \in Conn : pc'[d] # "dead" => pc[d] # "dead"
    BY <2>2, GotoFrame
  <2> QED BY <2>1, <2>3 DEF Quiet
<1>5. CASE UNCHANGED vars  BY <1>5 DEF vars, netVars, Quiet
<1> QED BY <1>1, <1>2, <1>3, <1>4, <1>5 DEF Next, Server, Users, Step

LEMMA StreamStep ==
  TypeOK /\ SharingInv /\ FrameAligned /\ StreamInv /\ [Next]_vars => StreamInv'
<1> SUFFICES ASSUME TypeOK, SharingInv, FrameAligned, StreamInv, [Next]_vars
             PROVE  StreamInv'
  OBVIOUS
<1>0. TypeOK'  BY TypeStep
<1>a. PICK f \in 1..(Len(frames) + 1) : Awaited(f) /\ \A c \in Conn : StreamOf(c, f)
  BY DEF StreamInv
<1>1. ASSUME NEW d \in Conn, NEW n \in FrameSizes, ServerSend(d, n) PROVE StreamInv'
  <2>1. Awaited(f)' /\ \A c \in Conn : StreamOf(c, f)'  BY <1>0, <1>1, <1>a, StreamSend
  <2>2. f \in 1..(Len(frames') + 1)
    <3>1. Len(frames) \in Nat  BY LenProperties DEF TypeOK
    <3>2. Len(frames') = Len(frames) + 1  BY <1>1 DEF ServerSend, TypeOK
    <3> QED BY <3>1, <3>2
  <2> QED BY <2>1, <2>2 DEF StreamInv
<1>2. ASSUME NEW b \in Conn, DispatchFrame(b) PROVE StreamInv'
  <2>1. /\ f + 1 \in 1..(Len(frames) + 1) /\ Awaited(f + 1)'
        /\ \A c \in Conn : StreamOf(c, f + 1)'
    BY <1>2, <1>a, StreamDispatch
  <2>2. frames' = frames  BY <1>2 DEF DispatchFrame, netVars
  <2> QED BY <2>1, <2>2 DEF StreamInv
<1> SUFFICES ASSUME \A c \in Conn : ~DispatchFrame(c) /\ \A n \in FrameSizes : ~ServerSend(c, n)
             PROVE  StreamInv'
  BY <1>1, <1>2
<1>3. frames' = frames /\ Awaited(f)'
  <2>1. CASE ServerClose
    <3>1. closed' /\ frames' = frames  BY <2>1 DEF ServerClose
    <3>2. PICK s, t : s = Undispatched /\ t = Undispatched'  OBVIOUS
    <3>3. t \in Seq(Byte) /\ Len(t) <= Len(s) /\ \A i \in 1..Len(t) : t[i] = s[i]
      BY <2>1, <3>2, CloseCuts
    <3>4. s \in Seq(Byte)  BY <3>2, UndispatchedType
    <3>5. t # <<>> => 1 \in 1..Len(t) /\ s # <<>>
      BY <3>3, <3>4, EmptySeq, LenProperties
    <3> QED BY <1>a, <3>1, <3>2, <3>3, <3>5 DEF Awaited
  <2>2. CASE ~ServerClose
    <3>1. UNCHANGED <<Undispatched, frames, closed>>  BY <2>2, OthersKeep
    <3> QED BY <1>a, <3>1 DEF Awaited
  <2> QED BY <2>1, <2>2
<1>4. ASSUME NEW c \in Conn PROVE StreamOf(c, f)'
  <2>1. CASE PopChunk(c)  BY <1>a, <2>1, StreamPop
  <2>2. ASSUME NEW d \in Conn, d # c, PopChunk(d) PROVE StreamOf(c, f)'
    <3>1. sent'[c] = sent[c] /\ queue'[c] = queue[c] /\ got'[c] = got[c] /\ pc'[c] = pc[c]
      BY <2>2 DEF PopChunk, Goto, netVars, TypeOK
    <3> QED BY <1>a, <1>3, <3>1, StreamStays
  <2>3. ASSUME NEW d \in Conn, PopOversized(d) PROVE StreamOf(c, f)'
    <3>1. /\ sent' = sent /\ got' = got
          /\ d # c => queue'[c] = queue[c] /\ pc'[c] = pc[c]
          /\ pc'[d] = "dead"
      BY <2>3 DEF PopOversized, Goto, netVars, TypeOK
    <3>2. CASE d # c  BY <1>a, <1>3, <3>1, <3>2, StreamStays
    <3>3. CASE d = c
      <4>1. PICK st \in [1..(Len(frames) + 1) -> Nat] : Numbered(c, st, frames, sent[c])
        BY <1>a DEF StreamOf
      <4> QED BY <1>3, <3>1, <3>3, <4>1 DEF StreamOf, Numbered
    <3> QED BY <3>2, <3>3
  <2>4. CASE \A d \in Conn : ~PopChunk(d) /\ ~PopOversized(d)
    <3>1. Quiet  BY <2>4, QuietSteps
    <3> QED BY <1>a, <1>3, <3>1, StreamStays DEF Quiet
  <2> QED BY <2>1, <2>2, <2>3, <2>4
<1> QED BY <1>3, <1>4 DEF StreamInv

LEMMA Streams == Spec => [](TypeOK /\ StreamInv)
<1>1. Init => StreamInv  BY StreamInit
<1>2. TypeOK /\ SharingInv /\ FrameAligned /\ StreamInv /\ [Next]_vars => StreamInv'
  BY StreamStep
<1> QED BY <1>1, <1>2, TypeCorrect, Sharing, HeadersAligned, PTL DEF Spec

\* What a step of a thread means for the receive it is in.
LEMMA Receiving ==
  ASSUME TypeOK, NEW c \in Conn, NEW to, pc' = [pc EXCEPT ![c] = to]
  PROVE  [d \in Conn |-> InCall(d)'] =
           [[d \in Conn |-> InCall(d)] EXCEPT ![c] = (to \in Inside)]
<1>1. pc'[c] = to /\ \A d \in Conn : d # c => pc'[d] = pc[d]  BY DEF TypeOK
<1>2. InCall(c)' = (to \in Inside) /\ \A d \in Conn : d # c => InCall(d)' = InCall(d)
  BY <1>1 DEF InCall
<1> QED BY <1>2, Zenon

LEMMA ChannelsInit == Init => Channels!Init
<1> SUFFICES ASSUME Init PROVE Channels!Init
  OBVIOUS
<1>1. ASSUME NEW c \in Conn PROVE InCall(c) = FALSE
  BY <1>1 DEF Init, InCall, Inside
<1>2. [c \in Conn |-> InCall(c)] = [c \in Conn |-> FALSE]
  BY <1>1, Zenon
<1>3. /\ sent = [c \in Conn |-> <<>>] /\ got = [c \in Conn |-> <<>>]
      /\ want = [c \in Conn |-> 0]
  BY DEF Init
<1> QED BY <1>2, <1>3, Zenon DEF Channels!Init

LEMMA ChannelsStep ==
  TypeOK /\ StreamInv /\ [Next]_vars => [Channels!Next]_(Channels!vars)
<1> SUFFICES ASSUME TypeOK, StreamInv, [Next]_vars
             PROVE  [Channels!Next]_(Channels!vars)
  OBVIOUS
<1> DEFINE R == [c \in Conn |-> InCall(c)]
<1>a. R' = [c \in Conn |-> InCall(c)']  OBVIOUS
\* A step that leaves a thread inside, or outside, its call.
<1>b. ASSUME NEW c \in Conn, NEW to, pc' = [pc EXCEPT ![c] = to], InCall(c) = (to \in Inside)
      PROVE  R' = R
  <2>1. R' = [R EXCEPT ![c] = (to \in Inside)]  BY <1>a, <1>b, Receiving
  <2>2. [R EXCEPT ![c] = InCall(c)] = R  OBVIOUS
  <2> QED BY <1>b, <2>1, <2>2
<1>c. ASSUME R' = R, UNCHANGED <<sent, got, want>> PROVE UNCHANGED Channels!vars
  BY <1>c DEF Channels!vars
\* A step that ends a call.
<1>d. ASSUME NEW c \in Conn, NEW from \in Inside, NEW to, Goto(c, from, to), to \notin Inside
      PROVE  R[c] /\ R' = [R EXCEPT ![c] = FALSE]
  <2>1. R[c]  BY <1>d DEF Goto, InCall
  <2>2. R' = [R EXCEPT ![c] = (to \in Inside)]  BY <1>a, <1>d, Receiving DEF Goto
  <2>3. (to \in Inside) = FALSE  BY <1>d
  <2> QED BY <2>1, <2>2, <2>3
<1>1. ASSUME NEW c \in Conn, NEW n \in FrameSizes, ServerSend(c, n)
      PROVE  Channels!Send(c)
  <2>1. UNCHANGED <<got, want, pc>>  BY <1>1 DEF ServerSend
  <2>2. PICK s, p : s = sent[c] /\ p = Payload(FrameBytes(Len(frames) + 1, n))  OBVIOUS
  <2>3. sent' = [sent EXCEPT ![c] = s \o p] /\ sent'[c] = s \o p
    BY <1>1, <2>2 DEF ServerSend, TypeOK
  <2>4. PICK F, m, T : F = Len(frames) + 1 /\ m = n /\ T = (1..F) \X (Nat \ {0})  OBVIOUS
  <2>5. F \in Nat /\ m \in Nat /\ 1..Len(frames) \subseteq 1..F /\ {F} \subseteq 1..F
    <3>1. Len(frames) \in Nat  BY LenProperties DEF TypeOK
    <3> QED BY <2>4, <3>1, SizesAssumption
  <2>6. s \in Seq(T) /\ p \in Seq(T)
    <3>1. Byte \subseteq T /\ {F} \X (Nat \ {0}) \subseteq T
      BY <2>4, <2>5 DEF Byte, BytesOf
    <3>2. s \in Seq(Byte)  BY <2>2 DEF TypeOK
    <3>3. p \in Seq({F} \X (Nat \ {0}))  BY <2>2, <2>4, <2>5, PayloadType
    <3> QED BY <3>1, <3>2, <3>3, SeqMonotonic
  <2>7. Channels!Extends(s \o p, s)
    <3>1. /\ s \o p \in Seq(T) /\ Len(s \o p) = Len(s) + Len(p)
          /\ \A i \in 1..(Len(s) + Len(p)) :
               (s \o p)[i] = IF i <= Len(s) THEN s[i] ELSE p[i - Len(s)]
      BY <2>6, ConcatProperties
    <3>2. Len(s) \in Nat /\ Len(p) \in Nat  BY <2>6, LenProperties
    <3>3. SubSeq(s \o p, 1, Len(s)) = s
      <4>1. PICK t : t = s \o p  OBVIOUS
      <4>2. t \in Seq(T) /\ Len(t) = Len(s) + Len(p) /\ \A i \in 1..Len(s) : t[i] = s[i]
        BY <3>1, <3>2, <4>1
      <4>3. 1 \in Nat \ {0} /\ Len(s) \in 0..Len(t)  BY <3>2, <4>2
      <4>4. PICK u : u = SubSeq(t, 1, Len(s))  OBVIOUS
      <4>5. /\ u \in Seq(T) /\ Len(u) = IF 1 <= Len(s) THEN Len(s) - 1 + 1 ELSE 0
            /\ \A i \in 1..(Len(s) - 1 + 1) : u[i] = t[1 + i - 1]
        BY <4>2, <4>3, <4>4, PieceType
      <4>6. Len(u) = Len(s)  BY <3>2, <4>5
      <4>7. ASSUME NEW i \in 1..Len(s) PROVE u[i] = s[i]
        <5>1. i \in 1..(Len(s) - 1 + 1) /\ 1 + i - 1 = i  BY <3>2
        <5> QED BY <4>2, <4>5, <5>1
      <4> QED BY <2>6, <4>1, <4>4, <4>5, <4>6, <4>7, SeqEqual
    <3> QED BY <3>1, <3>2, <3>3 DEF Channels!Extends
  <2>8. R' = R  BY <2>1 DEF InCall
  <2> QED BY <2>1, <2>2, <2>3, <2>7, <2>8 DEF Channels!Send
<1>2. ASSUME NEW c \in Conn, NEW n \in Requests, Call(c, n)
      PROVE  Channels!Ask(c, n)
  <2>1. R' = [R EXCEPT ![c] = ("test" \in Inside)]  BY <1>2, <1>a, Receiving DEF Call
  <2>2. ("test" \in Inside) = TRUE  BY DEF Inside
  <2>3. ~R[c]  BY <1>2 DEF Call, InCall, Outside, Inside
  <2> QED BY <1>2, <2>1, <2>2, <2>3 DEF Call, netVars, Channels!Ask
<1>3. ASSUME NEW c \in Conn, ThrowInterrupted(c) \/ PopOversized(c) \/ DrainClosed(c)
      PROVE  Channels!GiveUp(c)
  <2>1. UNCHANGED <<sent, got, want>>
    BY <1>3 DEF ThrowInterrupted, PopOversized, DrainClosed, netVars
  <2>2. PICK from, to : from \in Inside /\ Goto(c, from, to) /\ to \notin Inside
    BY <1>3 DEF ThrowInterrupted, PopOversized, DrainClosed, Inside
  <2>3. R[c] /\ R' = [R EXCEPT ![c] = FALSE]  BY <1>d, <2>2
  <2> QED BY <2>1, <2>3 DEF Channels!GiveUp
<1>4. ASSUME NEW c \in Conn, PopChunk(c)
      PROVE  Channels!Deliver(c)
  <2>1. R[c] /\ R' = [R EXCEPT ![c] = FALSE]
    <3>1. Goto(c, "pop", "returned") /\ "pop" \in Inside /\ "returned" \notin Inside
      BY <1>4 DEF PopChunk, Inside
    <3> QED BY <1>d, <3>1
  <2>2. PICK h, s, a, w : h = Head(queue[c]) /\ s = sent[c] /\ a = Len(got[c]) /\ w = want[c]
    OBVIOUS
  <2>3. /\ a + Len(h) <= Len(s) /\ \A k \in 1..Len(h) : h[k] = s[a + k]
        /\ h \in Seq(Byte) /\ w \in 0..Len(h)
    BY <1>4, <2>2, NextBytes
  <2>4. s \in Seq(Byte) /\ a \in Nat /\ Len(s) \in Nat /\ Len(h) \in Nat /\ w \in Nat /\ w <= Len(h)
    <3>1. s \in Seq(Byte) /\ got[c] \in Seq(Byte)  BY <2>2 DEF TypeOK
    <3> QED BY <2>2, <2>3, <3>1, LenProperties
  <2>5. a + w <= Len(s)  BY <2>3, <2>4
  <2>6. SubSeq(h, 1, w) = SubSeq(s, a + 1, a + w)
    <3>1. 1 \in Nat \ {0} /\ a + 1 \in Nat \ {0} /\ a + w \in 0..Len(s)  BY <2>4, <2>5
    <3>2. PICK u, v : u = SubSeq(h, 1, w) /\ v = SubSeq(s, a + 1, a + w)  OBVIOUS
    <3>3. /\ u \in Seq(Byte) /\ Len(u) = IF 1 <= w THEN w - 1 + 1 ELSE 0
          /\ \A i \in 1..(w - 1 + 1) : u[i] = h[1 + i - 1]
      BY <2>3, <3>1, <3>2, PieceType
    <3>4. v \in Seq(Byte) /\ Len(v) = w /\ \A i \in 1..w : v[i] = s[a + i]
      <4>1. PICK m, n : m = a + 1 /\ n = a + w  OBVIOUS
      <4>2. m \in Nat \ {0} /\ n \in 0..Len(s) /\ v = SubSeq(s, m, n)
        BY <3>1, <3>2, <4>1
      <4>3. /\ v \in Seq(Byte) /\ Len(v) = IF m <= n THEN n - m + 1 ELSE 0
            /\ \A i \in 1..(n - m + 1) : v[i] = s[m + i - 1]
        <5>1. s \in Seq(Byte)  BY <2>4
        <5> QED BY <4>2, <5>1, PieceType
      <4>4. n - m + 1 = w /\ (~(m <= n) => w = 0)  BY <2>4, <4>1
      <4>5. Len(v) = w  BY <4>3, <4>4
      <4>6. ASSUME NEW i \in 1..w PROVE v[i] = s[a + i]
        <5>1. i \in 1..(n - m + 1)  BY <4>4
        <5>2. m + i - 1 = a + i  BY <2>4, <4>1
        <5> QED BY <4>3, <5>1, <5>2
      <4> QED BY <4>3, <4>5, <4>6
    <3>5. Len(u) = w /\ \A i \in 1..w : u[i] = h[i]
      <4>1. w - 1 + 1 = w /\ (~(1 <= w) => w = 0)  BY <2>4
      <4>2. Len(u) = w  BY <3>3, <4>1
      <4>3. ASSUME NEW i \in 1..w PROVE u[i] = h[i]
        <5>1. i \in 1..(w - 1 + 1) /\ 1 + i - 1 = i  BY <2>4
        <5> QED BY <3>3, <5>1
      <4> QED BY <4>2, <4>3
    <3>6. ASSUME NEW i \in 1..w PROVE u[i] = v[i]
      <4>1. i \in 1..Len(h)  BY <2>4
      <4> QED BY <2>3, <3>4, <3>5, <4>1
    <3> QED BY <3>2, <3>3, <3>4, <3>5, <3>6, SeqEqual
  <2>7. /\ got' = [got EXCEPT ![c] = @ \o SubSeq(h, 1, w)]
        /\ UNCHANGED <<sent, want>>
    BY <1>4, <2>2 DEF PopChunk, netVars
  <2> QED BY <2>1, <2>2, <2>5, <2>6, <2>7 DEF Channels!Deliver
\* The rest changes no receive.
<1>5. ASSUME NEW c \in Conn,
             \/ LoopTest(c) \/ LookAtQueue(c) \/ LockAborted(c) \/ LockAcquired(c)
             \/ Drain(c) \/ DrainTimeout(c) \/ KeepOrphan(c) \/ DispatchFrame(c) \/ Unlock(c)
      PROVE  UNCHANGED Channels!vars
  <2>1. UNCHANGED <<sent, got, want>>
    BY <1>5 DEF LoopTest, LookAtQueue, LockAborted, LockAcquired, Drain, DrainTimeout,
       KeepOrphan, DispatchFrame, Unlock, netVars
  <2>2. PICK from \in Inside, to \in Inside : Goto(c, from, to)
    BY <1>5 DEF LoopTest, LookAtQueue, LockAborted, LockAcquired, Drain, DrainTimeout,
       KeepOrphan, DispatchFrame, Unlock, Inside
  <2>3. R' = R
    <3>1. InCall(c) = TRUE /\ (to \in Inside) = TRUE  BY <2>2 DEF Goto, InCall
    <3> QED BY <1>b, <2>2, <3>1 DEF Goto
  <2> QED BY <1>c, <2>1, <2>3
<1>6. ASSUME UNCHANGED <<sent, got, want, pc>> PROVE UNCHANGED Channels!vars
  <2>1. R' = R  BY <1>6 DEF InCall
  <2> QED BY <1>6, <1>c, <2>1
<1>7. CASE ServerClose  BY <1>6, <1>7 DEF ServerClose
<1>8. ASSUME NEW c \in Conn, Interrupt(c) \/ ClearInterrupt(c)
      PROVE  UNCHANGED Channels!vars
  BY <1>6, <1>8 DEF Interrupt, ClearInterrupt, netVars
<1>9. CASE UNCHANGED vars  BY <1>6, <1>9 DEF vars, netVars
<1> HIDE DEF R
<1> QED BY <1>1, <1>2, <1>3, <1>4, <1>5, <1>7, <1>8, <1>9
        DEF Next, Server, Users, Step, Channels!Next

\* However the threads share the bundle, each connection is one reliable byte
\* stream: raw_receive returns exactly the next bytes sent to its connection,
\* or throws and takes none (batched_connection_client.cpp 198-331).
THEOREM ClientRefinesChannels == Spec => RefinesChannels
<1>1. Init => Channels!Init  BY ChannelsInit
<1>2. TypeOK /\ StreamInv /\ [Next]_vars => [Channels!Next]_(Channels!vars)
  BY ChannelsStep
<1> QED BY <1>1, <1>2, Streams, PTL DEF Spec, RefinesChannels, Channels!Spec

----------------------------------------------------------------------------
(* FlattenSeq.  It is defined by recursion over the chunks; the library's    *)
(* induction theorems cannot be used on it, so these lemmas rest on the run  *)
(* of partial sums of a sequence: there is one, by an induction over a set   *)
(* of numbers, and FlattenSeq is its last element.                           *)

\* Concatenation associates: the same fact with the set of elements fixed.
LEMMA SeqsAssociate ==
  ASSUME NEW B
  PROVE  \A s, t, u \in Seq(B) : (s \o t) \o u = s \o (t \o u)
<1> SUFFICES ASSUME NEW s \in Seq(B), NEW t \in Seq(B), NEW u \in Seq(B)
             PROVE  (s \o t) \o u = s \o (t \o u)
  OBVIOUS
<1> QED BY ConcatAssociative, SMTT(30)

LEMMA BytesAssociate ==
  \A s, t, u \in Seq(Byte) : (s \o t) \o u = s \o (t \o u)
BY ONLY SeqsAssociate, SMTT(30)

\* What holds of 0 and of every successor holds of every number.
LEMMA Induction ==
  ASSUME NEW S, 0 \in S, \A n \in Nat : n \in S => n + 1 \in S
  PROVE  Nat \subseteq S
<1> SUFFICES ASSUME Nat \ S # {} PROVE FALSE  OBVIOUS
<1>1. PICK x \in Nat \ S : \A y \in Nat \ S : ~(y < x)
  <2>1. IsWellFoundedOn(OpToRel(<, Nat), Nat)  BY NatLessThanWellFounded
  <2>2. \E x \in Nat \ S : \A y \in Nat \ S : ~(<<y, x>> \in OpToRel(<, Nat))
    BY <2>1, WFMin
  <2> QED BY <2>2 DEF OpToRel
<1>2. x - 1 \in Nat /\ x - 1 < x  BY <1>1
<1>3. x - 1 \in S  BY <1>1, <1>2
<1> QED BY <1>1, <1>2, <1>3

\* h[n] is the first n sequences of q put together.
Sums(B, q, n, h) ==
  /\ h \in [0..n -> Seq(B)]
  /\ h[0] = <<>>
  /\ \A i \in 1..n : h[i] = h[i - 1] \o q[i]

LEMMA SumsExist ==
  ASSUME NEW B, NEW q \in Seq(Seq(B))
  PROVE  \E h : Sums(B, q, Len(q), h)
<1> DEFINE S == {n \in Nat : n <= Len(q) => \E h : Sums(B, q, n, h)}
<1>0. Len(q) \in Nat  BY LenProperties
<1>1. 0 \in S
  <2> DEFINE h == [i \in 0..0 |-> <<>>]
  <2>1. <<>> \in Seq(B)  BY EmptySeq
  <2>2. Sums(B, q, 0, h)  BY <2>1 DEF Sums
  <2> HIDE DEF h
  <2>3. \E g : Sums(B, q, 0, g)  BY <2>2
  <2> QED BY <2>3
<1>2. ASSUME NEW n \in Nat, n \in S PROVE n + 1 \in S
  <2> SUFFICES ASSUME n + 1 <= Len(q) PROVE \E h : Sums(B, q, n + 1, h)
    OBVIOUS
  <2>1. PICK h : Sums(B, q, n, h)  BY <1>0, <1>2
  <2> DEFINE g == [i \in 0..(n + 1) |-> IF i = n + 1 THEN h[n] \o q[n + 1] ELSE h[i]]
  <2>2. n + 1 \in 1..Len(q) /\ n \in 0..n  BY <1>0
  <2>3. q[n + 1] \in Seq(B) /\ h[n] \in Seq(B)
    BY <2>1, <2>2, ElementOfSeq DEF Sums
  <2>4. h[n] \o q[n + 1] \in Seq(B)  BY <2>3, ConcatProperties
  <2>5. g \in [0..(n + 1) -> Seq(B)]
    <3>1. ASSUME NEW i \in 0..(n + 1) PROVE g[i] \in Seq(B)
      <4>1. i # n + 1 => i \in 0..n  OBVIOUS
      <4> QED BY <2>1, <2>4, <4>1 DEF Sums
    <3> QED BY <3>1
  <2>6. g[0] = <<>>  BY <2>1 DEF Sums
  <2>7. ASSUME NEW i \in 1..(n + 1) PROVE g[i] = g[i - 1] \o q[i]
    <3>1. CASE i = n + 1
      <4>1. i - 1 = n /\ n \in 0..(n + 1) /\ n + 1 \in 0..(n + 1) /\ n # n + 1  BY <3>1
      <4>2. g[n + 1] = h[n] \o q[n + 1] /\ g[n] = h[n]  BY <4>1
      <4> QED BY <3>1, <4>1, <4>2
    <3>2. CASE i # n + 1
      <4>1. i \in 1..n /\ i \in 0..(n + 1) /\ i - 1 \in 0..(n + 1) /\ i - 1 # n + 1
        BY <3>2
      <4>2. g[i] = h[i] /\ g[i - 1] = h[i - 1]  BY <3>2, <4>1
      <4> QED BY <2>1, <4>1, <4>2 DEF Sums
    <3> QED BY <3>1, <3>2
  <2> HIDE DEF g
  <2>8. Sums(B, q, n + 1, g)  BY <2>5, <2>6, <2>7 DEF Sums
  <2> QED BY <2>8
<1> HIDE DEF S
<1>3. Nat \subseteq S  BY <1>1, <1>2, Induction
<1>4. Len(q) \in S  BY <1>0, <1>3
<1> QED BY <1>0, <1>4 DEF S

\* FlattenSeq is the last of these sums.
LEMMA FlattenIsSum ==
  ASSUME NEW B, NEW q \in Seq(Seq(B)), NEW h, Sums(B, q, Len(q), h)
  PROVE  FlattenSeq(q) = h[Len(q)]
<1>0. Len(q) \in Nat  BY LenProperties
<1>1. CASE Len(q) = 0
  <2>1. q = <<>>  BY <1>1, EmptySeq
  <2>2. FlattenSeq(q) = q  BY <1>1 DEF FlattenSeq
  <2> QED BY <1>1, <2>1, <2>2 DEF Sums
<1>2. CASE Len(q) # 0
  <2> DEFINE Eq(f) == f = [i \in 1..Len(q) |-> IF i = 1 THEN q[i] ELSE f[i - 1] \o q[i]]
             g == [i \in 1..Len(q) |-> h[i]]
  <2>1. Eq(g)
    <3>1. ASSUME NEW i \in 1..Len(q)
          PROVE  g[i] = IF i = 1 THEN q[i] ELSE g[i - 1] \o q[i]
      <4>1. h[i] = h[i - 1] \o q[i] /\ g[i] = h[i]  BY DEF Sums
      <4>2. CASE i = 1
        <5>1. q[i] \in Seq(B)  BY ElementOfSeq
        <5>2. h[i - 1] = <<>>  BY <4>2 DEF Sums
        <5> QED BY <4>1, <4>2, <5>1, <5>2, ConcatEmptySeq
      <4>3. CASE i # 1
        <5>1. i - 1 \in 1..Len(q)  BY <4>3
        <5>2. g[i - 1] = h[i - 1]  BY <5>1
        <5> QED BY <4>1, <4>3, <5>2
      <4> QED BY <4>2, <4>3
    <3> QED BY <3>1
  <2> HIDE DEF g
  <2>2. PICK f : f = CHOOSE flatten : Eq(flatten)  OBVIOUS
  <2>3. Eq(f)  BY <2>1, <2>2, Zenon
  <2>4. FlattenSeq(q) = f[Len(q)]
    BY <1>2, <2>2, Zenon DEF FlattenSeq
  <2> DEFINE S == {n \in Nat : n + 1 <= Len(q) => f[n + 1] = h[n + 1]}
  <2>5. \A i \in 1..Len(q) : f[i] = IF i = 1 THEN q[i] ELSE f[i - 1] \o q[i]
    <3>1. f = [i \in 1..Len(q) |-> IF i = 1 THEN q[i] ELSE f[i - 1] \o q[i]]  BY <2>3
    <3> QED BY <3>1, Zenon
  <2>6. \A i \in 1..Len(q) : g[i] = IF i = 1 THEN q[i] ELSE g[i - 1] \o q[i]
    <3>1. g = [i \in 1..Len(q) |-> IF i = 1 THEN q[i] ELSE g[i - 1] \o q[i]]  BY <2>1
    <3> QED BY <3>1, Zenon
  <2>7. 0 \in S
    <3>1. 1 \in 1..Len(q)  BY <1>0, <1>2
    <3>2. f[1] = q[1] /\ g[1] = q[1]  BY <2>5, <2>6, <3>1
    <3>3. g[1] = h[1]  BY <3>1 DEF g
    <3> QED BY <3>2, <3>3
  <2>8. ASSUME NEW n \in Nat, n \in S PROVE n + 1 \in S
    <3> SUFFICES ASSUME (n + 1) + 1 <= Len(q) PROVE f[(n + 1) + 1] = h[(n + 1) + 1]
      OBVIOUS
    <3>1. /\ (n + 1) + 1 \in 1..Len(q) /\ (n + 1) + 1 # 1 /\ ((n + 1) + 1) - 1 = n + 1
          /\ n + 1 <= Len(q)
      BY <1>0
    <3>2. f[n + 1] = h[n + 1]  BY <2>8, <3>1
    <3>3. f[(n + 1) + 1] = f[n + 1] \o q[(n + 1) + 1]  BY <2>5, <3>1
    <3>4. h[(n + 1) + 1] = h[n + 1] \o q[(n + 1) + 1]  BY <3>1 DEF Sums
    <3> QED BY <3>2, <3>3, <3>4
  <2> HIDE DEF S
  <2>9. Nat \subseteq S  BY <2>7, <2>8, Induction
  <2>10. Len(q) - 1 \in S /\ (Len(q) - 1) + 1 = Len(q)
    <3>1. Len(q) - 1 \in Nat  BY <1>0, <1>2
    <3> QED BY <2>9, <3>1
  <2>11. f[Len(q)] = h[Len(q)]  BY <1>0, <2>10 DEF S
  <2> QED BY <2>4, <2>11
<1> QED BY <1>1, <1>2

LEMMA FlattenType ==
  ASSUME NEW B, NEW q \in Seq(Seq(B))
  PROVE  FlattenSeq(q) \in Seq(B)
<1>1. PICK h : Sums(B, q, Len(q), h)  BY SumsExist
<1>2. FlattenSeq(q) = h[Len(q)]  BY <1>1, FlattenIsSum
<1>3. Len(q) \in 0..Len(q)  BY LenProperties
<1> QED BY <1>1, <1>2, <1>3 DEF Sums

LEMMA FlattenEmpty == FlattenSeq(<<>>) = <<>>
BY EmptySeq DEF FlattenSeq

LEMMA FlattenConcat ==
  ASSUME NEW B, NEW u \in Seq(Seq(B)), NEW v \in Seq(Seq(B))
  PROVE  FlattenSeq(u \o v) = FlattenSeq(u) \o FlattenSeq(v)
<1>0. \A x, y, z \in Seq(B) : (x \o y) \o z = x \o (y \o z)
  BY ONLY SeqsAssociate, SMTT(30)
<1>1. PICK hu : Sums(B, u, Len(u), hu)  BY SumsExist
<1>2. PICK hv : Sums(B, v, Len(v), hv)  BY SumsExist
<1>3. PICK m, n, w : m = Len(u) /\ n = Len(v) /\ w = u \o v  OBVIOUS
<1>4. m \in Nat /\ n \in Nat  BY <1>3, LenProperties
<1>5. /\ w \in Seq(Seq(B)) /\ Len(w) = m + n
      /\ \A i \in 1..(m + n) : w[i] = IF i <= m THEN u[i] ELSE v[i - m]
  BY <1>3, ConcatProperties
<1>6. \A i \in 0..m : hu[i] \in Seq(B)  BY <1>1, <1>3 DEF Sums
<1>7. \A i \in 0..n : hv[i] \in Seq(B)  BY <1>2, <1>3 DEF Sums
<1> DEFINE h == [i \in 0..(m + n) |-> IF i <= m THEN hu[i] ELSE hu[m] \o hv[i - m]]
<1>8. h \in [0..(m + n) -> Seq(B)]
  <2>1. ASSUME NEW i \in 0..(m + n) PROVE h[i] \in Seq(B)
    <3>1. CASE i <= m
      <4>1. i \in 0..m  BY <1>4, <3>1
      <4> QED BY <1>6, <3>1, <4>1
    <3>2. CASE ~(i <= m)
      <4>1. m \in 0..m /\ i - m \in 0..n  BY <1>4, <3>2
      <4>2. hu[m] \in Seq(B) /\ hv[i - m] \in Seq(B)  BY <1>6, <1>7, <4>1
      <4>3. hu[m] \o hv[i - m] \in Seq(B)  BY <4>2, ConcatProperties
      <4> QED BY <3>2, <4>3
    <3> QED BY <3>1, <3>2
  <2> QED BY <2>1
<1>9. h[0] = <<>>  BY <1>1, <1>4 DEF Sums
<1>10. ASSUME NEW i \in 1..(m + n) PROVE h[i] = h[i - 1] \o w[i]
  <2>1. i \in 0..(m + n) /\ i - 1 \in 0..(m + n)  BY <1>4
  <2>2. CASE i <= m
    <3>1. i \in 1..m /\ i - 1 <= m  BY <1>4, <2>2
    <3>2. h[i] = hu[i] /\ h[i - 1] = hu[i - 1] /\ w[i] = u[i]
      BY <1>5, <2>1, <2>2, <3>1
    <3> QED BY <1>1, <1>3, <3>1, <3>2 DEF Sums
  <2>3. CASE ~(i <= m)
    <3>1. /\ i - m \in 1..n /\ (i - m) - 1 = (i - 1) - m
          /\ (i - m) - 1 \in 0..n /\ m \in 0..m
      BY <1>4, <2>3
    <3>2. h[i] = hu[m] \o hv[i - m] /\ w[i] = v[i - m]  BY <1>5, <2>1, <2>3
    <3>3. hv[i - m] = hv[(i - m) - 1] \o v[i - m]  BY <1>2, <1>3, <3>1 DEF Sums
    <3>4. h[i - 1] = hu[m] \o hv[(i - m) - 1]
      <4>1. CASE i - 1 <= m
        <5>1. i - 1 = m /\ (i - m) - 1 = 0  BY <1>4, <2>3, <4>1
        <5>2. h[i - 1] = hu[m]  BY <2>1, <4>1, <5>1
        <5>3. hv[(i - m) - 1] = <<>>  BY <1>2, <5>1 DEF Sums
        <5>4. hu[m] \in Seq(B)  BY <1>6, <3>1
        <5> QED BY <5>2, <5>3, <5>4, ConcatEmptySeq
      <4>2. CASE ~(i - 1 <= m)  BY <2>1, <3>1, <4>2
      <4> QED BY <4>1, <4>2
    <3>5. PICK a, b, c : a = hu[m] /\ b = hv[(i - m) - 1] /\ c = v[i - m]  OBVIOUS
    <3>6. a \in Seq(B) /\ b \in Seq(B) /\ c \in Seq(B)
      BY <1>3, <1>6, <1>7, <3>1, <3>5, ElementOfSeq
    <3>7. (a \o b) \o c = a \o (b \o c)  BY ONLY <3>6, <1>0, Zenon
    <3> QED BY <3>2, <3>3, <3>4, <3>5, <3>7, Zenon
  <2> QED BY <2>2, <2>3
<1>11. h[m + n] = hu[m] \o hv[n]
  <2>1. m + n \in 0..(m + n) /\ (m + n) - m = n /\ m \in 0..m  BY <1>4
  <2>2. CASE n = 0
    <3>1. h[m + n] = hu[m]  BY <1>4, <2>1, <2>2
    <3>2. hv[n] = <<>>  BY <1>2, <2>2 DEF Sums
    <3>3. hu[m] \in Seq(B)  BY <1>6, <2>1
    <3> QED BY <3>1, <3>2, <3>3, ConcatEmptySeq
  <2>3. CASE n # 0
    <3>1. ~(m + n <= m)  BY <1>4, <2>3
    <3> QED BY <2>1, <3>1
  <2> QED BY <2>2, <2>3
<1> HIDE DEF h
<1>12. Sums(B, w, Len(w), h)  BY <1>5, <1>8, <1>9, <1>10 DEF Sums
<1>13. FlattenSeq(w) = h[Len(w)]  BY <1>5, <1>12, FlattenIsSum
<1>14. FlattenSeq(u) = hu[m] /\ FlattenSeq(v) = hv[n]
  BY <1>1, <1>2, <1>3, FlattenIsSum
<1> QED BY <1>3, <1>5, <1>11, <1>13, <1>14

LEMMA FlattenOne ==
  ASSUME NEW B, NEW s \in Seq(B)
  PROVE  FlattenSeq(<<s>>) = s
<1> DEFINE h == [i \in 0..1 |-> IF i = 0 THEN <<>> ELSE s]
<1>1. <<s>> \in Seq(Seq(B)) /\ Len(<<s>>) = 1 /\ <<s>>[1] = s  OBVIOUS
<1>2. h \in [0..1 -> Seq(B)] /\ h[0] = <<>> /\ h[1] = s  BY EmptySeq
<1> HIDE DEF h
<1>3. \A i \in 1..1 : h[i] = h[i - 1] \o <<s>>[i]
  <2>1. <<>> \o s = s  BY ConcatEmptySeq
  <2>2. h[1] = h[1 - 1] \o <<s>>[1]  BY <1>1, <1>2, <2>1
  <2> QED BY <2>2
<1>4. Sums(B, <<s>>, Len(<<s>>), h)  BY <1>1, <1>2, <1>3 DEF Sums
<1>5. FlattenSeq(<<s>>) = h[Len(<<s>>)]  BY <1>1, <1>4, FlattenIsSum
<1> QED BY <1>1, <1>2, <1>5

----------------------------------------------------------------------------
(* The payload in a piece of the stream.                                     *)

\* What PayloadFor puts together.
CarriedSeq(fr, c, s) == [i \in 1..Len(s) |-> Carried(fr, c, s[i])]

LEMMA CarriedType ==
  ASSUME NEW B, NEW s \in Seq(B), NEW fr, NEW c
  PROVE  CarriedSeq(fr, c, s) \in Seq(Seq(B)) /\ Len(CarriedSeq(fr, c, s)) = Len(s)
<1>0. Len(s) \in Nat  BY LenProperties
<1>1. ASSUME NEW i \in 1..Len(s) PROVE Carried(fr, c, s[i]) \in Seq(B)
  <2>1. s[i] \in B  BY ElementOfSeq
  <2>2. <<s[i]>> \in Seq(B) /\ <<>> \in Seq(B)  BY <2>1, EmptySeq
  <2> QED BY <2>2, Zenon DEF Carried
<1> DEFINE q == CarriedSeq(fr, c, s)
<1>2. q \in [1..Len(s) -> Seq(B)]  BY <1>1 DEF CarriedSeq
<1>3. q \in Seq(Seq(B))  BY <1>0, <1>2, SeqDef
<1>4. Len(q) = Len(s)
  <2>1. DOMAIN q = 1..Len(s) /\ DOMAIN q = 1..Len(q) /\ Len(q) \in Nat
    BY <1>2, <1>3, LenProperties
  <2> HIDE DEF q
  <2> QED BY <1>0, <2>1
<1> QED BY <1>3, <1>4

LEMMA PayloadForType ==
  ASSUME NEW B, NEW s \in Seq(B), NEW fr, NEW c
  PROVE  PayloadFor(fr, c, s) \in Seq(B)
<1>1. CarriedSeq(fr, c, s) \in Seq(Seq(B))  BY CarriedType
<1>2. FlattenSeq(CarriedSeq(fr, c, s)) \in Seq(B)  BY <1>1, FlattenType
<1> QED BY <1>2 DEF PayloadFor, CarriedSeq

LEMMA PayloadConcat ==
  ASSUME NEW B, NEW s \in Seq(B), NEW t \in Seq(B), NEW fr, NEW c
  PROVE  PayloadFor(fr, c, s \o t) = PayloadFor(fr, c, s) \o PayloadFor(fr, c, t)
<1>1. PICK w, u, v, x :
        /\ w = s \o t
        /\ u = CarriedSeq(fr, c, s) /\ v = CarriedSeq(fr, c, t) /\ x = CarriedSeq(fr, c, w)
  OBVIOUS
<1>2. /\ w \in Seq(B) /\ Len(w) = Len(s) + Len(t)
      /\ \A i \in 1..(Len(s) + Len(t)) : w[i] = IF i <= Len(s) THEN s[i] ELSE t[i - Len(s)]
  BY <1>1, ConcatProperties
<1>3. /\ u \in Seq(Seq(B)) /\ Len(u) = Len(s)
      /\ v \in Seq(Seq(B)) /\ Len(v) = Len(t)
      /\ x \in Seq(Seq(B)) /\ Len(x) = Len(w)
  <2>1. u \in Seq(Seq(B)) /\ Len(u) = Len(s)  BY <1>1, CarriedType
  <2>2. v \in Seq(Seq(B)) /\ Len(v) = Len(t)  BY <1>1, CarriedType
  <2>3. x \in Seq(Seq(B)) /\ Len(x) = Len(w)  BY <1>1, <1>2, CarriedType
  <2> QED BY <2>1, <2>2, <2>3
<1>4. x = u \o v
  <2>a. /\ u \o v \in Seq(Seq(B)) /\ Len(u \o v) = Len(u) + Len(v)
        /\ \A i \in 1..(Len(u) + Len(v)) : (u \o v)[i] = IF i <= Len(u) THEN u[i] ELSE v[i - Len(u)]
    <3>1. u \in Seq(Seq(B)) /\ v \in Seq(Seq(B))  BY <1>3
    <3> QED BY ONLY <3>1, ConcatProperties
  <2>1. /\ u \o v \in Seq(Seq(B)) /\ Len(u \o v) = Len(x)
        /\ \A i \in 1..(Len(u) + Len(v)) : (u \o v)[i] = IF i <= Len(u) THEN u[i] ELSE v[i - Len(u)]
    BY <1>2, <1>3, <2>a
  <2>2. Len(s) \in Nat /\ Len(t) \in Nat  BY LenProperties
  <2>3. ASSUME NEW i \in 1..Len(x) PROVE x[i] = (u \o v)[i]
    <3>1. i \in 1..(Len(s) + Len(t)) /\ i \in 1..Len(w) /\ i \in 1..(Len(u) + Len(v))
      BY <1>2, <1>3
    <3>2. x[i] = Carried(fr, c, w[i])  BY <1>1, <3>1 DEF CarriedSeq
    <3>3. CASE i <= Len(s)
      <4>1. i \in 1..Len(s)  BY <2>2, <3>1, <3>3
      <4>2. u[i] = Carried(fr, c, s[i])  BY <1>1, <4>1 DEF CarriedSeq
      <4>3. w[i] = s[i] /\ (u \o v)[i] = u[i]  BY <1>2, <1>3, <2>1, <3>1, <3>3
      <4> QED BY <3>2, <4>2, <4>3
    <3>4. CASE ~(i <= Len(s))
      <4>1. i - Len(s) \in 1..Len(t)  BY <2>2, <3>1, <3>4
      <4>2. v[i - Len(s)] = Carried(fr, c, t[i - Len(s)])  BY <1>1, <4>1 DEF CarriedSeq
      <4>3. w[i] = t[i - Len(s)] /\ (u \o v)[i] = v[i - Len(s)]
        BY <1>2, <1>3, <2>1, <3>1, <3>4
      <4> QED BY <3>2, <4>2, <4>3
    <3> QED BY <3>3, <3>4
  <2> QED BY <1>3, <2>1, <2>3, SeqEqual
<1>5. FlattenSeq(x) = FlattenSeq(u) \o FlattenSeq(v)  BY <1>3, <1>4, FlattenConcat
<1>6. /\ PayloadFor(fr, c, s \o t) = FlattenSeq(x)
      /\ PayloadFor(fr, c, s) = FlattenSeq(u) /\ PayloadFor(fr, c, t) = FlattenSeq(v)
  BY <1>1 DEF PayloadFor, CarriedSeq
<1> QED BY <1>5, <1>6

\* Of a frame its addressee is carried the payload, the others nothing.
LEMMA PayloadOfFrame ==
  ASSUME NEW f \in Nat, NEW n \in Nat, NEW fr, NEW c
  PROVE  PayloadFor(fr, c, FrameBytes(f, n))
           = IF fr[f].id = c THEN Payload(FrameBytes(f, n)) ELSE <<>>
<1>1. PICK B, e, p, H, m :
        /\ B = {f} \X (Nat \ {0}) /\ e = FrameBytes(f, n) /\ p = Payload(e)
        /\ H = HdrSize /\ m = H + n
  OBVIOUS
<1>2. H \in Nat /\ m \in Nat /\ m >= H /\ m - H = n  BY <1>1 DEF HdrSize
<1>3. /\ e \in Seq(B) /\ Len(e) = m /\ \A k \in 1..m : e[k] = <<f, k>>
      /\ p \in Seq(B) /\ Len(p) = n /\ \A k \in 1..n : p[k] = <<f, H + k>>
  BY <1>1, FrameBytesType, PayloadType
<1>4. PICK q : q = CarriedSeq(fr, c, e)  OBVIOUS
<1>5. q \in Seq(Seq(B)) /\ Len(q) = m  BY <1>3, <1>4, CarriedType
<1>6. \A i \in 1..m : q[i] = IF i > H /\ fr[f].id = c THEN <<e[i]>> ELSE <<>>
  <2>1. ASSUME NEW i \in 1..m
        PROVE  q[i] = IF i > H /\ fr[f].id = c THEN <<e[i]>> ELSE <<>>
    <3>1. q[i] = Carried(fr, c, e[i])  BY <1>3, <1>4 DEF CarriedSeq
    <3>2. e[i][1] = f /\ e[i][2] = i  BY <1>3
    <3> QED BY <1>1, <3>1, <3>2, Zenon DEF Carried
  <2> QED BY <2>1
<1> DEFINE Part(j) == SubSeq(p, 1, j)
           h == [i \in 0..m |-> IF i > H /\ fr[f].id = c THEN Part(i - H) ELSE <<>>]
<1>7. /\ \A j \in 0..n : Part(j) \in Seq(B)
      /\ Part(0) = <<>> /\ Part(n) = p
      /\ \A j \in 1..n : Part(j) = Part(j - 1) \o <<p[j]>>
  <2>1. ASSUME NEW j \in 0..n PROVE Part(j) \in Seq(B)
    <3>1. j \in 0..Len(p) /\ 1 \in Nat \ {0}  BY <1>3
    <3> QED BY <1>3, <3>1, PieceType
  <2>2. Part(0) = <<>>  BY SubSeqEmpty
  <2>3. Part(n) = p  BY <1>3, SubSeqFull
  <2>4. ASSUME NEW j \in 1..n PROVE Part(j) = Part(j - 1) \o <<p[j]>>
    <3>1. j - 1 \in 0..n /\ j \in 0..n /\ j \in 1..Len(p)  BY <1>3
    <3>2. Part(j) \in Seq(B) /\ Part(j - 1) \in Seq(B) /\ p[j] \in B
      BY <1>3, <2>1, <3>1, ElementOfSeq
    <3>3. /\ Len(Part(j)) = j /\ \A i \in 1..j : Part(j)[i] = p[i]
      <4>1. /\ Len(Part(j)) = IF 1 <= j THEN j - 1 + 1 ELSE 0
            /\ \A i \in 1..(j - 1 + 1) : Part(j)[i] = p[1 + i - 1]
        <5>1. 1 \in Nat \ {0} /\ j \in 0..Len(p)  BY <1>3, <3>1
        <5> QED BY <1>3, <5>1, PieceType
      <4> HIDE DEF Part
      <4> QED BY <4>1
    <3>4. /\ Len(Part(j - 1)) = j - 1 /\ \A i \in 1..(j - 1) : Part(j - 1)[i] = p[i]
      <4>1. PICK k : k = j - 1  OBVIOUS
      <4>2. k \in Nat /\ k \in 0..Len(p) /\ 1 \in Nat \ {0}  BY <1>3, <3>1, <4>1
      <4>3. /\ Len(Part(k)) = IF 1 <= k THEN k - 1 + 1 ELSE 0
            /\ \A i \in 1..(k - 1 + 1) : Part(k)[i] = p[1 + i - 1]
        BY <1>3, <4>2, PieceType
      <4> HIDE DEF Part
      <4>4. Len(Part(k)) = k /\ \A i \in 1..k : Part(k)[i] = p[i]  BY <4>2, <4>3
      <4> QED BY <4>1, <4>4
    <3> HIDE DEF Part
    <3>5. PICK a, b, x : a = Part(j) /\ b = Part(j - 1) /\ x = p[j]  OBVIOUS
    <3>6. /\ a \in Seq(B) /\ b \in Seq(B) /\ x \in B /\ Len(a) = j /\ Len(b) = j - 1
          /\ \A i \in 1..j : a[i] = p[i]
          /\ \A i \in 1..(j - 1) : b[i] = p[i]
      BY <3>2, <3>3, <3>4, <3>5
    <3>7. <<x>> \in Seq(B) /\ Len(<<x>>) = 1 /\ <<x>>[1] = x  BY <3>6
    <3>8. PICK y : y = b \o <<x>>  OBVIOUS
    <3>9. /\ y \in Seq(B) /\ Len(y) = j
          /\ \A i \in 1..j : y[i] = IF i <= j - 1 THEN b[i] ELSE <<x>>[i - (j - 1)]
      BY <3>6, <3>7, <3>8, ConcatProperties
    <3>10. ASSUME NEW i \in 1..Len(a) PROVE a[i] = y[i]
      <4>1. i \in 1..j  BY <3>6
      <4>2. CASE i <= j - 1
        <5>1. i \in 1..(j - 1)  BY <4>1, <4>2
        <5> QED BY <3>6, <3>9, <4>1, <4>2, <5>1
      <4>3. CASE ~(i <= j - 1)
        <5>1. i = j /\ i - (j - 1) = 1  BY <4>1, <4>3
        <5>2. y[i] = <<x>>[1]  BY <3>9, <4>1, <4>3, <5>1
        <5> QED BY <3>5, <3>6, <3>7, <4>1, <5>1, <5>2
      <4> QED BY <4>2, <4>3
    <3>11. a = y  BY <3>6, <3>9, <3>10, SeqEqual
    <3> QED BY <3>5, <3>8, <3>11
  <2> HIDE DEF Part
  <2> QED BY <2>1, <2>2, <2>3, <2>4
<1> HIDE DEF Part
<1>8. h \in [0..m -> Seq(B)]
  <2>1. ASSUME NEW i \in 0..m PROVE h[i] \in Seq(B)
    <3>1. <<>> \in Seq(B)  BY EmptySeq
    <3>2. i > H => i - H \in 0..n  BY <1>2
    <3> QED BY <1>7, <3>1, <3>2
  <2> QED BY <2>1
<1>9. h[0] = <<>>
  <2>1. 0 \in 0..m /\ ~(0 > H)  BY <1>2
  <2> QED BY <2>1
<1>10. ASSUME NEW i \in 1..m PROVE h[i] = h[i - 1] \o q[i]
  <2>1. i \in 0..m /\ i - 1 \in 0..m  BY <1>2
  <2>2. CASE ~(i > H /\ fr[f].id = c)
    <3>1. ~(i - 1 > H /\ fr[f].id = c)  BY <1>2, <2>2
    <3>2. h[i] = <<>> /\ h[i - 1] = <<>> /\ q[i] = <<>>  BY <1>6, <2>1, <2>2, <3>1
    <3>3. <<>> \o <<>> = <<>>
      <4>1. <<>> \in Seq(B)  BY EmptySeq
      <4> QED BY <4>1, ConcatEmptySeq
    <3> QED BY <3>2, <3>3
  <2>3. CASE i > H /\ fr[f].id = c
    <3>1. /\ i - H \in 1..n /\ (i - H) - 1 = (i - 1) - H
          /\ H + (i - H) = i
          /\ ~(i - 1 > H) => (i - H) - 1 = 0
      BY <1>2, <2>3
    <3>2. h[i] = Part(i - H) /\ q[i] = <<e[i]>>  BY <1>6, <2>1, <2>3
    <3>3. e[i] = p[i - H]  BY <1>3, <3>1
    <3>4. h[i - 1] = Part((i - H) - 1)
      <4>1. CASE i - 1 > H  BY <2>1, <2>3, <3>1, <4>1
      <4>2. CASE ~(i - 1 > H)
        <5>1. h[i - 1] = <<>>  BY <2>1, <4>2
        <5> QED BY <1>7, <3>1, <4>2, <5>1
      <4> QED BY <4>1, <4>2
    <3>5. Part(i - H) = Part((i - H) - 1) \o <<p[i - H]>>  BY <1>7, <3>1
    <3> QED BY <3>2, <3>3, <3>4, <3>5
  <2> QED BY <2>2, <2>3
<1>11. h[m] = IF fr[f].id = c THEN p ELSE <<>>
  <2>1. m \in 0..m  BY <1>2
  <2>2. CASE m > H  BY <1>2, <1>7, <2>1, <2>2
  <2>3. CASE ~(m > H)
    <3>1. n = 0  BY <1>2, <2>3
    <3>2. h[m] = <<>>  BY <2>1, <2>3
    <3> QED BY <1>7, <3>1, <3>2
  <2> QED BY <2>2, <2>3
<1> HIDE DEF h
<1>12. Sums(B, q, Len(q), h)  BY <1>5, <1>8, <1>9, <1>10 DEF Sums
<1>13. FlattenSeq(q) = h[m]  BY <1>5, <1>12, FlattenIsSum
<1> QED BY <1>1, <1>4, <1>11, <1>13 DEF PayloadFor, CarriedSeq

\* More frames do not change what the bytes already there are.
LEMMA PayloadKept ==
  ASSUME NEW fr, NEW gr, NEW s \in Seq(BytesOf(fr)), NEW c,
         \A f \in 1..Len(fr) : gr[f] = fr[f]
  PROVE  PayloadFor(gr, c, s) = PayloadFor(fr, c, s)
<1>1. ASSUME NEW i \in 1..Len(s) PROVE Carried(gr, c, s[i]) = Carried(fr, c, s[i])
  <2>1. s[i][1] \in 1..Len(fr)  BY ByteType
  <2>2. gr[s[i][1]] = fr[s[i][1]]  BY <2>1
  <2> QED BY <2>2, Zenon DEF Carried
<1>2. [i \in 1..Len(s) |-> Carried(gr, c, s[i])] = [i \in 1..Len(s) |-> Carried(fr, c, s[i])]
  BY <1>1
<1> QED BY <1>2, Zenon DEF PayloadFor

LEMMA PrefixOfConcat ==
  ASSUME NEW B, NEW s \in Seq(B), NEW t \in Seq(B)
  PROVE  IsPrefix(s, s \o t)
<1>1. PICK m, w : m = Len(s) /\ w = s \o t  OBVIOUS
<1>2. /\ m \in Nat /\ Len(t) \in Nat /\ w \in Seq(B) /\ Len(w) = m + Len(t)
      /\ \A i \in 1..(m + Len(t)) : w[i] = IF i <= m THEN s[i] ELSE t[i - m]
  BY <1>1, ConcatProperties, LenProperties
<1>3. m <= Len(w)  BY <1>2
<1>4. SubSeq(w, 1, m) = s
  <2>1. PICK v : v = SubSeq(w, 1, m)  OBVIOUS
  <2>2. 1 \in Nat \ {0} /\ m \in 0..Len(w)  BY <1>2, <1>3
  <2>3. /\ v \in Seq(B) /\ Len(v) = (IF 1 <= m THEN m - 1 + 1 ELSE 0)
        /\ \A i \in 1..(m - 1 + 1) : v[i] = w[1 + i - 1]
    BY <1>2, <2>1, <2>2, PieceType
  <2>4. Len(v) = m /\ \A i \in 1..m : v[i] = s[i]  BY <1>2, <2>3
  <2>5. v = s  BY <1>1, <2>3, <2>4, SeqEqual
  <2> QED BY <2>1, <2>5
<1>5. SubSeq(s, 1, Len(s)) = s  BY SubSeqFull
<1> QED BY <1>1, <1>3, <1>4, <1>5 DEF IsPrefix

----------------------------------------------------------------------------
(* Nothing is lost on the way from the socket to the caller.                 *)

LEMMA HeldType ==
  ASSUME TypeOK, NEW c \in Conn
  PROVE  /\ got[c] \in Seq(Byte)
         /\ FlattenSeq(queue[c]) \in Seq(Byte)
         /\ PayloadFor(frames, c, Undispatched) \in Seq(Byte)
         /\ HeldFor(c) \in Seq(Byte)
<1>1. got[c] \in Seq(Byte) /\ queue[c] \in Seq(Seq(Byte))  BY DEF TypeOK
<1>2. FlattenSeq(queue[c]) \in Seq(Byte)  BY <1>1, FlattenType
<1>3. PayloadFor(frames, c, Undispatched) \in Seq(Byte)
  <2>1. Undispatched \in Seq(Byte)  BY UndispatchedType
  <2> QED BY <2>1, PayloadForType
<1>4. PICK a, b, d : a = got[c] /\ b = FlattenSeq(queue[c])
                     /\ d = PayloadFor(frames, c, Undispatched)
  OBVIOUS
<1>5. a \in Seq(Byte) /\ b \in Seq(Byte) /\ d \in Seq(Byte)  BY <1>1, <1>2, <1>3, <1>4
<1>6. a \o b \in Seq(Byte)  BY <1>5, ConcatProperties
<1>7. (a \o b) \o d \in Seq(Byte)  BY <1>5, <1>6, ConcatProperties
<1> QED BY <1>1, <1>2, <1>3, <1>4, <1>7 DEF HeldFor

\* A frame sent is held for its addressee, undispatched.
LEMMA HeldSend ==
  ASSUME TypeOK, NEW d \in Conn, NEW n \in FrameSizes, ServerSend(d, n),
         NEW c \in Conn, HeldFor(c) = sent[c]
  PROVE  HeldFor(c)' = sent'[c]
<1>1. PICK F, fr, gr, s, t, e, p :
        /\ F = Len(frames) + 1 /\ fr = frames /\ gr = frames'
        /\ s = Undispatched /\ t = Undispatched'
        /\ e = FrameBytes(F, n) /\ p = Payload(e)
  OBVIOUS
<1>2. /\ fr \in Seq([id : Conn, size : FrameSizes]) /\ Len(fr) \in Nat /\ F = Len(fr) + 1
      /\ F \in Nat /\ n \in Nat
  BY <1>1, SizesAssumption, LenProperties DEF TypeOK
<1>3. gr = Append(fr, [id |-> d, size |-> n])  BY <1>1 DEF ServerSend
<1>4. gr[F].id = d /\ \A f \in 1..Len(fr) : gr[f] = fr[f]
  <2>1. [id |-> d, size |-> n] \in [id : Conn, size : FrameSizes]  OBVIOUS
  <2>2. gr[F] = [id |-> d, size |-> n] /\ \A f \in 1..Len(fr) : gr[f] = fr[f]
    BY <1>2, <1>3, <2>1, AppendProperties
  <2> QED BY <2>2
<1>5. s \in Seq(BytesOf(fr))  BY <1>1, UndispatchedType DEF Byte
<1>6. PICK B : B = BytesOf(gr)  OBVIOUS
<1>7. s \in Seq(B) /\ e \in Seq(B) /\ p \in Seq(B)
  <2>1. Len(gr) = F  BY <1>2, <1>3
  <2>2. BytesOf(fr) \subseteq B /\ {F} \X (Nat \ {0}) \subseteq B
    BY <1>2, <1>6, <2>1 DEF BytesOf
  <2>3. s \in Seq(B)  BY <1>5, <2>2, SeqMonotonic
  <2>4. e \in Seq({F} \X (Nat \ {0}))  BY <1>1, <1>2, FrameBytesType
  <2>5. p \in Seq({F} \X (Nat \ {0}))  BY <1>1, <1>2, PayloadType
  <2> QED BY <2>2, <2>3, <2>4, <2>5, SeqMonotonic
<1>8. t = s \o e  BY <1>1, SendAppends
<1>9. PayloadFor(gr, c, t) = PayloadFor(gr, c, s) \o PayloadFor(gr, c, e)
  BY <1>7, <1>8, PayloadConcat
<1>10. PayloadFor(gr, c, s) = PayloadFor(fr, c, s)  BY <1>4, <1>5, PayloadKept
<1>11. PayloadFor(gr, c, e) = IF d = c THEN p ELSE <<>>
  <2>1. PayloadFor(gr, c, e) = IF gr[F].id = c THEN p ELSE <<>>
    BY <1>1, <1>2, PayloadOfFrame
  <2> QED BY <1>4, <2>1
<1>12. PICK g, q, x, y :
         /\ g = got[c] /\ q = FlattenSeq(queue[c]) /\ x = PayloadFor(fr, c, s)
         /\ y = PayloadFor(gr, c, e)
  OBVIOUS
<1>13. /\ HeldFor(c) = (g \o q) \o x
       /\ HeldFor(c)' = (g \o q) \o (x \o y)
  <2>1. UNCHANGED <<got, queue>>  BY DEF ServerSend
  <2> QED BY <1>1, <1>9, <1>10, <1>12, <2>1 DEF HeldFor
<1>14. g \o q \in Seq(B) /\ x \in Seq(B) /\ y \in Seq(B)
  <2>1. Byte \subseteq B
    <3>1. Len(gr) = F  BY <1>2, <1>3
    <3> QED BY <1>1, <1>2, <1>6, <3>1 DEF Byte, BytesOf
  <2>2. g \in Seq(Byte) /\ q \in Seq(Byte)  BY <1>12, HeldType
  <2>3. g \in Seq(B) /\ q \in Seq(B)  BY <2>1, <2>2, SeqMonotonic
  <2>4. g \o q \in Seq(B)  BY <2>3, ConcatProperties
  <2>5. PayloadFor(gr, c, s) \in Seq(B) /\ PayloadFor(gr, c, e) \in Seq(B)
    BY <1>7, PayloadForType
  <2> QED BY <1>10, <1>12, <2>4, <2>5
<1>15. HeldFor(c)' = sent[c] \o y
  <2>1. (((g \o q) \o x) \o y) = (g \o q) \o (x \o y)
    <3>1. PICK w : w = g \o q  OBVIOUS
    <3>2. w \in Seq(B) /\ x \in Seq(B) /\ y \in Seq(B)  BY <1>14, <3>1
    <3>3. (w \o x) \o y = w \o (x \o y)  BY ONLY <3>2, SeqsAssociate
    <3> QED BY <3>1, <3>3
  <2> QED BY <1>13, <2>1
<1>16. sent'[c] = IF d = c THEN sent[c] \o p ELSE sent[c]
  BY <1>1 DEF ServerSend, TypeOK
<1>17. sent[c] \in Seq(Byte)  BY DEF TypeOK
<1>18. sent[c] \o <<>> = sent[c]  BY <1>17, ConcatEmptySeq
<1> QED BY <1>11, <1>12, <1>15, <1>16, <1>18

\* A server that closes cuts off the end of what is undispatched.
LEMMA HeldClose ==
  ASSUME TypeOK, ServerClose, NEW c \in Conn
  PROVE  IsPrefix(HeldFor(c)', HeldFor(c))
<1>1. PICK s, t, r, n :
        /\ s = Undispatched /\ t = Undispatched' /\ n = Len(t)
        /\ r = SubSeq(s, n + 1, Len(s))
  OBVIOUS
<1>2. /\ s \in Seq(Byte) /\ t \in Seq(Byte) /\ n <= Len(s)
      /\ \A i \in 1..n : t[i] = s[i]
  BY <1>1, CloseCuts, UndispatchedType
<1>3. n \in Nat /\ Len(s) \in Nat  BY <1>1, <1>2, LenProperties
<1>4. s = t \o r /\ r \in Seq(Byte)
  <2>1. PICK u : u = SubSeq(s, 1, n)  OBVIOUS
  <2>2. 1 \in Nat \ {0} /\ n \in 0..Len(s) /\ n + 1 \in Nat \ {0} /\ Len(s) \in 0..Len(s)
    BY <1>2, <1>3
  <2>3. /\ u \in Seq(Byte) /\ Len(u) = (IF 1 <= n THEN n - 1 + 1 ELSE 0)
        /\ \A i \in 1..(n - 1 + 1) : u[i] = s[1 + i - 1]
    BY <1>2, <2>1, <2>2, PieceType
  <2>4. r \in Seq(Byte)  BY <1>1, <1>2, <2>2, PieceType
  <2>5. Len(u) = n /\ \A i \in 1..n : u[i] = t[i]  BY <1>2, <1>3, <2>3
  <2>6. u = t  BY <1>1, <1>2, <2>3, <2>5, SeqEqual
  <2>7. SubSeq(s, 1, n) \o SubSeq(s, n + 1, Len(s)) = SubSeq(s, 1, Len(s))
    <3>1. 1 \in 1..(Len(s) + 1) /\ n \in (1 - 1)..Len(s) /\ Len(s) \in n..Len(s)
      BY <1>2, <1>3
    <3> QED BY <1>2, <3>1, ConcatAdjacentSubSeq
  <2>8. SubSeq(s, 1, Len(s)) = s  BY <1>2, SubSeqFull
  <2> QED BY <1>1, <2>1, <2>4, <2>6, <2>7, <2>8
<1>5. PICK a, x, y : /\ a = got[c] \o FlattenSeq(queue[c])
                     /\ x = PayloadFor(frames, c, t) /\ y = PayloadFor(frames, c, r)
  OBVIOUS
<1>6. a \in Seq(Byte) /\ x \in Seq(Byte) /\ y \in Seq(Byte)
  <2>1. a \in Seq(Byte)  BY <1>5, HeldType, ConcatProperties
  <2>2. x \in Seq(Byte) /\ y \in Seq(Byte)  BY <1>2, <1>4, <1>5, PayloadForType
  <2> QED BY <2>1, <2>2
<1>7. HeldFor(c)' = a \o x
  <2>1. UNCHANGED <<frames, got, queue>>  BY DEF ServerClose
  <2> QED BY <1>1, <1>5, <2>1 DEF HeldFor
<1>8. HeldFor(c) = a \o (x \o y)
  <2>1. PayloadFor(frames, c, s) = x \o y
    <3>1. PayloadFor(frames, c, t \o r) = PayloadFor(frames, c, t) \o PayloadFor(frames, c, r)
      BY <1>2, <1>4, PayloadConcat
    <3> QED BY <1>4, <1>5, <3>1
  <2> QED BY <1>1, <1>5, <2>1 DEF HeldFor
<1>9. a \o (x \o y) = (a \o x) \o y  BY ONLY <1>6, BytesAssociate, Zenon
<1>10. a \o x \in Seq(Byte)  BY <1>6, ConcatProperties
<1>11. IsPrefix(a \o x, (a \o x) \o y)  BY <1>6, <1>10, PrefixOfConcat
<1> QED BY <1>7, <1>8, <1>9, <1>11

\* A frame dispatched moves its payload from the network to the queue.
LEMMA HeldDispatch ==
  ASSUME TypeOK, SharingInv, FrameAligned, NEW b \in Conn, DispatchFrame(b), NEW c \in Conn
  PROVE  HeldFor(c)' = HeldFor(c)
<1>1. PICK f, p : FrameTaken(f, p)  BY DispatchTakes
<1>2. PICK s, t, n, m, e : /\ s = Undispatched /\ t = Undispatched' /\ n = FrameEnd(frames, f)
                           /\ m = frames[f].size /\ e = FrameBytes(f, m)
  OBVIOUS
<1>3. /\ s \in Seq(Byte) /\ t \in Seq(Byte) /\ p \in Seq(Byte)
      /\ Len(s) \in Nat /\ Len(t) \in Nat
  BY <1>1, <1>2, UndispatchedType, LenProperties DEF FrameTaken
<1>4. f \in Nat /\ m \in Nat /\ f \in 1..Len(frames) /\ n = HdrSize + m /\ n \in Nat /\ n <= Len(s)
  <2>1. f \in 1..Len(frames) /\ Len(frames) \in Nat /\ frames \in Frames
    BY <1>1, LenProperties DEF FrameTaken, TypeOK, Frames
  <2>2. frames[f] \in [id : Conn, size : FrameSizes]  BY <2>1, ElementOfSeq DEF Frames
  <2>3. m \in Nat  BY <1>2, <2>2, SizesAssumption
  <2> QED BY <1>1, <1>2, <2>1, <2>3 DEF FrameTaken
<1>5. /\ e \in Seq(Byte) /\ Len(e) = n /\ \A k \in 1..n : e[k] = <<f, k>>
  <2>1. /\ e \in Seq({f} \X (Nat \ {0})) /\ Len(e) = HdrSize + m
        /\ \A k \in 1..(HdrSize + m) : e[k] = <<f, k>>
    BY <1>2, <1>4, FrameBytesType
  <2>2. {f} \X (Nat \ {0}) \subseteq Byte  BY <1>4 DEF Byte, BytesOf
  <2>3. e \in Seq(Byte)  BY <2>1, <2>2, SeqMonotonic
  <2> QED BY <1>4, <2>1, <2>3
<1>6. s = e \o t
  <2>1. /\ e \o t \in Seq(Byte) /\ Len(e \o t) = n + Len(t)
        /\ \A i \in 1..(n + Len(t)) : (e \o t)[i] = IF i <= n THEN e[i] ELSE t[i - n]
    <3>1. /\ e \o t \in Seq(Byte) /\ Len(e \o t) = Len(e) + Len(t)
          /\ \A i \in 1..(Len(e) + Len(t)) : (e \o t)[i] = IF i <= Len(e) THEN e[i] ELSE t[i - Len(e)]
      BY <1>3, <1>5, ConcatProperties
    <3> QED BY <1>5, <3>1, Zenon
  <2>2. /\ Len(t) = Len(s) - n /\ \A i \in 1..Len(t) : t[i] = s[n + i]
        /\ \A k \in 1..n : s[k] = <<f, k>>
    BY <1>1, <1>2 DEF FrameTaken
  <2>3. Len(s) = Len(e \o t)  BY <1>3, <1>4, <2>1, <2>2
  <2>4. ASSUME NEW i \in 1..Len(s) PROVE s[i] = (e \o t)[i]
    <3>1. i \in 1..(n + Len(t))  BY <2>1, <2>3
    <3>2. CASE i <= n
      <4>1. i \in 1..n  BY <1>4, <3>1, <3>2
      <4> QED BY <1>5, <2>1, <2>2, <3>1, <3>2, <4>1
    <3>3. CASE ~(i <= n)
      <4>1. i - n \in 1..Len(t) /\ n + (i - n) = i  BY <1>3, <1>4, <3>1, <3>3
      <4>2. t[i - n] = s[i]  BY <2>2, <4>1
      <4> QED BY <2>1, <3>1, <3>3, <4>2
    <3> QED BY <3>2, <3>3
  <2> QED BY <1>3, <2>1, <2>3, <2>4, SeqEqual
<1>7. p = Payload(e)
  <2>1. PICK z : z = Payload(e)  OBVIOUS
  <2>2. /\ z \in Seq({f} \X (Nat \ {0})) /\ Len(z) = m
        /\ \A k \in 1..m : z[k] = <<f, HdrSize + k>>
    BY <1>2, <1>4, <2>1, PayloadType
  <2>3. {f} \X (Nat \ {0}) \subseteq Byte  BY <1>4 DEF Byte, BytesOf
  <2>4. z \in Seq(Byte)  BY <2>2, <2>3, SeqMonotonic
  <2>5. Len(p) = m /\ \A k \in 1..Len(p) : p[k] = <<f, HdrSize + k>>
    BY <1>1, <1>2 DEF FrameTaken
  <2>6. p = z  BY <1>3, <2>2, <2>4, <2>5, SeqEqual
  <2> QED BY <2>1, <2>6
<1>8. PICK a, q, x, y : /\ a = got[c] /\ q = queue[c]
                        /\ x = PayloadFor(frames, c, e) /\ y = PayloadFor(frames, c, t)
  OBVIOUS
<1>9. x = IF frames[f].id = c THEN p ELSE <<>>
  <2>1. PayloadFor(frames, c, FrameBytes(f, m))
          = IF frames[f].id = c THEN Payload(FrameBytes(f, m)) ELSE <<>>
    BY <1>4, PayloadOfFrame
  <2> QED BY <1>2, <1>7, <1>8, <2>1, Zenon
<1>10. HeldFor(c) = (a \o FlattenSeq(q)) \o (x \o y)
  <2>1. PayloadFor(frames, c, e \o t) = PayloadFor(frames, c, e) \o PayloadFor(frames, c, t)
    <3>1. e \in Seq(Byte) /\ t \in Seq(Byte)  BY <1>3, <1>5
    <3> QED BY ONLY <3>1, PayloadConcat
  <2> QED BY <1>2, <1>6, <1>8, <2>1 DEF HeldFor
<1>11. HeldFor(c)' = (a \o FlattenSeq(queue'[c])) \o y
  <2>1. UNCHANGED <<frames, got>>  BY <1>1 DEF FrameTaken
  <2> QED BY <1>2, <1>8, <2>1 DEF HeldFor
<1>12. FlattenSeq(queue'[c]) = FlattenSeq(q) \o x
  <2>1. queue'[c] = IF c = frames[f].id THEN Append(q, p) ELSE q
    BY <1>1, <1>8 DEF FrameTaken
  <2>2. q \in Seq(Seq(Byte))  BY <1>8 DEF TypeOK
  <2>3. CASE frames[f].id = c
    <3>1. <<p>> \in Seq(Seq(Byte)) /\ Append(q, p) = q \o <<p>>
      BY <1>3, <2>2, AppendIsConcat
    <3>2. FlattenSeq(q \o <<p>>) = FlattenSeq(q) \o FlattenSeq(<<p>>)
      BY <2>2, <3>1, FlattenConcat
    <3>3. FlattenSeq(<<p>>) = p  BY <1>3, FlattenOne
    <3> QED BY <1>9, <2>1, <2>3, <3>1, <3>2, <3>3
  <2>4. CASE frames[f].id # c
    <3>1. FlattenSeq(q) \in Seq(Byte)  BY <2>2, FlattenType
    <3>2. FlattenSeq(q) \o <<>> = FlattenSeq(q)  BY <3>1, ConcatEmptySeq
    <3> QED BY <1>9, <2>1, <2>4, <3>2
  <2> QED BY <2>3, <2>4
<1>13. (a \o (FlattenSeq(q) \o x)) \o y = (a \o FlattenSeq(q)) \o (x \o y)
  <2>1. PICK h : h = FlattenSeq(q)  OBVIOUS
  <2>2. a \in Seq(Byte) /\ h \in Seq(Byte) /\ x \in Seq(Byte) /\ y \in Seq(Byte)
    <3>1. a \in Seq(Byte) /\ h \in Seq(Byte)  BY <1>8, <2>1, HeldType
    <3>2. x \in Seq(Byte) /\ y \in Seq(Byte)  BY <1>3, <1>5, <1>8, PayloadForType
    <3> QED BY <3>1, <3>2
  <2>a. a \in Seq(Byte) /\ h \in Seq(Byte) /\ x \in Seq(Byte)  BY <2>2
  <2>3. a \o (h \o x) = (a \o h) \o x  BY ONLY <2>a, BytesAssociate, Zenon
  <2>4. PICK w : w = a \o h  OBVIOUS
  <2>5. w \in Seq(Byte)  BY <2>2, <2>4, ConcatProperties
  <2>b. w \in Seq(Byte) /\ x \in Seq(Byte) /\ y \in Seq(Byte)  BY <2>2, <2>5
  <2>6. (w \o x) \o y = w \o (x \o y)  BY ONLY <2>b, BytesAssociate, Zenon
  <2> QED BY <2>1, <2>3, <2>4, <2>6
<1> QED BY <1>10, <1>11, <1>12, <1>13

\* A receive moves the bytes it returns from the queue to the caller, and what
\* is left of the chunk stays where it was.
LEMMA HeldPop ==
  ASSUME TypeOK, NEW c \in Conn, PopChunk(c)
  PROVE  HeldFor(c)' = HeldFor(c)
<1>1. PICK q, h, w, u, r, z :
        /\ q = queue[c] /\ h = Head(q) /\ w = want[c] /\ z = Tail(q)
        /\ u = SubSeq(h, 1, w) /\ r = SubSeq(h, w + 1, Len(h))
  OBVIOUS
<1>2. q \in Seq(Seq(Byte)) /\ q # <<>> /\ got[c] \in Seq(Byte)
  BY <1>1 DEF TypeOK, PopChunk
<1>3. /\ h \in Seq(Byte) /\ Len(h) \in Nat /\ z \in Seq(Seq(Byte)) /\ q = <<h>> \o z
  <2>1. h \in Seq(Byte) /\ z \in Seq(Seq(Byte))  BY <1>1, <1>2, HeadTailProperties
  <2>2. q = <<h>> \o z
    <3>1. /\ Len(z) = Len(q) - 1 /\ \A i \in 1..Len(z) : z[i] = q[i + 1]
          /\ Len(q) \in Nat /\ Len(q) >= 1 /\ q[1] = h
      <4>1. Len(q) \in Nat \ {0}  BY <1>2, EmptySeq
      <4> QED BY <1>1, <1>2, <4>1, HeadTailProperties
    <3>2. <<h>> \in Seq(Seq(Byte)) /\ Len(<<h>>) = 1 /\ <<h>>[1] = h  BY <2>1
    <3>3. PICK x : x = <<h>> \o z  OBVIOUS
    <3>4. /\ x \in Seq(Seq(Byte)) /\ Len(x) = 1 + Len(z)
          /\ \A i \in 1..(1 + Len(z)) : x[i] = IF i <= 1 THEN <<h>>[i] ELSE z[i - 1]
      BY <2>1, <3>2, <3>3, ConcatProperties
    <3>5. Len(x) = Len(q)  BY <3>1, <3>4
    <3>6. ASSUME NEW i \in 1..Len(q) PROVE q[i] = x[i]
      <4>1. i \in 1..(1 + Len(z))  BY <3>4, <3>5
      <4>2. CASE i <= 1
        <5>1. i = 1  BY <4>2
        <5> QED BY <3>1, <3>2, <3>4, <4>1, <5>1
      <4>3. CASE ~(i <= 1)
        <5>1. i - 1 \in 1..Len(z) /\ (i - 1) + 1 = i  BY <3>1, <4>1, <4>3
        <5> QED BY <3>1, <3>4, <4>1, <4>3, <5>1
      <4> QED BY <4>2, <4>3
    <3>7. q = x  BY <1>2, <3>4, <3>5, <3>6, SeqEqual
    <3> QED BY <3>3, <3>7
  <2> QED BY <2>1, <2>2, LenProperties
<1>4. w \in Nat /\ w <= Len(h)  BY <1>1, WantType DEF PopChunk
<1>5. u \in Seq(Byte) /\ r \in Seq(Byte) /\ h = u \o r
  <2>1. /\ 1 \in Nat \ {0} /\ w \in 0..Len(h) /\ w + 1 \in Nat \ {0} /\ Len(h) \in 0..Len(h)
        /\ 1 \in 1..(Len(h) + 1) /\ w \in (1 - 1)..Len(h) /\ Len(h) \in w..Len(h)
    BY <1>3, <1>4
  <2>2. u \in Seq(Byte) /\ r \in Seq(Byte)  BY <1>1, <1>3, <2>1, PieceType
  <2>3. SubSeq(h, 1, w) \o SubSeq(h, w + 1, Len(h)) = SubSeq(h, 1, Len(h))
    BY <1>3, <2>1, ConcatAdjacentSubSeq
  <2>4. SubSeq(h, 1, Len(h)) = h  BY <1>3, SubSeqFull
  <2> QED BY <1>1, <2>2, <2>3, <2>4
<1>6. FlattenSeq(q) = h \o FlattenSeq(z)
  <2>1. <<h>> \in Seq(Seq(Byte))  BY <1>3
  <2>2. FlattenSeq(<<h>> \o z) = FlattenSeq(<<h>>) \o FlattenSeq(z)
    BY <1>3, <2>1, FlattenConcat
  <2>3. FlattenSeq(<<h>>) = h  BY <1>3, FlattenOne
  <2> QED BY <1>3, <2>2, <2>3
<1>7. FlattenSeq(PutBack(r, z)) = r \o FlattenSeq(z)
  <2>1. CASE r # <<>>
    <3>1. <<r>> \in Seq(Seq(Byte)) /\ PutBack(r, z) = <<r>> \o z  BY <1>5, <2>1 DEF PutBack
    <3>2. FlattenSeq(<<r>> \o z) = FlattenSeq(<<r>>) \o FlattenSeq(z)
      BY <1>3, <3>1, FlattenConcat
    <3>3. FlattenSeq(<<r>>) = r  BY <1>5, FlattenOne
    <3> QED BY <3>1, <3>2, <3>3
  <2>2. CASE r = <<>>
    <3>1. FlattenSeq(z) \in Seq(Byte)  BY <1>3, FlattenType
    <3>2. <<>> \o FlattenSeq(z) = FlattenSeq(z)  BY <3>1, ConcatEmptySeq
    <3> QED BY <2>2, <3>2 DEF PutBack
  <2> QED BY <2>1, <2>2
<1>8. queue'[c] = PutBack(r, z) /\ got'[c] = got[c] \o u
  BY <1>1 DEF PopChunk, TypeOK
<1>9. UNCHANGED <<frames, Undispatched>>
  BY DEF PopChunk, netVars, bundleVars, Undispatched
<1>10. PICK a, g, x : /\ a = got[c] /\ g = FlattenSeq(z)
                      /\ x = PayloadFor(frames, c, Undispatched)
  OBVIOUS
<1>11. HeldFor(c) = (a \o ((u \o r) \o g)) \o x /\ HeldFor(c)' = ((a \o u) \o (r \o g)) \o x
  BY <1>1, <1>5, <1>6, <1>7, <1>8, <1>9, <1>10 DEF HeldFor
<1>12. a \o ((u \o r) \o g) = (a \o u) \o (r \o g)
  <2>1. a \in Seq(Byte) /\ u \in Seq(Byte) /\ r \in Seq(Byte) /\ g \in Seq(Byte)
    BY <1>2, <1>3, <1>5, <1>10, FlattenType
  <2>b. u \in Seq(Byte) /\ r \in Seq(Byte) /\ g \in Seq(Byte)  BY <2>1
  <2>2. (u \o r) \o g = u \o (r \o g)  BY ONLY <2>b, BytesAssociate, Zenon
  <2>3. PICK v : v = r \o g  OBVIOUS
  <2>4. v \in Seq(Byte)  BY <2>1, <2>3, ConcatProperties
  <2>a. a \in Seq(Byte) /\ u \in Seq(Byte) /\ v \in Seq(Byte)  BY <2>1, <2>4
  <2>5. (a \o u) \o v = a \o (u \o v)  BY ONLY <2>a, BytesAssociate, Zenon
  <2> QED BY <2>2, <2>3, <2>5
<1> QED BY <1>11, <1>12

\* Steps that leave everything where it is.
LEMMA HeldStays ==
  ASSUME NEW c \in Conn, UNCHANGED <<Undispatched, frames>>,
         queue'[c] = queue[c], got'[c] = got[c]
  PROVE  HeldFor(c)' = HeldFor(c)
BY DEF HeldFor

\* What Conserved says of one connection.
ConservedFor(c) ==
  pc[c] # "dead" => IF closed THEN IsPrefix(HeldFor(c), sent[c]) ELSE HeldFor(c) = sent[c]

LEMMA ConservedStep ==
  TypeOK /\ SharingInv /\ FrameAligned /\ Conserved /\ [Next]_vars => Conserved'
<1> SUFFICES ASSUME TypeOK, SharingInv, FrameAligned, Conserved, [Next]_vars,
                    NEW c \in Conn
             PROVE  ConservedFor(c)'
  BY DEF Conserved, ConservedFor
<1>0. ConservedFor(c)  BY DEF Conserved, ConservedFor
\* It is enough that the step moves bytes without adding or dropping any.
<1>a. ASSUME HeldFor(c)' = HeldFor(c), sent'[c] = sent[c], closed' = closed,
             pc'[c] # "dead" => pc[c] # "dead"
      PROVE  ConservedFor(c)'
  BY <1>0, <1>a DEF ConservedFor
<1>1. ASSUME NEW d \in Conn, NEW n \in FrameSizes, ServerSend(d, n) PROVE ConservedFor(c)'
  <2>1. ~closed /\ ~closed' /\ pc' = pc  BY <1>1 DEF ServerSend
  <2>2. pc[c] # "dead" => HeldFor(c) = sent[c]  BY <1>0, <2>1 DEF ConservedFor
  <2>3. HeldFor(c) = sent[c] => HeldFor(c)' = sent'[c]  BY <1>1, HeldSend
  <2> QED BY <2>1, <2>2, <2>3 DEF ConservedFor
<1>2. CASE ServerClose
  <2>1. ~closed /\ closed' /\ pc' = pc /\ sent' = sent  BY <1>2 DEF ServerClose
  <2>2. pc[c] # "dead" => HeldFor(c) = sent[c]  BY <1>0, <2>1 DEF ConservedFor
  <2>3. IsPrefix(HeldFor(c)', HeldFor(c))  BY <1>2, HeldClose
  <2> QED BY <2>1, <2>2, <2>3 DEF ConservedFor
<1>3. ASSUME NEW b \in Conn, DispatchFrame(b) PROVE ConservedFor(c)'
  <2>1. HeldFor(c)' = HeldFor(c)  BY <1>3, HeldDispatch
  <2>2. UNCHANGED <<sent, closed>>  BY <1>3 DEF DispatchFrame, netVars
  <2>3. pc'[c] # "dead" => pc[c] # "dead"  BY <1>3 DEF DispatchFrame, Goto, TypeOK
  <2> QED BY <1>a, <2>1, <2>2, <2>3
<1> SUFFICES ASSUME ~ServerClose,
                    \A d \in Conn : ~DispatchFrame(d) /\ \A n \in FrameSizes : ~ServerSend(d, n)
             PROVE  ConservedFor(c)'
  BY <1>1, <1>2, <1>3
<1>4. UNCHANGED <<Undispatched, frames, closed>>  BY OthersKeep
<1>5. ASSUME NEW d \in Conn, PopChunk(d) PROVE ConservedFor(c)'
  <2>1. sent'[c] = sent[c] /\ (pc'[c] # "dead" => pc[c] # "dead")
    BY <1>5 DEF PopChunk, netVars, Goto, TypeOK
  <2>2. HeldFor(c)' = HeldFor(c)
    <3>1. CASE d = c  BY <1>5, <3>1, HeldPop
    <3>2. CASE d # c
      <4>1. queue'[c] = queue[c] /\ got'[c] = got[c]  BY <1>5, <3>2 DEF PopChunk, TypeOK
      <4> QED BY <1>4, <4>1, HeldStays
    <3> QED BY <3>1, <3>2
  <2> QED BY <1>a, <1>4, <2>1, <2>2
<1>6. ASSUME NEW d \in Conn, PopOversized(d) PROVE ConservedFor(c)'
  <2>1. CASE d = c
    <3>1. pc'[c] = "dead"  BY <1>6, <2>1 DEF PopOversized, Goto, TypeOK
    <3> QED BY <3>1 DEF ConservedFor
  <2>2. CASE d # c
    <3>1. /\ sent'[c] = sent[c] /\ queue'[c] = queue[c] /\ got'[c] = got[c]
          /\ pc'[c] = pc[c]
      BY <1>6, <2>2 DEF PopOversized, netVars, Goto, TypeOK
    <3>2. HeldFor(c)' = HeldFor(c)  BY <1>4, <3>1, HeldStays
    <3> QED BY <1>a, <1>4, <3>1, <3>2
  <2> QED BY <2>1, <2>2
<1>7. CASE \A d \in Conn : ~PopChunk(d) /\ ~PopOversized(d)
  <2>1. Quiet  BY <1>7, QuietSteps
  <2>2. HeldFor(c)' = HeldFor(c)  BY <1>4, <2>1, HeldStays DEF Quiet
  <2> QED BY <1>a, <1>4, <2>1, <2>2 DEF Quiet
<1> QED BY <1>5, <1>6, <1>7

\* No byte is lost, duplicated, reordered or given to the wrong connection
\* between the socket and the caller, for any number of connections, any cut of
\* the stream by recv, and any threads that carry the pieces.
THEOREM NothingLost == Spec => []Conserved
<1>1. Init => Conserved
  <2> SUFFICES ASSUME Init, NEW c \in Conn PROVE HeldFor(c) = sent[c] /\ ~closed
    BY DEF Conserved
  <2>1. Undispatched = <<>>  BY ConcatEmptySeq, EmptySeq DEF Init, Undispatched
  <2>2. got[c] = <<>> /\ queue[c] = <<>> /\ sent[c] = <<>> /\ ~closed  BY DEF Init
  <2>3. PayloadFor(frames, c, <<>>) = <<>>
    <3>1. Len(<<>>) = 0 /\ <<>> \in Seq(Byte)  BY EmptySeq
    <3>2. CarriedSeq(frames, c, <<>>) = <<>>
      <4>1. /\ CarriedSeq(frames, c, <<>>) \in Seq(Seq(Byte))
            /\ Len(CarriedSeq(frames, c, <<>>)) = 0
        BY <3>1, CarriedType
      <4> QED BY <4>1, EmptySeq
    <3> QED BY <3>2, FlattenEmpty DEF PayloadFor, CarriedSeq
  <2>4. (<<>> \o <<>>) \o <<>> = <<>>  BY ConcatEmptySeq, EmptySeq
  <2> QED BY <2>1, <2>2, <2>3, <2>4, FlattenEmpty DEF HeldFor
<1>2. TypeOK /\ SharingInv /\ FrameAligned /\ Conserved /\ [Next]_vars => Conserved'
  BY ConservedStep
<1> QED BY <1>1, <1>2, TypeCorrect, Sharing, HeadersAligned, PTL DEF Spec
=============================================================================
