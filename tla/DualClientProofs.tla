-------------------------- MODULE DualClientProofs --------------------------
(***************************************************************************)
(* Proofs about DualClient: it uses the connections below it as            *)
(* BatchedClient allows, so what is proved of that module holds of it; and *)
(* the assert of its catch block, the use of the control connection by one *)
(* thread at a time, that its two flags agree, and that a ControlChannel   *)
(* comes with its message.                                                 *)
(***************************************************************************)
EXTENDS DualClient, BatchedClientProofs

LEMMA InConn == Data \in Conn /\ Ctl \in Conn /\ Data # Ctl /\ 0 \in Requests
BY DualAssumption

LEMMA DualStepBelow == DualNext => [Next]_vars
<1> SUFFICES ASSUME DualNext PROVE [Next]_vars
  OBVIOUS
<1>1. ASSUME Below PROVE Next  BY <1>1 DEF Below, Next
<1>2. ASSUME UserStep PROVE [Next]_vars
  <2>1. ASSUME NEW n \in Requests, Call(Data, n) PROVE Next
    BY <2>1, InConn DEF Next, Users
  <2>2. ASSUME ClearInterrupt(Data) PROVE Next  BY <2>2, InConn DEF Next, Users
  <2> QED BY <1>2, <2>1, <2>2
          DEF UserStep, CheckClear, CheckSet, ThrowChannel, DataDone,
              DataInterrupted, CatchThrow, ControlDone, ResetExn, PushCheck,
              ClearAndRelease, Joined
<1>3. ASSUME UserChoice PROVE [Next]_vars
  <2>1. ASSUME NEW n \in Requests, Call(Ctl, n) PROVE Next
    BY <2>1, InConn DEF Next, Users
  <2>2. ASSUME Interrupt(Ctl) PROVE Next  BY <2>2, InConn DEF Next, Users
  <2> QED BY <1>3, <2>1, <2>2
          DEF UserChoice, DualReceive, LeaveHandler, Destroy, ControlReceive
<1>4. ASSUME PoolStep PROVE [Next]_vars
  <2>1. ASSUME Call(Ctl, 0) PROVE Next  BY <2>1, InConn DEF Next, Users
  <2>2. ASSUME Interrupt(Data) PROVE Next  BY <2>2, InConn DEF Next, Users
  <2> QED BY <1>4, <2>1, <2>2
          DEF PoolStep, TakeTask, PeekReturned, PeekThrew, SetExn, InterruptData
<1>5. ASSUME Terminated PROVE UNCHANGED vars  BY <1>5 DEF Terminated, allVars
<1> QED BY <1>1, <1>2, <1>3, <1>4, <1>5 DEF DualNext

\* A dual_connection, its pool and its ControlChannels call, interrupt and
\* clear the two connections only as BatchedClient lets users do, so every
\* theorem about BatchedClient is one about a dual_connection's client.
THEOREM DualUsesClient == DualSpec => Spec
<1>1. DualInit => Init  BY DEF DualInit
<1>2. [DualNext]_allVars => [Next]_vars  BY DualStepBelow DEF allVars
<1> QED BY <1>1, <1>2, PTL DEF DualSpec, Spec

\* The headers stay aligned under a dual_connection too.
THEOREM DualHeadersAligned == DualSpec => []FrameAligned
BY DualUsesClient, HeadersAligned, PTL

\* Its data and its control connection are two reliable byte streams.
THEOREM DualRefinesChannels == DualSpec => RefinesChannels
BY DualUsesClient, ClientRefinesChannels

----------------------------------------------------------------------------
(* The handshake of the user's and the pool's thread.                      *)

\* The check is waiting or under way.
Armed == tasks = 1 \/ pool \in {"peek", "set"}

HandshakeInv ==
  /\ pool \in {"idle", "peek", "set", "interrupt"}
  /\ tasks \in {0, 1}
  /\ tasks = 1 => pool = "idle"
  /\ active = "user" <=> user \in InChannel
  /\ active = "pool" <=> pool = "interrupt"
  \* The flag is up from the pool's report to the destructor ...
  /\ exn => ~Armed
  /\ user \in {"rethrow", "caught", "handling", "reading", "reset"} => exn
  /\ pool = "interrupt" => exn
  /\ user \in {"push", "clear"} => ~exn
  /\ user = "push" => ~Armed
  \* ... and the data connection is not interrupted without it.
  /\ ~exn /\ interrupted[Data] => user \in {"push", "clear"}
  /\ ~exn /\ user = "data" => pc[Data] \notin {"throw", "interrupted"}
  /\ user # "data" => pc[Data] \in Outside
  \* From the interrupt to the throw, the flag of the data connection is up too.
  /\ exn /\ pool # "interrupt" /\ user \in {"out", "check", "rethrow"} =>
       interrupted[Data]
  /\ exn /\ pool # "interrupt" /\ user = "data" =>
       interrupted[Data] \/ pc[Data] = "interrupted"

LEMMA HandshakeInit == DualInit => HandshakeInv
BY InConn DEF DualInit, Init, HandshakeInv, Armed, InChannel, Destroying, Outside

\* Steps of raw_receive do not interrupt anybody, and the user's thread throws
\* only if it was interrupted.
LEMMA HandshakeStepData ==
  ASSUME TypeOK, HandshakeInv, NEW c \in Conn, Step(c), UNCHANGED dualVars
  PROVE  HandshakeInv'
<1> USE InConn
<1>1. interrupted' \in [Conn -> BOOLEAN]
      /\ (interrupted'[Data] => interrupted[Data])
  BY DEF Step, LoopTest, ThrowInterrupted, LowerFlag, LookAtQueue, PopChunk,
     PopOversized, LockAborted, LockAcquired, Drain, DrainTimeout, DrainClosed,
     KeepOrphan, DispatchFrame, Unlock, TypeOK
<1>2. c # Data => pc'[Data] = pc[Data]
  BY DEF Step, LoopTest, ThrowInterrupted, LookAtQueue, PopChunk, PopOversized,
     LockAborted, LockAcquired, Drain, DrainTimeout, DrainClosed, KeepOrphan,
     DispatchFrame, Unlock, Goto, TypeOK
<1>3. c = Data => pc[Data] \notin Outside
  BY DEF Step, LoopTest, ThrowInterrupted, LookAtQueue, PopChunk, PopOversized,
     LockAborted, LockAcquired, Drain, DrainTimeout, DrainClosed, KeepOrphan,
     DispatchFrame, Unlock, Goto, Outside
<1>4. pc'[Data] \in {"throw", "interrupted"} =>
        pc[Data] \in {"throw", "interrupted"} \/ interrupted[Data]
  <2>1. CASE c = Data
    BY <2>1 DEF Step, LoopTest, ThrowInterrupted, LookAtQueue, PopChunk,
       PopOversized, LockAborted, LockAcquired, Drain, DrainTimeout, DrainClosed,
       KeepOrphan, DispatchFrame, Unlock, Goto, TypeOK
  <2> QED BY <1>2, <2>1
<1>5. /\ c # Data => interrupted'[Data] = interrupted[Data]
      /\ interrupted[Data] => interrupted'[Data] \/ pc'[Data] = "interrupted"
  BY DEF Step, LoopTest, ThrowInterrupted, LowerFlag, LookAtQueue, PopChunk,
     PopOversized, LockAborted, LockAcquired, Drain, DrainTimeout, DrainClosed,
     KeepOrphan, DispatchFrame, Unlock, Goto, TypeOK
<1>6. pc[Data] = "interrupted" => c # Data  BY <1>3 DEF Outside
<1> QED BY <1>1, <1>2, <1>3, <1>4, <1>5, <1>6
        DEF HandshakeInv, Armed, dualVars, InChannel, Destroying

LEMMA HandshakeStep ==
  TypeOK /\ HandshakeInv /\ [DualNext]_allVars => HandshakeInv'
<1> SUFFICES ASSUME TypeOK, HandshakeInv, [DualNext]_allVars
             PROVE  HandshakeInv'
  OBVIOUS
<1> USE InConn DEF HandshakeInv, Armed, InChannel, Destroying
<1>1. CASE Below
  <2>1. ASSUME Server, UNCHANGED dualVars PROVE HandshakeInv'
    BY <2>1 DEF Server, ServerSend, ServerClose, dualVars
  <2> QED BY <1>1, <2>1, HandshakeStepData DEF Below
<1>2. ASSUME NEW n \in Requests \ {0}, CheckClear(n) PROVE HandshakeInv'
  BY <1>2 DEF CheckClear, UserGoto, Call, TypeOK
<1>3. CASE \/ CheckSet \/ ThrowChannel \/ CatchThrow \/ ResetExn \/ PushCheck
           \/ DataDone \/ DataInterrupted
  BY <1>3 DEF CheckSet, ThrowChannel, CatchThrow, ResetExn, PushCheck, DataDone,
     DataInterrupted, UserGoto, vars, Outside
<1>4. CASE ControlDone \/ Joined \/ DualReceive \/ LeaveHandler
  BY <1>4 DEF ControlDone, Joined, DualReceive, LeaveHandler, UserGoto, vars
<1>5. CASE ClearAndRelease
  BY <1>5 DEF ClearAndRelease, ClearInterrupt, LowerFlag, UserGoto, TypeOK
<1>6. CASE Destroy
  BY <1>6 DEF Destroy, Interrupt, UserGoto, TypeOK
<1>7. ASSUME NEW n \in Requests, ControlReceive(n) PROVE HandshakeInv'
  BY <1>7 DEF ControlReceive, Call, UserGoto, TypeOK
<1>8. CASE TakeTask
  BY <1>8 DEF TakeTask, TaskReady, Call, TypeOK
<1>9. CASE PeekReturned \/ PeekThrew \/ SetExn
  BY <1>9 DEF PeekReturned, PeekThrew, SetExn, vars
<1>10. CASE InterruptData
  BY <1>10 DEF InterruptData, Interrupt, TypeOK
<1>11. CASE Terminated \/ UNCHANGED allVars
  BY <1>11 DEF Terminated, allVars, dualVars, vars
<1> QED BY <1>1, <1>2, <1>3, <1>4, <1>5, <1>6, <1>7, <1>8, <1>9, <1>10, <1>11
        DEF DualNext, UserStep, UserChoice, PoolStep

LEMMA Handshake == DualSpec => [](TypeOK /\ HandshakeInv)
<1>1. DualSpec => []TypeOK  BY DualUsesClient, TypeCorrect, PTL
<1>2. TypeOK /\ HandshakeInv /\ [DualNext]_allVars => HandshakeInv'
  BY HandshakeStep
<1>3. DualInit => HandshakeInv  BY HandshakeInit
<1> QED BY <1>1, <1>2, <1>3, PTL DEF DualSpec

\* The assert in the catch block of dual_connection::raw_receive never fails.
THEOREM CatchAssertHolds == DualSpec => []InterruptMeansControl
<1>1. HandshakeInv => InterruptMeansControl
  BY DEF HandshakeInv, InterruptMeansControl
<1> QED BY <1>1, Handshake, PTL

\* While the user may read the control connection the pool's thread is idle
\* and has nothing to do.
THEOREM ControlHasOneReader == DualSpec => []OneControlReader
<1>1. HandshakeInv => OneControlReader
  BY DEF HandshakeInv, OneControlReader, Armed, InChannel, Destroying
<1> QED BY <1>1, Handshake, PTL

\* Between two receives the interrupt of the data connection and
\* control_exn_thrown are up together or down together.
THEOREM FlagsAlwaysAgree == DualSpec => []FlagsAgree
<1>1. TypeOK /\ HandshakeInv => FlagsAgree
  BY InConn DEF TypeOK, HandshakeInv, FlagsAgree
<1> QED BY <1>1, Handshake, PTL

\* The variables of a dual_connection keep their types; no more than one check
\* ever waits in the pool's queue, so tasks needs no bound.
THEOREM DualTypeCorrect == DualSpec => []DualTypeOK
<1> DEFINE Places == /\ exn \in BOOLEAN
                     /\ active \in {"nobody", "user", "pool"}
                     /\ user \in UserPlaces
<1>1. DualInit => Places  BY DEF DualInit, UserPlaces
<1>2. Places /\ [DualNext]_allVars => Places'
  BY DEF DualNext, Below, UserStep, UserChoice, PoolStep, Terminated, allVars,
     dualVars, CheckClear, CheckSet, ThrowChannel, DataDone, DataInterrupted,
     CatchThrow, ControlDone, ResetExn, PushCheck, ClearAndRelease, Joined,
     DualReceive, LeaveHandler, Destroy, ControlReceive, TakeTask, PeekReturned,
     PeekThrew, SetExn, InterruptData, UserGoto, UserPlaces
<1>3. TypeOK /\ HandshakeInv /\ Places => DualTypeOK
  BY DEF HandshakeInv, DualTypeOK
<1> QED BY <1>1, <1>2, <1>3, Handshake, PTL DEF DualSpec

----------------------------------------------------------------------------
(* The message a ControlChannel is thrown for.                             *)

\* Chunks are never empty, since no message and no rest put back is; the peek
\* asks for nothing, so it leaves the chunk it found; and nobody else takes one
\* before the ControlChannel is thrown.
ReadyInv ==
  /\ \A c \in Conn : \A k \in 1..Len(queue[c]) : queue[c][k] # <<>>
  /\ pool # "peek" /\ user # "reading" => pc[Ctl] \in Outside
  /\ pool = "peek" => want[Ctl] = 0
  /\ pool = "peek" /\ pc[Ctl] = "returned" => queue[Ctl] # <<>>
  /\ pool \in {"set", "interrupt"} => queue[Ctl] # <<>>
  /\ exn /\ user \notin InChannel => queue[Ctl] # <<>>

\* Putting something in front of a sequence.
LEMMA ConsProperties ==
  ASSUME NEW S, NEW x \in S, NEW q \in Seq(S), NEW k \in 1..Len(<<x>> \o q)
  PROVE  IF k = 1 THEN (<<x>> \o q)[k] = x
         ELSE k - 1 \in 1..Len(q) /\ (<<x>> \o q)[k] = q[k - 1]
<1>1. <<x>> \in Seq(S) /\ Len(<<x>>) = 1 /\ <<x>>[1] = x  OBVIOUS
<1> QED BY <1>1, ConcatProperties, LenProperties

LEMMA ReadyInit == DualInit => ReadyInv
BY InConn DEF DualInit, Init, ReadyInv, Outside

\* What is taken from the control connection is taken by its one reader.
LEMMA ReadyPop ==
  ASSUME TypeOK, HandshakeInv, ReadyInv, NEW c \in Conn, PopChunk(c),
         UNCHANGED dualVars
  PROVE  ReadyInv'
<1> USE InConn
<1> DEFINE chunk == Head(queue[c])
           rest  == SubSeq(chunk, want[c] + 1, Len(chunk))
<1>1. queue[c] \in Seq(Seq(Byte)) /\ queue[c] # <<>> /\ want[c] \in Nat
  BY WantType DEF TypeOK, PopChunk
<1>2. chunk \in Seq(Byte) /\ chunk # <<>> /\ rest \in Seq(Byte)
  <2>1. chunk = queue[c][1] /\ chunk \in Seq(Byte) /\ 1 \in 1..Len(queue[c])
    BY <1>1, EmptySeq
  <2>2. rest \in Seq(Byte)
    BY <1>1, <2>1, PieceType, LenProperties
  <2> QED BY <2>1, <2>2 DEF ReadyInv
<1>3. queue' = [queue EXCEPT ![c] = PutBack(rest, Tail(@))]  BY DEF PopChunk
<1>4. queue'[c] = PutBack(rest, Tail(queue[c]))  BY <1>3 DEF TypeOK
<1>5. ASSUME NEW k \in 1..Len(queue'[c]) PROVE queue'[c][k] # <<>>
  <2>1. Tail(queue[c]) \in Seq(Seq(Byte)) /\ Len(Tail(queue[c])) = Len(queue[c]) - 1
        /\ \A j \in 1..Len(Tail(queue[c])) : Tail(queue[c])[j] = queue[c][j + 1]
    BY <1>1
  <2>2. \A j \in 1..Len(Tail(queue[c])) : Tail(queue[c])[j] # <<>>
    BY <1>1, <2>1, LenProperties DEF ReadyInv
  <2>3. CASE rest = <<>>  BY <1>4, <1>5, <2>2, <2>3 DEF PutBack
  <2>4. CASE rest # <<>>
    <3>1. queue'[c] = <<rest>> \o Tail(queue[c])  BY <1>4, <2>4 DEF PutBack
    <3> HIDE DEF rest
    <3>2. CASE k = 1
      <4>1. queue'[c][k] = rest  BY <1>2, <1>5, <2>1, <3>1, <3>2, ConsProperties
      <4> QED BY <2>4, <4>1
    <3>3. CASE k # 1
      <4>1. /\ k - 1 \in 1..Len(Tail(queue[c]))
            /\ queue'[c][k] = Tail(queue[c])[k - 1]
        BY <1>2, <1>5, <2>1, <3>1, <3>3, ConsProperties
      <4> QED BY <2>2, <4>1
    <3> QED BY <3>2, <3>3
  <2> QED BY <2>3, <2>4
<1>6. \A d \in Conn : \A k \in 1..Len(queue'[d]) : queue'[d][k] # <<>>
  <2> SUFFICES ASSUME NEW d \in Conn, NEW k \in 1..Len(queue'[d])
               PROVE  queue'[d][k] # <<>>
    OBVIOUS
  <2>1. d # c => queue'[d] = queue[d]  BY <1>3 DEF TypeOK
  <2> QED BY <1>5, <2>1 DEF ReadyInv
<1>7. CASE c # Ctl
  <2>1. pc'[Ctl] = pc[Ctl] /\ queue'[Ctl] = queue[Ctl] /\ want' = want
    BY <1>3, <1>7 DEF PopChunk, Goto, TypeOK
  <2> QED BY <1>6, <2>1 DEF ReadyInv, dualVars, InChannel, Destroying
<1>8. CASE c = Ctl
  <2>1. pc[Ctl] \notin Outside  BY <1>8 DEF PopChunk, Goto, Outside
  <2>2. pool = "peek" \/ user = "reading"  BY <2>1 DEF ReadyInv
  <2>3. pool = "peek" => queue'[Ctl] # <<>>
    <3> SUFFICES ASSUME pool = "peek" PROVE queue'[Ctl] # <<>>
      OBVIOUS
    <3>1. want[c] = 0  BY <1>8 DEF ReadyInv
    <3>2. rest # <<>>  BY <1>2, <3>1
    <3>3. queue'[c] = <<rest>> \o Tail(queue[c])  BY <1>4, <3>2 DEF PutBack
    <3>4. <<rest>> \o Tail(queue[c]) # <<>>
      BY <1>1, <1>2, EmptySeq, LenProperties, ConcatProperties
    <3> QED BY <1>8, <3>3, <3>4
  <2>4. want' = want  BY DEF PopChunk
  <2>5. exn /\ user \notin InChannel => pool # "peek"
    BY DEF HandshakeInv, Armed
  <2> QED BY <1>6, <2>2, <2>3, <2>4, <2>5
          DEF ReadyInv, HandshakeInv, Armed, dualVars, InChannel, Destroying
<1> QED BY <1>7, <1>8

\* The other steps of raw_receive take nothing from a queue.
LEMMA ReadyStepBelow ==
  ASSUME 0 \notin FrameSizes, TypeOK, HandshakeInv, ReadyInv,
         NEW c \in Conn, Step(c), UNCHANGED dualVars
  PROVE  ReadyInv'
<1> USE InConn
<1>1. CASE PopChunk(c)  BY <1>1, ReadyPop
<1>2. CASE PopOversized(c)
  <2>1. want[Ctl] = 0 => c # Ctl
    BY <1>2, LenProperties DEF PopOversized, TypeOK
  <2>2. \A d \in Conn : \A k \in 1..Len(queue'[d]) : queue'[d][k] # <<>>
    <3> SUFFICES ASSUME NEW d \in Conn, NEW k \in 1..Len(queue'[d])
                 PROVE  queue'[d][k] # <<>>
      OBVIOUS
    <3>1. CASE d = c
      <4>1. queue[c] \in Seq(Seq(Byte)) /\ queue[c] # <<>> /\ queue'[c] = Tail(queue[c])
        BY <1>2 DEF PopOversized, TypeOK
      <4>2. k + 1 \in 1..Len(queue[c]) /\ queue'[c][k] = queue[c][k + 1]
        BY <3>1, <4>1
      <4> QED BY <3>1, <4>2 DEF ReadyInv
    <3>2. CASE d # c  BY <1>2, <3>2 DEF PopOversized, TypeOK, ReadyInv
    <3> QED BY <3>1, <3>2
  <2>3. CASE c = Ctl
    <3>1. pc'[Ctl] = "dead" /\ pc[Ctl] = "pop"
      BY <1>2, <2>3 DEF PopOversized, Goto, TypeOK
    <3>2. pool # "peek" /\ user = "reading" /\ exn
      BY <2>1, <2>3, <3>1 DEF ReadyInv, HandshakeInv, Outside
    <3> QED BY <1>2, <2>2, <3>1, <3>2
            DEF ReadyInv, HandshakeInv, Armed, dualVars, InChannel, Destroying,
                PopOversized
  <2>4. CASE c # Ctl
    <3>1. pc'[Ctl] = pc[Ctl] /\ queue'[Ctl] = queue[Ctl] /\ want' = want
      BY <1>2, <2>4 DEF PopOversized, Goto, TypeOK
    <3> QED BY <2>2, <3>1 DEF ReadyInv, dualVars, InChannel, Destroying
  <2> QED BY <2>3, <2>4
<1>3. CASE DispatchFrame(c)
  <2> DEFINE chunk == SubSeq(hand, HdrSize + 1, HeadEnd(hand))
             id    == HeadId(hand)
  <2>1. /\ hand \in Seq(Byte) /\ hand # <<>>
        /\ HeadEnd(hand) \in HdrSize..Len(hand) /\ Len(hand) \in Nat
    BY <1>3, WholeFrame, LenProperties DEF DispatchFrame, TypeOK
  <2>2. id \in Conn /\ HeadEnd(hand) > HdrSize
    <3>1. hand[1][1] \in 1..Len(frames) /\ id \in Conn  BY <2>1, HeadType
    <3>2. frames[hand[1][1]] \in [id : Conn, size : FrameSizes]
      BY <3>1, ElementOfSeq DEF TypeOK
    <3>3. HeadSize(hand) \in Nat \ {0}  BY <3>2, SizesAssumption DEF HeadSize
    <3> QED BY <3>1, <3>3 DEF HeadEnd, HdrSize
  <2>3. chunk \in Seq(Byte) /\ chunk # <<>>
    <3>1. /\ HdrSize + 1 \in Nat \ {0} /\ HeadEnd(hand) \in 0..Len(hand)
          /\ HeadEnd(hand) - HdrSize > 0
      BY <2>1, <2>2 DEF HdrSize
    <3>2. chunk \in Seq(Byte)  BY <2>1, <3>1, PieceType
    <3>3. Len(chunk) > 0  BY <2>1, <2>2, SMTT(30) DEF HdrSize
    <3>4. Len(<<>>) = 0  BY EmptySeq
    <3> HIDE DEF chunk
    <3> QED BY <3>2, <3>3, <3>4
  <2>4. queue' = [queue EXCEPT ![id] = Append(@, chunk)]
    BY <1>3 DEF DispatchFrame
  <2>5. ASSUME NEW d \in Conn
        PROVE  /\ \A k \in 1..Len(queue'[d]) : queue'[d][k] # <<>>
               /\ queue[d] # <<>> => queue'[d] # <<>>
    <3>1. CASE d # id  BY <2>4, <3>1 DEF TypeOK, ReadyInv
    <3>2. CASE d = id
      <4>1. queue[d] \in Seq(Seq(Byte)) /\ queue'[d] = Append(queue[d], chunk)
        BY <2>2, <2>4, <3>2 DEF TypeOK
      <4>2. \A k \in 1..Len(queue[d]) : queue[d][k] # <<>>  BY DEF ReadyInv
      <4> HIDE DEF chunk
      <4>3. Append(queue[d], chunk) # <<>>  BY <2>3, <4>1, AppendProperties
      <4>4. ASSUME NEW k \in 1..Len(Append(queue[d], chunk))
            PROVE  Append(queue[d], chunk)[k] # <<>>
        <5>1. k \in 1..Len(queue[d]) \/ k = Len(queue[d]) + 1
          BY <2>3, <4>1, <4>4, AppendProperties, LenProperties
        <5> QED BY <2>3, <4>1, <4>2, <5>1, AppendProperties
      <4> QED BY <4>1, <4>3, <4>4
    <3> QED BY <3>1, <3>2
  <2>6. pc'[Ctl] = pc[Ctl] \/ (pc[Ctl] \notin Outside /\ pc'[Ctl] # "returned")
    BY <1>3 DEF DispatchFrame, Goto, TypeOK, Outside
  <2> QED BY <1>3, <2>5, <2>6
          DEF ReadyInv, dualVars, InChannel, Destroying, DispatchFrame
<1>4. CASE \/ LoopTest(c) \/ ThrowInterrupted(c) \/ LookAtQueue(c) \/ LockAborted(c)
           \/ LockAcquired(c) \/ Drain(c) \/ DrainTimeout(c) \/ DrainClosed(c)
           \/ KeepOrphan(c) \/ Unlock(c)
  <2>1. UNCHANGED <<queue, want>>
    BY <1>4 DEF LoopTest, ThrowInterrupted, LookAtQueue, LockAborted, LockAcquired,
       Drain, DrainTimeout, DrainClosed, KeepOrphan, Unlock
  <2>2. pc'[Ctl] = pc[Ctl] \/ (pc[Ctl] \notin Outside /\ pc'[Ctl] # "returned")
    BY <1>4 DEF LoopTest, ThrowInterrupted, LookAtQueue, LockAborted, LockAcquired,
       Drain, DrainTimeout, DrainClosed, KeepOrphan, Unlock, Goto, TypeOK, Outside
  <2> QED BY <2>1, <2>2 DEF ReadyInv, dualVars, InChannel, Destroying
<1> QED BY <1>1, <1>2, <1>3, <1>4 DEF Step

LEMMA ReadyStep ==
  ASSUME 0 \notin FrameSizes
  PROVE  TypeOK /\ HandshakeInv /\ ReadyInv /\ [DualNext]_allVars => ReadyInv'
<1> SUFFICES ASSUME TypeOK, HandshakeInv, ReadyInv, [DualNext]_allVars
             PROVE  ReadyInv'
  OBVIOUS
<1> USE InConn DEF ReadyInv, Armed, InChannel, Destroying
<1>1. CASE Below
  <2>1. ASSUME Server, UNCHANGED dualVars PROVE ReadyInv'
    BY <2>1 DEF Server, ServerSend, ServerClose, dualVars
  <2> QED BY <1>1, <2>1, ReadyStepBelow DEF Below
<1>2. ASSUME NEW n \in Requests \ {0}, CheckClear(n) PROVE ReadyInv'
  BY <1>2 DEF CheckClear, UserGoto, Call, TypeOK
<1>3. CASE \/ CheckSet \/ ThrowChannel \/ CatchThrow \/ ResetExn \/ PushCheck
           \/ DataDone \/ DataInterrupted
  BY <1>3 DEF CheckSet, ThrowChannel, CatchThrow, ResetExn, PushCheck, DataDone,
     DataInterrupted, UserGoto, vars, HandshakeInv
<1>4. CASE ControlDone \/ Joined \/ DualReceive \/ LeaveHandler
  BY <1>4 DEF ControlDone, Joined, DualReceive, LeaveHandler, UserGoto, vars,
     HandshakeInv
<1>5. CASE ClearAndRelease
  BY <1>5 DEF ClearAndRelease, ClearInterrupt, UserGoto, HandshakeInv
<1>6. CASE Destroy
  BY <1>6 DEF Destroy, Interrupt, UserGoto
<1>7. ASSUME NEW n \in Requests, ControlReceive(n) PROVE ReadyInv'
  BY <1>7 DEF ControlReceive, Call, UserGoto, TypeOK, HandshakeInv
<1>8. CASE TakeTask
  BY <1>8 DEF TakeTask, TaskReady, Call, TypeOK, HandshakeInv
<1>9. CASE PeekReturned \/ PeekThrew \/ SetExn
  BY <1>9 DEF PeekReturned, PeekThrew, SetExn, vars, HandshakeInv, Outside
<1>10. CASE InterruptData
  BY <1>10 DEF InterruptData, Interrupt, HandshakeInv
<1>11. CASE Terminated \/ UNCHANGED allVars
  BY <1>11 DEF Terminated, allVars, dualVars, vars
<1> QED BY <1>1, <1>2, <1>3, <1>4, <1>5, <1>6, <1>7, <1>8, <1>9, <1>10, <1>11
        DEF DualNext, UserStep, UserChoice, PoolStep

\* If no message is empty, the message a ControlChannel is thrown for is in the
\* control connection's queue when it is thrown.
THEOREM ChannelAlwaysReady ==
  ASSUME 0 \notin FrameSizes
  PROVE  DualSpec => []ChannelReady
<1>1. DualInit => ReadyInv  BY ReadyInit
<1>2. TypeOK /\ HandshakeInv /\ ReadyInv /\ [DualNext]_allVars => ReadyInv'
  BY ReadyStep
<1>3. HandshakeInv /\ ReadyInv => ChannelReady
  BY DEF HandshakeInv, ReadyInv, ChannelReady, InChannel, Destroying
<1> QED BY <1>1, <1>2, <1>3, Handshake, PTL DEF DualSpec
=============================================================================
