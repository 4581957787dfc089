------------------------ MODULE BlockingQueueProofs ------------------------
(***************************************************************************)
(* Proofs about BlockingQueue, for queues of any size and any number of    *)
(* items: it uses the plain queue only as SpscQueue allows, so that what   *)
(* SpscQueueProofs proves holds of it, and its semaphore counts the items. *)
(***************************************************************************)
EXTENDS BlockingQueue, SpscQueueProofs

OuterTypeOK ==
  /\ count \in Int /\ sema \in Nat /\ putBefore \in Nat /\ refused \in BOOLEAN
  /\ outerProd \in {"idle", "inner", "signal", "post"}
  /\ outerCons \in
       [at : {"idle", "try", "claim", "spin", "wait", "undo", "redo", "trysema",
              "take", "inner"},
        op : OuterOps]

\* Where the threads are in the plain queue while they are in an operation of
\* this one; a queue of the plain kind has no such operations.
Nested ==
  /\ ~blocking => outerProd = "idle" /\ outerCons.at = "idle"
  /\ blocking => prod.at \notin {"size", "sized"} /\ cons.at \notin {"size", "sized"}
  /\ blocking /\ prod.at \in Busy => outerProd = "inner"
  /\ outerProd = "inner" =>
       puts = putBefore \/ (puts = putBefore + 1 /\ prod.at = "idle")
  /\ outerCons.at \notin {"idle", "inner"} => cons.at = "idle"
  /\ blocking /\ outerCons.at = "idle" /\ cons.at \in ConsBusy => cons.op = "peek"
  /\ prod.at = "gone" => outerProd = "idle" /\ outerCons.at = "idle"

\* A get of the consumer that has its token finds an item.
GetFinds ==
  outerCons.at = "inner" =>
    IF cons.at = "idle" THEN answer # 0
                        ELSE cons.op # "peek" /\ ~cons.wasEmpty

\* Items that are not counted yet; items counted off for the consumer, or that
\* it waits for; posts of the kernel's semaphore, done or to be done.
Uncounted ==
  IF outerProd = "signal" \/ (outerProd = "inner" /\ Enqueued) THEN 1 ELSE 0
CountedOff ==
  IF \/ outerCons.at \in {"wait", "undo", "trysema", "take"}
     \/ outerCons.at = "inner" /\ cons.at # "idle"
  THEN 1 ELSE 0
Posts == sema + IF outerProd = "post" THEN 1 ELSE 0

\* A waiter is posted when its item is counted, and before it is through it
\* takes that post, also when it has given up waiting in the meantime.
Balanced ==
  /\ Length = count + Uncounted + CountedOff
  /\ count >= IF outerCons.at \in {"wait", "undo"} THEN -1
              ELSE IF outerCons.at \in {"claim", "redo"} THEN 1 ELSE 0
  /\ Posts = IF \/ outerCons.at \in {"wait", "undo"} /\ count >= 0
                \/ outerCons.at \in {"redo", "trysema"}
             THEN 1 ELSE 0

\* After sem_timedwait has refused a deadline the balance is gone for good.
SemaInv ==
  /\ OuterTypeOK /\ Nested
  /\ blocking /\ ~refused => GetFinds /\ Balanced

----------------------------------------------------------------------------
(* The plain queue below.                                                  *)

\* Whatever the blocking queue does, the plain queue below sees its own calls.
LEMMA UsesQueue ==
  ASSUME BlockingNext
  PROVE  [Next]_vars
<1>1. CASE PlainCalls
  <2>1. Calls \/ Get("peek")  BY <1>1 DEF PlainCalls
  <2>2. "peek" \in Ops  BY DEF Ops
  <2> QED BY <2>1, <2>2 DEF Next, Calls
<1>2. CASE BlockingCalls
  BY <1>2 DEF BlockingCalls, BlockingEnqueue, BlockingGet, ConsumerOuter, Next, Calls
<1>3. CASE ProducerRuns
  BY <1>3 DEF ProducerRuns, OuterProducerStep, InnerEnqueueDone, AddToCount, Post, Next
<1>4. CASE ConsumerRuns
  <2>1. CASE InnerGet
    <3>1. InnerOp(outerCons.op) \in Ops  BY DEF InnerOp, Ops
    <3>2. Get(InnerOp(outerCons.op))  BY <2>1 DEF InnerGet
    <3> QED BY <3>1, <3>2 DEF Next, Calls
  <2>2. CASE OuterConsumerStep /\ ~InnerGet
    BY <2>2 DEF OuterConsumerStep, TryWait, SpinSees, Claim, SpinEnds, SemaWait,
       SemaTimeout, SemaRefused, Undo, Redo, TrySema, InnerGetDone, ConsumerOuter
  <2>3. CASE ConsumerStep  BY <2>3 DEF Next
  <2> QED BY <1>4, <2>1, <2>2, <2>3 DEF ConsumerRuns
<1>5. CASE DestroyBoth  BY <1>5 DEF DestroyBoth, Next
<1> QED BY <1>1, <1>2, <1>3, <1>4, <1>5 DEF BlockingNext

\* A blocking queue runs the plain queue below only in ways SpscQueue allows: what
\* is proved of the plain queue holds of it (readerwriterqueue.h 599-812).
THEOREM BlockingUsesQueue == BlockingSpec => Spec
<1>1. BlockingInit => Init  BY DEF BlockingInit
<1>2. [BlockingNext]_blockingVars => [Next]_vars
  <2>1. CASE UNCHANGED blockingVars  BY <2>1 DEF blockingVars
  <2>2. CASE BlockingNext  BY <2>2, UsesQueue
  <2> QED BY <2>1, <2>2
<1> QED BY <1>1, <1>2, PTL DEF BlockingSpec, Spec

\* A step of the producer inside enqueue or try_enqueue.
LEMMA ProducerInside ==
  ASSUME Inv, ProducerStep, prod.at \notin {"size", "sized"}
  PROVE  /\ made' = made /\ cons' = cons /\ taken' = taken /\ answer' = answer
         /\ prod.at \in Busy
         /\ \/ prod'.at \in Busy \cup {"idle"} /\ puts' = puts
            \/ prod'.at = "idle" /\ puts' = puts + 1
<1>1. prod \in ProdType  BY DEF Inv, IInv, TypeOK
<1>2. ~SizeStep("producer") /\ ~SizeReturn("producer")
  BY DEF SizeStep, SizeReturn, SizeGoes, ProdGoes
<1>3. {"refresh", "write", "publish", "full", "ahead", "alloc", "link", "advance"} \subseteq Busy
  BY DEF Busy
<1>4. ASSUME NEW from, NEW to, ProdGoes(from, to)
      PROVE  prod.at = from /\ prod'.at = to
  BY <1>1, <1>4 DEF ProdGoes, ProdType, IdleProd
<1>5. CASE \/ RefreshFront \/ WriteSlot \/ UseNextBlock \/ OutOfMemory \/ LinkBlock
  <2>1. /\ \E from \in Busy, to \in Busy \cup {"idle"} : ProdGoes(from, to)
        /\ ProducerOnly /\ puts' = puts
    BY <1>3, <1>5 DEF RefreshFront, WriteSlot, UseNextBlock, OutOfMemory, LinkBlock
  <2> QED BY <1>4, <2>1 DEF ProducerOnly
<1>6. CASE PublishTail
  <2>1. CASE prod.to = tailBlock
    <3>1. ProdGoes("publish", "idle") /\ puts' = puts + 1 /\ ProducerOnly
      BY <1>6, <2>1 DEF PublishTail
    <3> QED BY <1>3, <1>4, <3>1 DEF ProducerOnly
  <2>2. CASE prod.to # tailBlock
    <3>1. ProdGoes("publish", "advance") /\ puts' = puts /\ ProducerOnly
      BY <1>6, <2>2 DEF PublishTail
    <3> QED BY <1>3, <1>4, <3>1 DEF ProducerOnly
  <2> QED BY <2>1, <2>2
<1>7. CASE TailBlockFull
  <2>1. puts' = puts /\ ProducerOnly /\ prod.at = "full"
    BY <1>7 DEF TailBlockFull, ProdGoes
  <2>2. prod'.at \in {"ahead", "alloc", "idle"}
    <3>1. CASE NextFree
      BY <1>1, <1>7, <3>1 DEF TailBlockFull, ProdType
    <3>2. CASE ~NextFree
      <4>1. \E to \in {"alloc", "idle"} : ProdGoes("full", to)
        BY <1>7, <3>2 DEF TailBlockFull
      <4> QED BY <1>4, <4>1
    <3> QED BY <3>1, <3>2
  <2> QED BY <1>3, <2>1, <2>2 DEF ProducerOnly
<1>8. CASE AllocateBlock
  <2>1. prod.at = "alloc" /\ prod'.at = "link" /\ puts' = puts /\ ProducerOnly
    BY <1>1, <1>8 DEF AllocateBlock, ProdType
  <2> QED BY <1>3, <2>1 DEF ProducerOnly
<1>9. CASE AdvanceTail
  <2>1. ProdGoes("advance", "idle") /\ puts' = puts + 1 /\ ProducerOnly  BY <1>9 DEF AdvanceTail
  <2> QED BY <1>3, <1>4, <2>1 DEF ProducerOnly
<1> QED BY <1>2, <1>5, <1>6, <1>7, <1>8, <1>9 DEF ProducerStep

\* A step of the consumer inside try_dequeue, peek or pop: the last one takes an
\* item, unless it only looked, or the queue was empty when it was called.
LEMMA ConsumerInside ==
  ASSUME Inv, ConsumerStep, cons.at \notin {"size", "sized"}
  PROVE  /\ made' = made /\ prod' = prod /\ puts' = puts
         /\ cons.at \in ConsBusy
         /\ \/ /\ cons'.at \in ConsBusy /\ cons'.op = cons.op
               /\ cons'.wasEmpty = cons.wasEmpty /\ taken' = taken
            \/ /\ cons'.at = "idle" /\ cons.op # "peek"
               /\ taken' = taken + 1 /\ answer' # 0
            \/ /\ cons'.at = "idle" /\ taken' = taken
               /\ cons.op = "peek" \/ cons.wasEmpty
<1>1. cons \in ConsType /\ TypeOK  BY DEF Inv, IInv, TypeOK
<1>2. ~SizeStep("consumer") /\ ~SizeReturn("consumer")
  BY DEF SizeStep, SizeReturn, SizeGoes, ConsGoes, SizeGoes
<1>3. {"take", "refresh", "tailblock", "recheck", "next", "advance", "front"} \subseteq ConsBusy
  BY DEF ConsBusy
<1>4. ASSUME NEW from, NEW to \in ConsBusy, ConsGoes(from, to)
      PROVE  /\ cons.at = from /\ cons'.at = to /\ cons'.op = cons.op
             /\ cons'.wasEmpty = cons.wasEmpty
  BY <1>1, <1>4 DEF ConsGoes, ConsType, ConsBusy
<1>5. ASSUME NEW from, ConsGoes(from, "idle")
      PROVE  cons.at = from /\ cons'.at = "idle"
  BY <1>5 DEF ConsGoes, IdleCons
<1>6. PICK m \in Nat : \E T \in 0..(m - 1) :
        \E ring \in [Nat -> Nat], lo \in [Nat -> Nat] : Good(m, ring, T, lo)
  BY DEF Inv, IInv
<1>7. PICK T \in 0..(m - 1) :
        \E ring \in [Nat -> Nat], lo \in [Nat -> Nat] : Good(m, ring, T, lo)
  BY <1>6
<1>8. PICK ring \in [Nat -> Nat], lo \in [Nat -> Nat] : Good(m, ring, T, lo)  BY <1>7
<1>9. /\ Room(m) /\ ConsInv(T) /\ Shape(m, ring, T) /\ Chain(m, ring, T, lo)
  BY <1>8 DEF Good
<1>10. CASE LookAtTail \/ Recheck \/ AdvanceFront
  <2>1. /\ \E from, to \in ConsBusy : ConsGoes(from, to)
        /\ ConsumerOnly /\ taken' = taken
    BY <1>3, <1>10 DEF LookAtTail, Recheck, RefreshTail, AdvanceFront
  <2> QED BY <1>4, <2>1 DEF ConsumerOnly
<1>11. CASE LookAtTailBlock
  <2>1. /\ ConsumerOnly /\ taken' = taken
        /\ ConsGoes("tailblock", IF frontBlock = tailBlock THEN "idle" ELSE "recheck")
    BY <1>11 DEF LookAtTailBlock
  <2>2. CASE frontBlock = tailBlock
    <3>1. cons.at = "tailblock" /\ cons'.at = "idle"  BY <1>5, <2>1, <2>2
    <3>2. T = 0  BY <1>1, <1>9, <2>2, ChainEnds
    <3>3. cons.wasEmpty  BY <1>9, <3>1, <3>2 DEF ConsInv
    <3> QED BY <1>3, <2>1, <3>1, <3>3 DEF ConsumerOnly
  <2>3. CASE frontBlock # tailBlock
    <3>1. ConsGoes("tailblock", "recheck")  BY <2>1, <2>3
    <3> QED BY <1>3, <1>4, <2>1, <3>1 DEF ConsumerOnly
  <2> QED BY <2>2, <2>3
<1>12. CASE LookAtNext
  <2>1. /\ ConsumerOnly /\ taken' = taken
        /\ ConsGoes("next", IF cons.op = "peek" THEN "idle" ELSE "advance")
    BY <1>12 DEF LookAtNext
  <2>2. CASE cons.op = "peek"
    <3>1. ConsGoes("next", "idle")  BY <2>1, <2>2
    <3> QED BY <1>3, <1>5, <2>1, <2>2, <3>1 DEF ConsumerOnly
  <2>3. CASE cons.op # "peek"
    <3>1. ConsGoes("next", "advance")  BY <2>1, <2>3
    <3> QED BY <1>3, <1>4, <2>1, <3>1 DEF ConsumerOnly
  <2> QED BY <2>2, <2>3
<1>13. CASE TakeSlot
  <2>1. /\ ConsumerOnly /\ taken' = taken
        /\ ConsGoes("take", IF cons.op = "peek" THEN "idle" ELSE "front")
    BY <1>13 DEF TakeSlot
  <2>2. CASE cons.op = "peek"
    <3>1. ConsGoes("take", "idle")  BY <2>1, <2>2
    <3> QED BY <1>3, <1>5, <2>1, <2>2, <3>1 DEF ConsumerOnly
  <2>3. CASE cons.op # "peek"
    <3>1. ConsGoes("take", "front")  BY <2>1, <2>3
    <3> QED BY <1>3, <1>4, <2>1, <3>1 DEF ConsumerOnly
  <2> QED BY <2>2, <2>3
<1>14. CASE GiveUpSlot
  <2>1. /\ ConsumerOnly /\ taken' = taken + 1 /\ answer' = answer
        /\ ConsGoes("front", "idle")
    BY <1>14 DEF GiveUpSlot
  <2>2. cons.at = "front" /\ cons'.at = "idle"  BY <1>5, <2>1
  <2>3. cons.op # "peek" /\ answer = taken + 1  BY <1>9, <2>2 DEF ConsInv
  <2>4. answer # 0  BY <1>1, <2>3 DEF TypeOK
  <2> QED BY <1>3, <2>1, <2>2, <2>3, <2>4 DEF ConsumerOnly
<1> QED BY <1>2, <1>10, <1>11, <1>12, <1>13, <1>14 DEF ConsumerStep

----------------------------------------------------------------------------
(* The semaphore.                                                          *)

ConsPlaces ==
  {"idle", "try", "claim", "spin", "wait", "undo", "redo", "trysema", "take", "inner"}

\* Where the consumer is after it has moved on.
LEMMA OuterConsGoesFacts ==
  ASSUME OuterTypeOK, NEW from, NEW to \in ConsPlaces, OuterConsGoes(from, to)
  PROVE  /\ outerCons.at = from /\ outerCons'.at = to /\ outerCons'.op = outerCons.op
         /\ outerCons' \in [at : ConsPlaces, op : OuterOps]
BY DEF OuterTypeOK, OuterConsGoes, ConsPlaces

\* What a step of the plain queue, or of the semaphore only, leaves alone.
QueueSame == /\ made' = made /\ prod' = prod /\ cons' = cons
             /\ puts' = puts /\ taken' = taken /\ answer' = answer
OuterSame == /\ count' = count /\ sema' = sema /\ outerProd' = outerProd
             /\ outerCons' = outerCons /\ putBefore' = putBefore /\ refused' = refused

\* The numbers are numbers.
LEMMA Numbers ==
  ASSUME Inv, SemaInv
  PROVE  /\ puts \in Nat /\ taken \in Nat /\ answer \in Nat
         /\ count \in Int /\ sema \in Nat /\ putBefore \in Nat
         /\ prod \in ProdType /\ cons \in ConsType
BY DEF Inv, IInv, TypeOK, SemaInv, OuterTypeOK

\* The consumer waits, counts itself off, gives up, is posted: in all of these the
\* plain queue rests.
LEMMA ConsumerOuterStep ==
  ASSUME Inv, SemaInv, QueueSame,
         outerProd' = outerProd, putBefore' = putBefore, refused' = refused,
         NEW from \in ConsPlaces, NEW to \in ConsPlaces, OuterConsGoes(from, to),
         blocking => cons.at = "idle",
         from # "idle" => blocking,
         blocking \/ to = "idle",
         to # "inner", prod.at # "gone",
         count' \in Int, sema' \in Nat,
         blocking /\ ~refused => GetFinds' /\ Balanced'
  PROVE  SemaInv'
<1>1. /\ outerCons.at = from /\ outerCons'.at = to
      /\ outerCons' \in [at : ConsPlaces, op : OuterOps]
  BY OuterConsGoesFacts DEF SemaInv
<1>2. OuterTypeOK'  BY <1>1 DEF SemaInv, OuterTypeOK, ConsPlaces
<1>3. Nested'  BY <1>1 DEF SemaInv, Nested, QueueSame, blocking, ConsBusy
<1>4. (blocking /\ ~refused)' = (blocking /\ ~refused)  BY DEF QueueSame, blocking
<1> QED BY <1>2, <1>3, <1>4 DEF SemaInv

\* Every step of the consumer in the semaphore keeps the balance.
LEMMA ConsumerOuterKeeps ==
  ASSUME Inv, SemaInv, OuterConsumerStep, ~InnerGet, ~SemaRefused
  PROVE  SemaInv'
<1>1. /\ QueueSame /\ outerProd' = outerProd /\ putBefore' = putBefore /\ refused' = refused
  BY DEF OuterConsumerStep, TryWait, SpinSees, Claim, SpinEnds, SemaWait, SemaTimeout,
         Undo, UndoOutcome, Redo, TrySema, InnerGetDone, ConsumerOuter, vars, indexVars, QueueSame
<1>2. /\ OuterTypeOK /\ Nested /\ (blocking /\ ~refused => GetFinds /\ Balanced)
      /\ puts \in Nat /\ taken \in Nat /\ count \in Int /\ sema \in Nat /\ putBefore \in Nat
  BY Numbers DEF SemaInv
<1>3. outerCons.at # "idle" => blocking /\ prod.at # "gone"  BY <1>2 DEF Nested
<1>4. outerCons.at \notin {"idle", "inner"} => cons.at = "idle"  BY <1>2 DEF Nested
<1>5. ASSUME NEW from \in ConsPlaces \ {"idle"}, NEW to \in ConsPlaces \ {"inner"},
             OuterConsGoes(from, to), cons.at = "idle", count' \in Int, sema' \in Nat,
             ~refused /\ outerCons'.at = to => Balanced'
      PROVE  SemaInv'
  <2>1. outerCons.at = from /\ outerCons'.at = to  BY <1>2, <1>5, OuterConsGoesFacts
  <2>2. blocking /\ prod.at # "gone"  BY <1>3, <1>5, <2>1
  <2>3. GetFinds'  BY <1>5, <2>1 DEF GetFinds
  <2> QED BY <1>1, <1>5, <2>1, <2>2, <2>3, ConsumerOuterStep
<1>6. ConsPlaces =
        {"idle", "try", "claim", "spin", "wait", "undo", "redo", "trysema", "take", "inner"}
  BY DEF ConsPlaces
<1>7. CASE TryWait
  <2>1. PICK to \in {"claim", "spin", "idle"} : OuterConsGoes("try", to) /\ (to = "claim" => count > 0)
    BY <1>7 DEF TryWait
  <2>2. count' = count /\ sema' = sema  BY <1>7 DEF TryWait, semaVars
  <2>3. outerCons.at = "try" /\ outerCons'.at = to  BY <1>2, <1>6, <2>1, OuterConsGoesFacts
  <2>4. ~refused => Balanced'
    BY <1>1, <1>2, <1>3, <2>1, <2>2, <2>3
    DEF Balanced, Length, Uncounted, CountedOff, Posts, Enqueued, QueueSame
  <2> QED BY <1>2, <1>4, <1>5, <1>6, <2>1, <2>2, <2>3, <2>4
<1>8. CASE SpinSees
  <2>1. OuterConsGoes("spin", "claim") /\ count > 0 /\ count' = count /\ sema' = sema
    BY <1>8 DEF SpinSees, semaVars
  <2>2. outerCons.at = "spin" /\ outerCons'.at = "claim"  BY <1>2, <1>6, <2>1, OuterConsGoesFacts
  <2>3. ~refused => Balanced'
    BY <1>1, <1>2, <1>3, <2>1, <2>2
    DEF Balanced, Length, Uncounted, CountedOff, Posts, Enqueued, QueueSame
  <2> QED BY <1>2, <1>4, <1>5, <1>6, <2>1, <2>2, <2>3
<1>9. CASE Claim
  <2>1. OuterConsGoes("claim", "take") /\ count' = count - 1 /\ sema' = sema
    BY <1>9 DEF Claim
  <2>2. outerCons.at = "claim" /\ outerCons'.at = "take"  BY <1>2, <1>6, <2>1, OuterConsGoesFacts
  <2>3. ~refused => Balanced'
    BY <1>1, <1>2, <1>3, <2>1, <2>2
    DEF Balanced, Length, Uncounted, CountedOff, Posts, Enqueued, QueueSame
  <2> QED BY <1>2, <1>4, <1>5, <1>6, <2>1, <2>2, <2>3
<1>10. CASE SpinEnds
  <2>1. PICK to \in {"take", "wait"} :
          OuterConsGoes("spin", to) /\ (to = "take" <=> count > 0)
    BY <1>10 DEF SpinEnds
  <2>2. count' = count - 1 /\ sema' = sema  BY <1>10 DEF SpinEnds
  <2>3. outerCons.at = "spin" /\ outerCons'.at = to  BY <1>2, <1>6, <2>1, OuterConsGoesFacts
  <2>4. ~refused => Balanced'
    BY <1>1, <1>2, <1>3, <2>1, <2>2, <2>3
    DEF Balanced, Length, Uncounted, CountedOff, Posts, Enqueued, QueueSame
  <2> QED BY <1>2, <1>4, <1>5, <1>6, <2>1, <2>2, <2>3, <2>4
<1>11. CASE SemaWait
  <2>1. OuterConsGoes("wait", "take") /\ count' = count /\ sema > 0 /\ sema' = sema - 1
    BY <1>11 DEF SemaWait
  <2>2. outerCons.at = "wait" /\ outerCons'.at = "take"  BY <1>2, <1>6, <2>1, OuterConsGoesFacts
  <2>3. ~refused => Balanced'
    BY <1>1, <1>2, <1>3, <2>1, <2>2
    DEF Balanced, Length, Uncounted, CountedOff, Posts, Enqueued, QueueSame
  <2> QED BY <1>2, <1>4, <1>5, <1>6, <2>1, <2>2, <2>3
<1>12. CASE SemaTimeout
  <2>1. OuterConsGoes("wait", "undo") /\ count' = count /\ sema' = sema
    BY <1>12 DEF SemaTimeout, semaVars
  <2>2. outerCons.at = "wait" /\ outerCons'.at = "undo"  BY <1>2, <1>6, <2>1, OuterConsGoesFacts
  <2>3. ~refused => Balanced'
    BY <1>1, <1>2, <1>3, <2>1, <2>2
    DEF Balanced, Length, Uncounted, CountedOff, Posts, Enqueued, QueueSame
  <2> QED BY <1>2, <1>4, <1>5, <1>6, <2>1, <2>2, <2>3
<1>13. CASE Undo
  <2>1. PICK to \in {"idle", "redo"} :
          OuterConsGoes("undo", to) /\ (to = "idle" <=> count < 0)
    BY <1>13 DEF Undo, UndoOutcome
  <2>2. count' = count + 1 /\ sema' = sema  BY <1>13 DEF Undo
  <2>3. outerCons.at = "undo" /\ outerCons'.at = to  BY <1>2, <1>6, <2>1, OuterConsGoesFacts
  <2>4. ~refused => Balanced'
    BY <1>1, <1>2, <1>3, <2>1, <2>2, <2>3
    DEF Balanced, Length, Uncounted, CountedOff, Posts, Enqueued, QueueSame
  <2> QED BY <1>2, <1>4, <1>5, <1>6, <2>1, <2>2, <2>3, <2>4
<1>14. CASE Redo
  <2>1. PICK to \in {"trysema", "undo"} :
          OuterConsGoes("redo", to) /\ (to = "trysema" <=> count > 0)
    BY <1>14 DEF Redo
  <2>2. count' = count - 1 /\ sema' = sema  BY <1>14 DEF Redo
  <2>3. outerCons.at = "redo" /\ outerCons'.at = to  BY <1>2, <1>6, <2>1, OuterConsGoesFacts
  <2>4. ~refused => Balanced'
    BY <1>1, <1>2, <1>3, <2>1, <2>2, <2>3
    DEF Balanced, Length, Uncounted, CountedOff, Posts, Enqueued, QueueSame
  <2> QED BY <1>2, <1>4, <1>5, <1>6, <2>1, <2>2, <2>3, <2>4
<1>15. CASE TrySema
  <2>1. PICK to \in {"take", "undo"} :
          OuterConsGoes("trysema", to) /\ (to = "take" <=> sema > 0)
    BY <1>15 DEF TrySema
  <2>2. count' = count /\ sema' = IF sema > 0 THEN sema - 1 ELSE sema  BY <1>15 DEF TrySema
  <2>3. sema' \in Nat  BY <1>2, <2>2
  <2>4. outerCons.at = "trysema" /\ outerCons'.at = to  BY <1>2, <1>6, <2>1, OuterConsGoesFacts
  <2>5. ~refused => Balanced'
    BY <1>1, <1>2, <1>3, <2>1, <2>2, <2>4
    DEF Balanced, Length, Uncounted, CountedOff, Posts, Enqueued, QueueSame
  <2> QED BY <1>2, <1>4, <1>5, <1>6, <2>1, <2>2, <2>3, <2>4, <2>5
<1>16. CASE InnerGetDone
  <2>1. OuterConsGoes("inner", "idle") /\ cons.at = "idle" /\ count' = count /\ sema' = sema
    BY <1>16 DEF InnerGetDone, semaVars
  <2>2. outerCons.at = "inner" /\ outerCons'.at = "idle"  BY <1>2, <1>6, <2>1, OuterConsGoesFacts
  <2>3. ~refused => Balanced'
    BY <1>1, <1>2, <1>3, <2>1, <2>2
    DEF Balanced, Length, Uncounted, CountedOff, Posts, Enqueued, QueueSame
  <2> QED BY <1>2, <1>5, <1>6, <2>1, <2>2, <2>3
<1> QED BY <1>7, <1>8, <1>9, <1>10, <1>11, <1>12, <1>13, <1>14, <1>15, <1>16 DEF OuterConsumerStep

\* A refused deadline ends the balance.
LEMMA RefusedKeeps ==
  ASSUME Inv, SemaInv, SemaRefused
  PROVE  SemaInv'
<1>1. /\ QueueSame /\ outerProd' = outerProd /\ putBefore' = putBefore /\ refused' = TRUE
      /\ count' = count /\ sema' = sema /\ OuterConsGoes("wait", "take")
  BY DEF SemaRefused, vars, indexVars, semaVars, QueueSame
<1>2. /\ outerCons.at = "wait" /\ outerCons'.at = "take"
      /\ outerCons' \in [at : ConsPlaces, op : OuterOps]
  BY <1>1, OuterConsGoesFacts DEF SemaInv, ConsPlaces
<1>3. OuterTypeOK'  BY <1>1, <1>2 DEF SemaInv, OuterTypeOK, ConsPlaces
<1>4. Nested'  BY <1>1, <1>2 DEF SemaInv, Nested, QueueSame, blocking
<1> QED BY <1>1, <1>3, <1>4 DEF SemaInv

\* The producer counts an item and posts a waiter.
LEMMA ProducerOuterKeeps ==
  ASSUME Inv, SemaInv, OuterProducerStep
  PROVE  SemaInv'
<1>1. /\ QueueSame /\ outerCons' = outerCons /\ putBefore' = putBefore /\ refused' = refused
  BY DEF OuterProducerStep, InnerEnqueueDone, AddToCount, Post, vars, indexVars, QueueSame
<1>2. /\ OuterTypeOK /\ Nested /\ (blocking /\ ~refused => GetFinds /\ Balanced)
      /\ puts \in Nat /\ taken \in Nat /\ count \in Int /\ sema \in Nat /\ putBefore \in Nat
  BY Numbers DEF SemaInv
<1>3. /\ blocking' = blocking /\ GetFinds' = GetFinds /\ Length' = Length
  BY <1>1 DEF QueueSame, blocking, GetFinds, Length
<1>4. CASE InnerEnqueueDone
  <2>1. /\ outerProd = "inner" /\ prod.at = "idle" /\ count' = count /\ sema' = sema
        /\ outerProd' = IF Enqueued THEN "signal" ELSE "idle"
    BY <1>4 DEF InnerEnqueueDone, OuterProdGoes, semaVars
  <2>2. OuterTypeOK'  BY <1>1, <1>2, <2>1 DEF OuterTypeOK
  <2>3. Nested'  BY <1>1, <1>2, <2>1 DEF Nested, QueueSame, blocking, Busy
  <2>4. Balanced => Balanced'
    BY <1>1, <1>2, <1>3, <2>1 DEF Balanced, Uncounted, CountedOff, Posts, Enqueued, QueueSame
  <2> QED BY <1>1, <1>2, <1>3, <2>2, <2>3, <2>4 DEF SemaInv
<1>5. CASE AddToCount
  <2>1. /\ outerProd = "signal" /\ count' = count + 1 /\ sema' = sema
        /\ outerProd' = IF count < 0 THEN "post" ELSE "idle"
    BY <1>5 DEF AddToCount, OuterProdGoes, Waiter
  <2>2. OuterTypeOK'  BY <1>1, <1>2, <2>1 DEF OuterTypeOK
  <2>3. Nested'  BY <1>1, <1>2, <2>1 DEF Nested, QueueSame, blocking
  <2>4. Balanced => Balanced'
    BY <1>1, <1>2, <1>3, <2>1 DEF Balanced, Uncounted, CountedOff, Posts, Enqueued, QueueSame
  <2> QED BY <1>1, <1>2, <1>3, <2>2, <2>3, <2>4 DEF SemaInv
<1>6. CASE Post
  <2>1. outerProd = "post" /\ outerProd' = "idle" /\ count' = count /\ sema' = sema + 1
    BY <1>6 DEF Post, OuterProdGoes
  <2>2. OuterTypeOK'  BY <1>1, <1>2, <2>1 DEF OuterTypeOK
  <2>3. Nested'  BY <1>1, <1>2, <2>1 DEF Nested, QueueSame, blocking
  <2>4. Balanced => Balanced'
    BY <1>1, <1>2, <1>3, <2>1 DEF Balanced, Uncounted, CountedOff, Posts, Enqueued, QueueSame
  <2> QED BY <1>1, <1>2, <1>3, <2>2, <2>3, <2>4 DEF SemaInv
<1> QED BY <1>4, <1>5, <1>6 DEF OuterProducerStep

\* Inside enqueue or try_enqueue an item more is an item not counted yet.
LEMMA ProducerInsideKeeps ==
  ASSUME Inv, SemaInv, ProducerStep, UNCHANGED outerVars
  PROVE  SemaInv'
<1>1. OuterSame  BY DEF outerVars, semaVars, OuterSame
<1>2. /\ OuterTypeOK /\ Nested /\ (blocking /\ ~refused => GetFinds /\ Balanced)
      /\ puts \in Nat /\ taken \in Nat /\ count \in Int /\ sema \in Nat /\ putBefore \in Nat
  BY Numbers DEF SemaInv
<1>3. OuterTypeOK'  BY <1>1, <1>2 DEF OuterTypeOK, OuterSame
<1>4. CASE ~blocking
  <2>1. made' = made
    BY DEF ProducerStep, RefreshFront, WriteSlot, PublishTail, TailBlockFull, UseNextBlock,
       OutOfMemory, AllocateBlock, LinkBlock, AdvanceTail, SizeStep, SizeReturn, ProducerOnly
  <2>2. Nested'  BY <1>1, <1>2, <1>4, <2>1 DEF Nested, OuterSame, blocking
  <2> QED BY <1>3, <1>4, <2>1, <2>2 DEF SemaInv, blocking
<1>5. CASE blocking
  <2>1. prod.at \notin {"size", "sized"}  BY <1>2, <1>5 DEF Nested
  <2>2. /\ made' = made /\ cons' = cons /\ taken' = taken /\ answer' = answer
        /\ prod.at \in Busy
        /\ \/ prod'.at \in Busy \cup {"idle"} /\ puts' = puts
           \/ prod'.at = "idle" /\ puts' = puts + 1
    BY <2>1, ProducerInside
  <2>3. outerProd = "inner" /\ puts = putBefore  BY <1>2, <1>5, <2>2 DEF Nested, Busy
  <2>4. Nested'  BY <1>1, <1>2, <1>5, <2>2, <2>3 DEF Nested, OuterSame, blocking, Busy
  <2>5. GetFinds' = GetFinds  BY <1>1, <2>2 DEF GetFinds, OuterSame
  <2>6. Balanced => Balanced'
    BY <1>1, <1>2, <2>2, <2>3
    DEF Balanced, Length, Uncounted, CountedOff, Posts, Enqueued, OuterSame
  <2> QED BY <1>1, <1>2, <1>3, <1>5, <2>2, <2>4, <2>5, <2>6 DEF SemaInv, OuterSame, blocking
<1> QED BY <1>4, <1>5

\* Inside try_dequeue or pop the item counted off for the consumer is taken.
LEMMA ConsumerInsideKeeps ==
  ASSUME Inv, SemaInv, ConsumerStep, UNCHANGED outerVars
  PROVE  SemaInv'
<1>1. OuterSame  BY DEF outerVars, semaVars, OuterSame
<1>2. /\ OuterTypeOK /\ Nested /\ (blocking /\ ~refused => GetFinds /\ Balanced)
      /\ puts \in Nat /\ taken \in Nat /\ count \in Int /\ sema \in Nat /\ putBefore \in Nat
  BY Numbers DEF SemaInv
<1>3. OuterTypeOK'  BY <1>1, <1>2 DEF OuterTypeOK, OuterSame
<1>4. CASE ~blocking
  <2>1. made' = made
    BY DEF ConsumerStep, LookAtTail, LookAtTailBlock, Recheck, RefreshTail, LookAtNext,
       AdvanceFront, TakeSlot, GiveUpSlot, SizeStep, SizeReturn, ConsumerOnly
  <2>2. Nested'  BY <1>1, <1>2, <1>4, <2>1 DEF Nested, OuterSame, blocking
  <2> QED BY <1>3, <1>4, <2>1, <2>2 DEF SemaInv, blocking
<1>5. CASE blocking
  <2>1. cons.at \notin {"size", "sized"}  BY <1>2, <1>5 DEF Nested
  <2>2. /\ made' = made /\ prod' = prod /\ puts' = puts
        /\ cons.at \in ConsBusy
        /\ \/ /\ cons'.at \in ConsBusy /\ cons'.op = cons.op
              /\ cons'.wasEmpty = cons.wasEmpty /\ taken' = taken
           \/ /\ cons'.at = "idle" /\ cons.op # "peek"
              /\ taken' = taken + 1 /\ answer' # 0
           \/ /\ cons'.at = "idle" /\ taken' = taken
              /\ cons.op = "peek" \/ cons.wasEmpty
    BY <2>1, ConsumerInside
  <2>3. cons.at # "idle"  BY <2>2 DEF ConsBusy
  <2>4. Nested'  BY <1>1, <1>2, <1>5, <2>2, <2>3 DEF Nested, OuterSame, blocking, ConsBusy
  <2>5. GetFinds => GetFinds'  BY <1>1, <2>2, <2>3 DEF GetFinds, OuterSame, ConsBusy
  <2>6. ASSUME GetFinds, Balanced
        PROVE  Balanced'
    <3>1. CASE outerCons.at # "inner"
      <4>1. cons.op = "peek"  BY <1>2, <1>5, <2>2, <2>3, <3>1 DEF Nested
      <4>2. taken' = taken  BY <2>2, <4>1
      <4> QED BY <1>1, <1>2, <2>2, <2>6, <3>1, <4>2
              DEF Balanced, Length, Uncounted, CountedOff, Posts, Enqueued, OuterSame
    <3>2. CASE outerCons.at = "inner"
      <4>1. cons.op # "peek" /\ ~cons.wasEmpty  BY <2>3, <2>6, <3>2 DEF GetFinds
      <4> QED BY <1>1, <1>2, <2>2, <2>3, <2>6, <3>2, <4>1
              DEF Balanced, Length, Uncounted, CountedOff, Posts, Enqueued, OuterSame, ConsBusy
    <3> QED BY <3>1, <3>2
  <2> QED BY <1>1, <1>2, <1>3, <1>5, <2>2, <2>4, <2>5, <2>6 DEF SemaInv, OuterSame, blocking
<1> QED BY <1>4, <1>5

\* A call, of the plain or the blocking operations.
LEMMA CallsKeep ==
  ASSUME Inv, SemaInv, PlainCalls \/ BlockingCalls
  PROVE  SemaInv'
<1>1. /\ OuterTypeOK /\ Nested /\ (blocking /\ ~refused => GetFinds /\ Balanced)
      /\ puts \in Nat /\ taken \in Nat /\ count \in Int /\ sema \in Nat /\ putBefore \in Nat
      /\ prod.at = "gone" <=> cons.at = "gone"
  BY Numbers DEF SemaInv, Inv, IInv, TypeOK
<1>2. CASE ~blocking /\ Calls /\ UNCHANGED outerVars
  <2>1. OuterSame  BY <1>2 DEF outerVars, semaVars, OuterSame
  <2>2. made' = made
    BY <1>2 DEF Calls, Enqueue, Get, SizeApprox, ProducerOnly, ConsumerOnly
  <2>3. OuterTypeOK'  BY <1>1, <2>1 DEF OuterTypeOK, OuterSame
  <2>4. Nested'  BY <1>1, <1>2, <2>1, <2>2 DEF Nested, OuterSame, blocking
  <2> QED BY <1>2, <2>2, <2>3, <2>4 DEF SemaInv, blocking
<1>3. CASE outerCons.at = "idle" /\ Get("peek") /\ UNCHANGED outerVars
  <2>1. OuterSame  BY <1>3 DEF outerVars, semaVars, OuterSame
  <2>2. /\ made' = made /\ prod' = prod /\ puts' = puts /\ taken' = taken
        /\ cons.at = "idle" /\ cons'.at \in {"take", "refresh"} /\ cons'.op = "peek"
    BY <1>3 DEF Get, ConsumerOnly
  <2>3. OuterTypeOK'  BY <1>1, <2>1 DEF OuterTypeOK, OuterSame
  <2>4. Nested'  BY <1>1, <1>3, <2>1, <2>2 DEF Nested, OuterSame, blocking
  <2>5. GetFinds'  BY <1>3, <2>1 DEF GetFinds, OuterSame
  <2>6. Balanced => Balanced'
    BY <1>1, <1>3, <2>1, <2>2
    DEF Balanced, Length, Uncounted, CountedOff, Posts, Enqueued, OuterSame
  <2> QED BY <1>1, <2>1, <2>2, <2>3, <2>4, <2>5, <2>6 DEF SemaInv, OuterSame, blocking
<1>4. CASE \E alloc \in BOOLEAN : BlockingEnqueue(alloc)
  <2>1. /\ blocking /\ outerProd = "idle" /\ outerProd' = "inner" /\ putBefore' = puts
        /\ count' = count /\ sema' = sema /\ outerCons' = outerCons /\ refused' = refused
        /\ prod.at = "idle" /\ prod'.at \in {"write", "refresh"}
        /\ made' = made /\ cons' = cons /\ puts' = puts /\ taken' = taken /\ answer' = answer
    BY <1>4 DEF BlockingEnqueue, OuterProdGoes, semaVars, Enqueue, ProducerOnly
  <2>2. OuterTypeOK'  BY <1>1, <2>1 DEF OuterTypeOK
  <2>3. Nested'  BY <1>1, <2>1 DEF Nested, blocking
  <2>4. GetFinds' = GetFinds  BY <2>1 DEF GetFinds
  <2>5. Balanced => Balanced'
    BY <1>1, <2>1 DEF Balanced, Length, Uncounted, CountedOff, Posts, Enqueued
  <2> QED BY <1>1, <2>1, <2>2, <2>3, <2>4, <2>5 DEF SemaInv, blocking
<1>5. CASE \E op \in OuterOps : BlockingGet(op)
  <2>1. PICK op \in OuterOps : BlockingGet(op)  BY <1>5
  <2>2. /\ blocking /\ outerCons.at = "idle" /\ cons.at = "idle"
        /\ outerCons' = [at |-> "try", op |-> op]
        /\ QueueSame /\ outerProd' = outerProd /\ putBefore' = putBefore /\ refused' = refused
        /\ count' = count /\ sema' = sema
    BY <2>1 DEF BlockingGet, ConsumerOuter, semaVars, vars, indexVars, QueueSame
  <2>3. OuterTypeOK'  BY <1>1, <2>2 DEF OuterTypeOK
  <2>4. Nested'  BY <1>1, <2>2 DEF Nested, QueueSame, blocking
  <2>5. GetFinds'  BY <2>2 DEF GetFinds
  <2>6. Balanced => Balanced'
    BY <1>1, <2>2 DEF Balanced, Length, Uncounted, CountedOff, Posts, Enqueued, QueueSame
  <2> QED BY <1>1, <2>2, <2>3, <2>4, <2>5, <2>6 DEF SemaInv, QueueSame, blocking
<1> QED BY <1>2, <1>3, <1>4, <1>5 DEF PlainCalls, BlockingCalls

\* The consumer has its token, and so an item.
LEMMA InnerGetKeeps ==
  ASSUME Inv, SemaInv, InnerGet
  PROVE  SemaInv'
<1>1. /\ OuterTypeOK /\ Nested /\ (blocking /\ ~refused => GetFinds /\ Balanced)
      /\ puts \in Nat /\ taken \in Nat /\ count \in Int /\ sema \in Nat /\ putBefore \in Nat
  BY Numbers DEF SemaInv
<1>2. PICK op \in {"pop", "dequeue"} : op = InnerOp(outerCons.op)  BY DEF InnerOp
<1>3. /\ OuterConsGoes("take", "inner") /\ Get(op)
      /\ count' = count /\ sema' = sema /\ outerProd' = outerProd
      /\ putBefore' = putBefore /\ refused' = refused
  BY <1>2 DEF InnerGet, semaVars
<1>4. /\ outerCons.at = "take" /\ outerCons'.at = "inner"
      /\ outerCons' \in [at : ConsPlaces, op : OuterOps]
  BY <1>1, <1>3, OuterConsGoesFacts DEF ConsPlaces
<1>5. /\ made' = made /\ prod' = prod /\ puts' = puts /\ taken' = taken
      /\ cons.at = "idle" /\ cons'.at \in {"take", "refresh"} /\ cons'.op = op
      /\ cons'.wasEmpty = (Length = 0)
  BY <1>3 DEF Get, ConsumerOnly
<1>6. OuterTypeOK'  BY <1>1, <1>3, <1>4 DEF OuterTypeOK, ConsPlaces
<1>7. Nested'  BY <1>1, <1>3, <1>4, <1>5 DEF Nested, blocking
<1>8. ASSUME Balanced PROVE GetFinds' /\ Balanced'
  <2>1. Length # 0
    BY <1>1, <1>4, <1>8 DEF Balanced, Length, Uncounted, CountedOff
  <2>2. GetFinds'  BY <1>2, <1>4, <1>5, <2>1 DEF GetFinds
  <2>3. Balanced'
    BY <1>1, <1>3, <1>4, <1>5, <1>8
    DEF Balanced, Length, Uncounted, CountedOff, Posts, Enqueued
  <2> QED BY <2>2, <2>3
<1> QED BY <1>1, <1>3, <1>5, <1>6, <1>7, <1>8 DEF SemaInv, blocking

\* The destructor leaves the semaphore alone.
LEMMA DestroyKeeps ==
  ASSUME Inv, SemaInv, DestroyBoth
  PROVE  SemaInv'
<1>1. /\ OuterTypeOK /\ Nested /\ (blocking /\ ~refused => GetFinds /\ Balanced)
      /\ puts \in Nat /\ taken \in Nat /\ count \in Int /\ sema \in Nat
      /\ prod \in ProdType /\ cons \in ConsType
  BY Numbers DEF SemaInv
<1>2. /\ OuterSame /\ outerProd = "idle" /\ outerCons.at = "idle"
      /\ made' = made /\ puts' = puts /\ taken' = taken
      /\ prod' = [prod EXCEPT !.at = "gone"] /\ cons' = [cons EXCEPT !.at = "gone"]
  BY DEF DestroyBoth, Destroy, outerVars, semaVars, OuterSame
<1>3. prod'.at = "gone" /\ cons'.at = "gone"  BY <1>1, <1>2 DEF ProdType, ConsType
<1>4. OuterTypeOK'  BY <1>1, <1>2 DEF OuterTypeOK, OuterSame
<1>5. Nested'  BY <1>1, <1>2, <1>3 DEF Nested, OuterSame, blocking, Busy, ConsBusy
<1>6. GetFinds'  BY <1>2 DEF GetFinds, OuterSame
<1>7. Balanced => Balanced'
  BY <1>1, <1>2 DEF Balanced, Length, Uncounted, CountedOff, Posts, Enqueued, OuterSame
<1> QED BY <1>1, <1>2, <1>4, <1>5, <1>6, <1>7 DEF SemaInv, OuterSame, blocking

\* Every step keeps the invariant.
LEMMA SemaNext ==
  ASSUME Inv, SemaInv, [BlockingNext]_blockingVars
  PROVE  SemaInv'
<1>1. CASE UNCHANGED blockingVars
  <2>1. QueueSame /\ OuterSame
    BY <1>1 DEF blockingVars, vars, indexVars, outerVars, semaVars, QueueSame, OuterSame
  <2>2. OuterTypeOK'  BY <2>1 DEF SemaInv, OuterTypeOK, OuterSame
  <2>3. Nested'  BY <2>1 DEF SemaInv, Nested, QueueSame, OuterSame, blocking
  <2>4. (GetFinds /\ Balanced)' = (GetFinds /\ Balanced)
    BY <2>1 DEF GetFinds, Balanced, Length, Uncounted, CountedOff, Posts, Enqueued,
                QueueSame, OuterSame
  <2> QED BY <2>1, <2>2, <2>3, <2>4 DEF SemaInv, QueueSame, OuterSame, blocking
<1>2. CASE PlainCalls \/ BlockingCalls  BY <1>2, CallsKeep
<1>3. CASE ProducerRuns
  BY <1>3, ProducerOuterKeeps, ProducerInsideKeeps DEF ProducerRuns
<1>4. CASE ConsumerRuns
  BY <1>4, ConsumerOuterKeeps, ConsumerInsideKeeps, InnerGetKeeps, RefusedKeeps
  DEF ConsumerRuns
<1>5. CASE DestroyBoth  BY <1>5, DestroyKeeps
<1> QED BY <1>1, <1>2, <1>3, <1>4, <1>5 DEF BlockingNext

\* It holds when the queue has been made.
LEMMA SemaInit == BlockingInit => SemaInv
<1> SUFFICES ASSUME BlockingInit PROVE SemaInv
  OBVIOUS
<1>1. /\ puts = 0 /\ taken = 0 /\ prod.at = "idle" /\ cons.at = "idle"
      /\ count = 0 /\ sema = 0 /\ outerProd = "idle"
      /\ outerCons = [at |-> "idle", op |-> "pop"] /\ putBefore = 0 /\ refused = FALSE
  BY DEF BlockingInit, Init, IdleProd, IdleCons
<1>2. OuterTypeOK
  <2>1. "pop" \in OuterOps  BY DEF OuterOps
  <2>2. refused \in BOOLEAN  BY <1>1
  <2>3. outerCons \in [at : ConsPlaces, op : OuterOps]  BY <1>1, <2>1 DEF ConsPlaces
  <2>4. outerProd \in {"idle", "inner", "signal", "post"}  BY <1>1
  <2>5. count \in Int /\ sema \in Nat /\ putBefore \in Nat  BY <1>1
  <2> QED BY <2>2, <2>3, <2>4, <2>5 DEF OuterTypeOK, ConsPlaces
<1>3. Nested  BY <1>1 DEF Nested, Busy, ConsBusy
<1>4. GetFinds /\ Balanced
  BY <1>1 DEF GetFinds, Balanced, Length, Uncounted, CountedOff, Posts
<1> QED BY <1>2, <1>3, <1>4 DEF SemaInv

\* As long as no deadline is refused the semaphore counts the items, whatever
\* timeouts race with whatever signals, any number of them: no token is lost or
\* made, a consumer with a token finds an item, and a waiter is counted once
\* (atomicops.h 569-648, readerwriterqueue.h 718, 732, 751, 787).
THEOREM TokensAlwaysMatch == BlockingSpec => []TokensMatchItems
<1>1. BlockingSpec => []Inv  BY BlockingUsesQueue, Invariance
<1>2. BlockingSpec => []SemaInv
  BY <1>1, SemaInit, SemaNext, PTL DEF BlockingSpec
<1>3. ASSUME SemaInv PROVE TokensMatchItems
  <2>1. CASE ~blocking
    BY <1>3, <2>1 DEF SemaInv, Nested, TokensMatchItems
  <2>2. CASE blocking /\ ~refused
    <3>1. /\ OuterTypeOK /\ GetFinds /\ Balanced  BY <1>3, <2>2 DEF SemaInv
    <3>2. outerCons.at = "inner" /\ cons.at = "idle" => answer # 0  BY <3>1 DEF GetFinds
    <3>3. outerProd = "signal" => count >= -1  BY <3>1 DEF Balanced, OuterTypeOK
    <3>4. outerProd = "idle" /\ outerCons.at = "idle" => count = Length /\ sema = 0
      BY <3>1 DEF Balanced, Uncounted, CountedOff, Posts, OuterTypeOK
    <3> QED BY <3>2, <3>3, <3>4 DEF TokensMatchItems
  <2> QED BY <2>1, <2>2 DEF TokensMatchItems
<1> QED BY <1>2, <1>3, PTL
=============================================================================
