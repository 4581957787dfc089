--------------------------- MODULE BlockingQueue ---------------------------
(***************************************************************************)
(* BlockingReaderWriterQueue (readerwriterqueue.h): a ReaderWriterQueue    *)
(* whose consumer may wait, with or without a timeout, for an item.  A     *)
(* LightweightSemaphore (atomicops.h) counts the items: its atomic m_count *)
(* goes below zero when the consumer waits, and only then the producer     *)
(* posts the kernel's semaphore m_sema.                                    *)
(*                                                                         *)
(* A queue of the plain kind takes the same steps without the semaphore.   *)
(*                                                                         *)
(* A few definitions stand next to faulty variants of themselves; the      *)
(* specification uses none of these.                                       *)
(***************************************************************************)
EXTENDS SpscQueue

VARIABLES
  count,     \* m_count
  sema,      \* the value of m_sema
  outerProd, \* where the producer is in enqueue or try_enqueue
  outerCons, \* where the consumer is, and in which operation
  putBefore, \* puts when the producer's call began
  refused    \* history: sem_timedwait has refused a deadline

semaVars  == <<count, sema>>
outerVars == <<semaVars, outerProd, outerCons, putBefore, refused>>
blockingVars == <<vars, outerVars>>

Waits      == {"wait_dequeue", "wait_dequeue_timed"}
OuterOps   == {"try_dequeue", "pop"} \cup Waits
blocking   == made.blocking
InnerOp(op) == IF op = "pop" THEN "pop" ELSE "dequeue"

BlockingInit ==
  /\ Init
  /\ count = 0 /\ sema = 0
  /\ outerProd = "idle"
  /\ outerCons = [at |-> "idle", op |-> "pop"]
  /\ putBefore = 0 /\ refused = FALSE

OuterProdGoes(from, to) == outerProd = from /\ outerProd' = to
OuterConsGoes(from, to) ==
  outerCons.at = from /\ outerCons' = [outerCons EXCEPT !.at = to]

----------------------------------------------------------------------------
(* The producer: enqueue or try_enqueue, then signal.                      *)

BlockingEnqueue(alloc) ==
  /\ blocking /\ OuterProdGoes("idle", "inner")
  /\ Enqueue(alloc)
  /\ putBefore' = puts
  /\ UNCHANGED <<semaVars, outerCons, refused>>

\* Only an item that was enqueued is signalled.
Enqueued == puts > putBefore

InnerEnqueueDone ==
  /\ prod.at = "idle"
  /\ OuterProdGoes("inner", IF Enqueued THEN "signal" ELSE "idle")
  /\ UNCHANGED <<vars, semaVars, outerCons, putBefore, refused>>

WaiterBelow == count < -1
Waiter == count < 0

\* signal: the atomic increment, and a post if the consumer waited.
AddToCount ==
  /\ OuterProdGoes("signal", IF Waiter THEN "post" ELSE "idle")
  /\ count' = count + 1
  /\ UNCHANGED <<vars, sema, outerCons, putBefore, refused>>

Post ==
  /\ OuterProdGoes("post", "idle")
  /\ sema' = sema + 1
  /\ UNCHANGED <<vars, count, outerCons, putBefore, refused>>

----------------------------------------------------------------------------
(* The consumer: tryWait or wait, then the inner operation.                *)

ConsumerOuter == UNCHANGED <<vars, outerProd, putBefore, refused>>

BlockingGet(op) ==
  /\ blocking /\ outerCons.at = "idle" /\ cons.at = "idle"
  /\ outerCons' = [at |-> "try", op |-> op]
  /\ UNCHANGED semaVars /\ ConsumerOuter

\* tryWait, and the spin loop, which looks at m_count and may give up.
TryWait ==
  /\ OuterConsGoes("try", IF count > 0 THEN "claim"
                          ELSE IF outerCons.op \in Waits THEN "spin" ELSE "idle")
  /\ UNCHANGED semaVars /\ ConsumerOuter

SpinSees ==
  /\ OuterConsGoes("spin", "claim") /\ count > 0
  /\ UNCHANGED semaVars /\ ConsumerOuter

Claim ==
  /\ OuterConsGoes("claim", "take")
  /\ count' = count - 1
  /\ UNCHANGED sema /\ ConsumerOuter

SpinEnds ==
  /\ OuterConsGoes("spin", IF count > 0 THEN "take" ELSE "wait")
  /\ count' = count - 1
  /\ UNCHANGED sema /\ ConsumerOuter

SemaWait ==
  /\ OuterConsGoes("wait", "take")
  /\ sema > 0 /\ sema' = sema - 1
  /\ UNCHANGED count /\ ConsumerOuter

\* sem_timedwait gives up at the deadline, unless it can take a post.
SemaTimeout ==
  /\ outerCons.op = "wait_dequeue_timed"
  /\ OuterConsGoes("wait", "undo")
  /\ sema = 0
  /\ UNCHANGED semaVars /\ ConsumerOuter

\* A deadline with tv_nsec = 10^9 is left as it is and refused with EINVAL,
\* which timed_wait takes for a success.  Bound: this happens once.
SemaRefused ==
  /\ ~refused /\ refused' = TRUE
  /\ outerCons.op = "wait_dequeue_timed"
  /\ OuterConsGoes("wait", "take")
  /\ UNCHANGED <<vars, semaVars, outerProd, putBefore>>

\* After the timeout m_count is put right again; if the producer has counted
\* this waiter in the meantime, its post is on the way and is to be taken.
UndoAlways == OuterConsGoes("undo", "idle")
UndoOutcome == OuterConsGoes("undo", IF count < 0 THEN "idle" ELSE "redo")
Undo ==
  /\ UndoOutcome
  /\ count' = count + 1
  /\ UNCHANGED sema /\ ConsumerOuter

Redo ==
  /\ OuterConsGoes("redo", IF count > 0 THEN "trysema" ELSE "undo")
  /\ count' = count - 1
  /\ UNCHANGED sema /\ ConsumerOuter

TrySema ==
  /\ OuterConsGoes("trysema", IF sema > 0 THEN "take" ELSE "undo")
  /\ sema' = IF sema > 0 THEN sema - 1 ELSE sema
  /\ UNCHANGED count /\ ConsumerOuter

\* The inner try_dequeue or pop, which must find an item.
InnerGet ==
  /\ OuterConsGoes("take", "inner")
  /\ Get(InnerOp(outerCons.op))
  /\ UNCHANGED <<semaVars, outerProd, putBefore, refused>>

InnerGetDone ==
  /\ OuterConsGoes("inner", "idle") /\ cons.at = "idle"
  /\ UNCHANGED semaVars /\ ConsumerOuter

----------------------------------------------------------------------------

\* The plain queue's operations; peek is the plain one in both kinds, and
\* availableApprox, which only reads m_count, is left out.
PlainCalls ==
  /\ \/ ~blocking /\ Calls
     \/ outerCons.at = "idle" /\ Get("peek")
  /\ UNCHANGED outerVars

BlockingCalls ==
  \/ \E alloc \in BOOLEAN : BlockingEnqueue(alloc)
  \/ \E op \in OuterOps : BlockingGet(op)

OuterProducerStep == InnerEnqueueDone \/ AddToCount \/ Post
OuterConsumerStep ==
  \/ TryWait \/ SpinSees \/ Claim \/ SpinEnds
  \/ SemaWait \/ SemaTimeout \/ SemaRefused \/ Undo \/ Redo \/ TrySema
  \/ InnerGet \/ InnerGetDone

ProducerRuns == OuterProducerStep \/ (ProducerStep /\ UNCHANGED outerVars)
ConsumerRuns == OuterConsumerStep \/ (ConsumerStep /\ UNCHANGED outerVars)

DestroyBoth ==
  /\ outerProd = "idle" /\ outerCons.at = "idle"
  /\ Destroy /\ UNCHANGED outerVars

BlockingNext ==
  PlainCalls \/ BlockingCalls \/ ProducerRuns \/ ConsumerRuns \/ DestroyBoth

BlockingSpec == BlockingInit /\ [][BlockingNext]_blockingVars

\* The operating system runs both threads.
BlockingFairSpec ==
  BlockingSpec /\ WF_blockingVars(ProducerRuns) /\ WF_blockingVars(ConsumerRuns)

----------------------------------------------------------------------------
(* Properties.                                                             *)

\* No token is lost or made, after every race of a timeout with a signal, as
\* long as no deadline was refused: when neither thread is in a call the
\* semaphore counts the items of the queue exactly; a consumer that got
\* through it finds an item; and a waiter is counted once (atomicops.h
\* 592-624; the asserts on success and result, readerwriterqueue.h 718, 732,
\* 751, 787, and on oldCount, atomicops.h 642).
TokensMatchItems == ~refused =>
  /\ blocking /\ outerProd = "idle" /\ outerCons.at = "idle" =>
       count = Length /\ sema = 0
  /\ outerCons.at = "inner" /\ cons.at = "idle" => answer # 0
  /\ outerProd = "signal" => count >= -1

\* No lost wake-up: a consumer that waits without a timeout comes out once an
\* item has been put (atomicops.h 598-616, 641-646).
WaitEnds ==
  (outerCons.at = "wait" /\ outerCons.op = "wait_dequeue" /\ Length > 0)
    ~> (outerCons.at # "wait" \/ refused)
=============================================================================
