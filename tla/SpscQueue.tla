----------------------------- MODULE SpscQueue -----------------------------
(***************************************************************************)
(* ReaderWriterQueue (readerwriterqueue.h), through which the acceptor of  *)
(* the receiver hands sockets to a worker: a queue without locks for one   *)
(* producer and one consumer.  It is a circular list of blocks, each a     *)
(* ring of size slots of which one stays free.  The producer owns          *)
(* tailBlock and, of each block, tail and localFront, its copy of front;   *)
(* the consumer owns frontBlock and, of each block, front and localTail.   *)
(*                                                                         *)
(* A step ends where a thread has read or written one variable that the    *)
(* other thread also uses: its index of a block, a block pointer, a slot.  *)
(* The interleaving is sequentially consistent, as the fences make it      *)
(* where it matters.  The k-th item enqueued is the number k; 0 is an      *)
(* empty slot.                                                             *)
(*                                                                         *)
(* A few definitions stand next to faulty variants of themselves; the      *)
(* specification uses none of these.                                       *)
(***************************************************************************)
EXTENDS Integers, Sequences, SequencesExt

CONSTANT
  Queues  \* the queues to look at: what they are made with, whether they are
          \* of the blocking kind, and, a bound, how many items are enqueued

\* No odd number but 1 divides it.
IsPowerOf2(n) == n > 0 /\ \A d \in 1..n : n % d = 0 => d = 1 \/ d % 2 = 0
QueueKind ==
  [maxSize : Nat \ {0}, MAX_BLOCK_SIZE : Nat \ {0, 1}, blocking : BOOLEAN, maxItems : Nat]
\* The asserts of the constructor.
ASSUME QueuesAssumption ==
  \A q \in Queues : q \in QueueKind /\ IsPowerOf2(q.MAX_BLOCK_SIZE)

Ops == {"dequeue", "peek", "pop"}
Threads == {"producer", "consumer"}

VARIABLES
  made,        \* the queue that was made
  block,       \* the blocks, in the order they were made
  frontBlock, tailBlock,
  largestBlockSize,
  prod,        \* the producer: where it is in inner_enqueue, whether it may
               \* allocate, the block it enqueues to; as a history, the queue's
               \* length at the call
  cons,        \* the consumer: where it is, in which operation; as a history,
               \* whether the queue was empty at the call
  sizing,      \* size_approx: the first block, the next, the result so far,
               \* and as a history what the queue held at the call
  puts, taken, \* items enqueued, and taken out, so far
  answer       \* the consumer's last result, 0 for none

indexVars == <<block, frontBlock, tailBlock, largestBlockSize>>
vars == <<made, indexVars, prod, cons, sizing, puts, taken, answer>>

After(b, i) == (i + 1) % block[b].size

WindowUnwrapped(blk) == [k \in 1..(blk.tail - blk.front) |-> blk.front + (k - 1)]
\* The slots of a block from front to tail.
WindowOf(blk) ==
  [k \in 1..((blk.tail + blk.size - blk.front) % blk.size) |->
     (blk.front + (k - 1)) % blk.size]

\* How many items are in the queue.  The consumer has one of them in its hands
\* between moving it out of its slot and giving up the slot.
Length == puts - taken

----------------------------------------------------------------------------
(* Construction.                                                           *)

ceilToPow2(x) == Min({y \in x..(2 * x) : IsPowerOf2(y)})

make_block(n, link) ==
  [front |-> 0, localTail |-> 0, tail |-> 0, localFront |-> 0,
   next |-> link, size |-> n, data |-> [i \in 0..(n - 1) |-> 0]]

\* One block, or a circle of blocks of MAX_BLOCK_SIZE with one to spare.
InitialBlocks(maxSize, maxBlock) ==
  LET size  == ceilToPow2(maxSize + 1)
      count == (maxSize + maxBlock * 2 - 3) \div (maxBlock - 1)
  IN IF size > maxBlock * 2
     THEN [i \in 1..count |-> make_block(maxBlock, (i % count) + 1)]
     ELSE <<make_block(size, 1)>>

NotSizing == [block |-> 0, start |-> 0, sum |-> 0, had |-> 0]

IdleProd == [at |-> "idle", alloc |-> FALSE, to |-> 1, held |-> 0]
IdleCons == [at |-> "idle", op |-> "dequeue", wasEmpty |-> FALSE]

Init ==
  /\ made \in Queues
  /\ block = InitialBlocks(made.maxSize, made.MAX_BLOCK_SIZE)
  /\ frontBlock = 1 /\ tailBlock = 1
  /\ largestBlockSize = block[1].size
  /\ prod = IdleProd /\ cons = IdleCons
  /\ sizing = NotSizing
  /\ puts = 0 /\ taken = 0 /\ answer = 0

ProdGoes(from, to) ==
  /\ prod.at = from
  /\ prod' = IF to = "idle" THEN IdleProd ELSE [prod EXCEPT !.at = to]
ConsGoes(from, to) ==
  /\ cons.at = from
  /\ cons' = IF to = "idle" THEN IdleCons ELSE [cons EXCEPT !.at = to]

ProducerOnly ==
  UNCHANGED <<made, frontBlock, cons, sizing, taken, answer>>
ConsumerOnly ==
  UNCHANGED <<made, tailBlock, largestBlockSize, prod, sizing, puts>>

----------------------------------------------------------------------------
(* inner_enqueue.                                                          *)

\* The tail block has a free slot if the slot after tail is not the front as
\* the producer last saw it, or ...
Enqueue(alloc) ==
  /\ prod.at = "idle" /\ puts < made.maxItems
  /\ prod' = [at |-> IF After(tailBlock, block[tailBlock].tail)
                          # block[tailBlock].localFront
                     THEN "write" ELSE "refresh",
              alloc |-> alloc, to |-> tailBlock, held |-> Length]
  /\ UNCHANGED <<indexVars, puts>> /\ ProducerOnly

\* ... as it is now.
RefreshFront ==
  LET blk == block[tailBlock]
  IN /\ ProdGoes("refresh",
                 IF After(tailBlock, blk.tail) # blk.front THEN "write" ELSE "full")
     /\ block' = [block EXCEPT ![tailBlock].localFront = blk.front]
     /\ UNCHANGED <<tailBlock, largestBlockSize, puts>> /\ ProducerOnly

\* The new element is constructed in its slot ...
WriteSlot ==
  /\ ProdGoes("write", "publish")
  /\ block' = [block EXCEPT ![prod.to].data[block[prod.to].tail] = puts + 1]
  /\ UNCHANGED <<tailBlock, largestBlockSize, puts>> /\ ProducerOnly

\* ... and made visible by the tail of its block, and of a block that is not
\* the tail block yet, by the advance to that block.
PublishTail ==
  /\ ProdGoes("publish", IF prod.to = tailBlock THEN "idle" ELSE "advance")
  /\ block' = [block EXCEPT ![prod.to].tail = After(prod.to, @)]
  /\ puts' = IF prod.to = tailBlock THEN puts + 1 ELSE puts
  /\ UNCHANGED <<tailBlock, largestBlockSize>> /\ ProducerOnly

NextFree == block[tailBlock].next # frontBlock

\* The tail block is full.  The next block is free unless it is the front
\* block; without a free block an enqueue allocates and a try_enqueue fails.
TailBlockFull ==
  /\ IF NextFree
     THEN /\ prod.at = "full"
          /\ prod' = [prod EXCEPT !.at = "ahead", !.to = block[tailBlock].next]
     ELSE ProdGoes("full", IF prod.alloc THEN "alloc" ELSE "idle")
  /\ UNCHANGED <<indexVars, puts>> /\ ProducerOnly

UseNextBlockStale ==
  /\ ProdGoes("ahead", "write")
  /\ UNCHANGED <<block, tailBlock, largestBlockSize, puts>> /\ ProducerOnly
UseNextBlock ==
  /\ ProdGoes("ahead", "write")
  /\ block' = [block EXCEPT ![prod.to].localFront = block[prod.to].front]
  /\ UNCHANGED <<tailBlock, largestBlockSize, puts>> /\ ProducerOnly

OutOfMemory ==
  /\ ProdGoes("alloc", "idle")
  /\ UNCHANGED <<indexVars, puts>> /\ ProducerOnly

\* A new block, its first slot filled, that leads to where the tail block leads.
AllocateBlock ==
  LET size == IF largestBlockSize >= made.MAX_BLOCK_SIZE THEN largestBlockSize
              ELSE largestBlockSize * 2
      new  == make_block(size, block[tailBlock].next)
  IN /\ prod.at = "alloc"
     /\ block' = Append(block, [new EXCEPT !.data[0] = puts + 1,
                                           !.tail = 1, !.localTail = 1])
     /\ largestBlockSize' = size
     /\ prod' = [prod EXCEPT !.at = "link", !.to = Len(block) + 1]
     /\ UNCHANGED <<tailBlock, puts>> /\ ProducerOnly

LinkBlock ==
  /\ ProdGoes("link", "advance")
  /\ block' = [block EXCEPT ![tailBlock].next = prod.to]
  /\ UNCHANGED <<tailBlock, largestBlockSize, puts>> /\ ProducerOnly

AdvanceTail ==
  /\ ProdGoes("advance", "idle")
  /\ tailBlock' = prod.to
  /\ puts' = puts + 1
  /\ UNCHANGED <<block, largestBlockSize>> /\ ProducerOnly

----------------------------------------------------------------------------
(* try_dequeue, peek and pop.                                              *)

\* The front block has an item if front is not its tail as the consumer last
\* saw it, or ...
Get(op) ==
  /\ cons.at = "idle"
  /\ cons' = [at |-> IF block[frontBlock].front # block[frontBlock].localTail
                     THEN "take" ELSE "refresh",
              op |-> op, wasEmpty |-> Length = 0]
  /\ answer' = 0
  /\ UNCHANGED <<block, frontBlock, taken>> /\ ConsumerOnly

\* ... as it is now.
RefreshTail(from, otherwise) ==
  LET blk == block[frontBlock]
  IN /\ ConsGoes(from, IF blk.front # blk.tail THEN "take" ELSE otherwise)
     /\ block' = [block EXCEPT ![frontBlock].localTail = blk.tail]
     /\ UNCHANGED <<frontBlock, taken, answer>> /\ ConsumerOnly

LookAtTail == RefreshTail("refresh", "tailblock")

\* The front block is empty: so is the queue, if it is the tail block too.
LookAtTailBlock ==
  /\ ConsGoes("tailblock", IF frontBlock = tailBlock THEN "idle" ELSE "recheck")
  /\ UNCHANGED <<block, frontBlock, taken, answer>> /\ ConsumerOnly

\* The producer has moved on, possibly after filling this block.
RecheckNothing ==
  /\ ConsGoes("recheck", "next")
  /\ UNCHANGED <<block, frontBlock, taken, answer>> /\ ConsumerOnly
Recheck == RefreshTail("recheck", "next")

NextOfFront == block[frontBlock].next
First(b) == block[b].data[block[b].front]

\* The next block has an item; peek returns it from there.
LookAtNext ==
  /\ ConsGoes("next", IF cons.op = "peek" THEN "idle" ELSE "advance")
  /\ IF cons.op = "peek"
     THEN answer' = First(NextOfFront) /\ UNCHANGED block
     ELSE /\ block' = [block EXCEPT ![NextOfFront].localTail = block[NextOfFront].tail]
          /\ UNCHANGED answer
  /\ UNCHANGED <<frontBlock, taken>> /\ ConsumerOnly

AdvanceFront ==
  /\ ConsGoes("advance", "take")
  /\ frontBlock' = NextOfFront
  /\ UNCHANGED <<block, taken, answer>> /\ ConsumerOnly

\* The element is moved out and destroyed, or looked at.
TakeSlot ==
  /\ ConsGoes("take", IF cons.op = "peek" THEN "idle" ELSE "front")
  /\ answer' = First(frontBlock)
  /\ block' = IF cons.op = "peek" THEN block
              ELSE [block EXCEPT ![frontBlock].data[block[frontBlock].front] = 0]
  /\ UNCHANGED <<frontBlock, taken>> /\ ConsumerOnly

GiveUpSlot ==
  /\ ConsGoes("front", "idle")
  /\ block' = [block EXCEPT ![frontBlock].front = After(frontBlock, @)]
  /\ taken' = taken + 1
  /\ UNCHANGED <<frontBlock, answer>> /\ ConsumerOnly

----------------------------------------------------------------------------
(* size_approx, by either thread, and the destructor.                      *)

SizeGoes(t, from, to) ==
  IF t = "producer" THEN ProdGoes(from, to) /\ UNCHANGED cons
                    ELSE ConsGoes(from, to) /\ UNCHANGED prod

\* Bound: one thread at a time calls it; it only reads.
SizeApprox(t) ==
  /\ sizing = NotSizing
  /\ SizeGoes(t, "idle", "size")
  /\ sizing' = [block |-> frontBlock, start |-> frontBlock, sum |-> 0, had |-> Length]
  /\ UNCHANGED <<made, indexVars, puts, taken, answer>>

\* front and tail of one block; of the two the calling thread owns one.
SizeStep(t) ==
  LET next == block[sizing.block].next
  IN /\ SizeGoes(t, "size", IF next = sizing.start THEN "sized" ELSE "size")
     /\ sizing' = [sizing EXCEPT !.sum = @ + Len(WindowOf(block[sizing.block])),
                                 !.block = next]
     /\ UNCHANGED <<made, indexVars, puts, taken, answer>>

SizeReturn(t) ==
  /\ SizeGoes(t, "sized", "idle")
  /\ sizing' = NotSizing
  /\ UNCHANGED <<made, indexVars, puts, taken, answer>>

EmptiedFront(b) ==
  [i \in 0..(block[b].size - 1) |-> IF b = frontBlock THEN 0 ELSE block[b].data[i]]
\* The destructor destroys the elements from front to tail of every block.
Emptied(b) ==
  [i \in 0..(block[b].size - 1) |->
     IF i \in Range(WindowOf(block[b])) THEN 0 ELSE block[b].data[i]]

Destroy ==
  /\ prod.at = "idle" /\ cons.at = "idle"
  /\ prod' = [prod EXCEPT !.at = "gone"] /\ cons' = [cons EXCEPT !.at = "gone"]
  /\ block' = [b \in 1..Len(block) |-> [block[b] EXCEPT !.data = Emptied(b)]]
  /\ UNCHANGED <<made, frontBlock, tailBlock, largestBlockSize, sizing, puts,
                 taken, answer>>

----------------------------------------------------------------------------

ProducerStep ==
  \/ RefreshFront \/ WriteSlot \/ PublishTail \/ TailBlockFull \/ UseNextBlock
  \/ OutOfMemory \/ AllocateBlock \/ LinkBlock \/ AdvanceTail
  \/ SizeStep("producer") \/ SizeReturn("producer")

ConsumerStep ==
  \/ LookAtTail \/ LookAtTailBlock \/ Recheck \/ LookAtNext \/ AdvanceFront
  \/ TakeSlot \/ GiveUpSlot
  \/ SizeStep("consumer") \/ SizeReturn("consumer")

Calls ==
  \/ \E alloc \in BOOLEAN : Enqueue(alloc)
  \/ \E op \in Ops : Get(op)
  \/ \E t \in Threads : SizeApprox(t)

Next == Calls \/ ProducerStep \/ ConsumerStep \/ Destroy

Spec == Init /\ [][Next]_vars
----------------------------------------------------------------------------
(* Properties.                                                             *)

Free == {"idle", "size", "sized", "gone"}

Queue == INSTANCE Fifo WITH
  capacity <- made.maxSize,
  contents <- IF cons.at = "gone" THEN <<>>
              ELSE [k \in 1..Length |-> taken + k],
  putting  <- prod.at \notin Free,
  getting  <- IF cons.at \in Free THEN "no"
              ELSE IF cons.op = "peek" THEN "look" ELSE "take",
  held     <- prod.held,
  wasEmpty <- cons.wasEmpty,
  answer   <- IF cons.at = "front" THEN 0 ELSE answer

\* The blocks, the indices and the copies of indices are one first-in
\* first-out queue at every step of either thread: no item is lost, doubled or
\* overtaken when a block fills or empties under the other thread's eyes; "false"
\* means that the queue was empty when the call began; and an enqueue
\* allocates, or a try_enqueue fails, only if the queue "can hold maxSize
\* elements" no longer (readerwriterqueue.h 76, 205-528).
RefinesFifo == Queue!Spec

\* Each slot is used by one thread at a time: the block the consumer moves on
\* to has an item, and the one the producer moves on to has none (the asserts);
\* the producer constructs only where nothing is, the consumer reads and
\* destroys only what is constructed (readerwriterqueue.h 234-235, 272,
\* 280-282, 337, 388, 460, 479, 486).
SlotsOwned ==
  /\ cons.at = "next" => block[NextOfFront].front # block[NextOfFront].tail
  /\ prod.at = "ahead" => block[prod.to].front = block[prod.to].tail
  /\ prod.at = "write" => block[prod.to].data[block[prod.to].tail] = 0
  /\ cons.at = "take" => First(frontBlock) # 0

\* The destructor destroys every element that was enqueued and not dequeued:
\* none lies outside the windows from front to tail (readerwriterqueue.h
\* 139-165).
NothingLeaks ==
  prod.at = "gone" => \A b \in 1..Len(block) : Range(block[b].data) = {0}

\* An item of a block the producer has filled but not yet advanced to.
InFlight == IF prod.at = "advance" THEN 1 ELSE 0

\* "Safe to call from both the producer and consumer threads": although the
\* other thread goes on while size_approx sums over the blocks, the result is
\* a length the queue had, or had about, during the call (readerwriterqueue.h
\* 412-427).
SizeInRange ==
  /\ prod.at = "sized" =>
       sizing.sum \in Length..sizing.had
  /\ cons.at = "sized" =>
       sizing.sum \in sizing.had..(Length + InFlight)
=============================================================================
