-------------------------- MODULE SpscQueueProofs --------------------------
(***************************************************************************)
(* Proofs about SpscQueue, for queues of any initial size and block size   *)
(* and any number of items: that the two threads never use the same slot,  *)
(* that the destructor destroys what is left, that size_approx returns     *)
(* about a length the queue had, and that the blocks and indices implement *)
(* the first-in first-out queue of Fifo.                                   *)
(*                                                                         *)
(* The invariant IInv describes the circle of blocks by witnesses that the *)
(* code does not keep: ring names the m blocks of the circle in order from *)
(* the front block, ring[T] is the tail block, and the items of block b    *)
(* are numbered from lo[b] + 1.                                            *)
(***************************************************************************)
EXTENDS SpscQueue, TLAPS, SequenceTheorems, WellFoundedInduction, NaturalsInduction

\* Types.
DataFns == UNION {[0..(n - 1) -> Nat] : n \in Nat}
BlockType ==
  [front : Nat, localTail : Nat, tail : Nat, localFront : Nat,
   next : Nat, size : Nat, data : DataFns]

Busy == {"refresh", "write", "publish", "full", "ahead", "alloc", "link", "advance"}
ConsBusy == {"take", "refresh", "tailblock", "recheck", "next", "advance", "front"}

Blocks == 1..Len(block)

BlocksOK ==
  /\ block \in Seq(BlockType)
  /\ \A b \in Blocks :
       /\ block[b].data \in [0..(block[b].size - 1) -> Nat]
       /\ block[b].front \in 0..(block[b].size - 1)
       /\ block[b].tail \in 0..(block[b].size - 1)
       /\ block[b].localFront \in 0..(block[b].size - 1)
       /\ block[b].localTail \in 0..(block[b].size - 1)

ProdType == [at : Free \cup Busy, alloc : BOOLEAN, to : Blocks, held : Nat]
ConsType == [at : Free \cup ConsBusy, op : Ops, wasEmpty : BOOLEAN]

TypeOK ==
  /\ made \in Queues /\ BlocksOK
  /\ frontBlock \in Blocks /\ tailBlock \in Blocks /\ largestBlockSize \in Nat
  /\ prod \in ProdType /\ cons \in ConsType
  /\ puts \in Nat /\ taken \in Nat /\ answer \in Nat
  /\ prod.at = "gone" <=> cons.at = "gone"

\* How far slot y is after slot x, round a ring of n slots; how far a slot is
\* after the front of its block; how many slots a block has from front to tail.
Dist(x, y, n) == IF y >= x THEN y - x ELSE y - x + n
FromFront(b, i) == Dist(block[b].front, i, block[b].size)
Items(b) == FromFront(b, block[b].tail)

\* The blocks lead to each other in one circle.  A block that was allocated and
\* is not linked yet is the last one made, outside the circle.
Circle(m, ring, T) ==
  /\ 0 \in 0..(m - 1) /\ T \in 0..(m - 1)
  /\ \A i \in 0..(m - 1) : ring[i] \in Blocks
  /\ \A i, j \in 0..(m - 1) : ring[i] = ring[j] => i = j
  /\ ring[0] = frontBlock /\ ring[T] = tailBlock
  /\ \A i, j \in 0..(m - 1) : j = i + 1 => block[ring[i]].next = ring[j]
  /\ block[ring[m - 1]].next = ring[0]
Shape(m, ring, T) ==
  /\ m = IF prod.at = "link" THEN Len(block) - 1 ELSE Len(block)
  /\ \A i \in 0..(m - 1) : ring[i] \in 1..m
  /\ Circle(m, ring, T)

\* The producer's copy of front is at most a full block behind and the
\* consumer's copy of tail never ahead: both err on the safe side.
Views == \A b \in Blocks :
  /\ Items(b) <= Dist(block[b].localFront, block[b].tail, block[b].size)
  /\ FromFront(b, block[b].localTail) <= Items(b)

\* What is in the slot d slots after the front of block b: an item from front to
\* tail, unless the consumer has just moved it out; nothing elsewhere, unless
\* the producer has just constructed it.
Content(lo, b, d) ==
  IF d < Items(b)
  THEN IF d = 0 /\ b = frontBlock /\ cons.at = "front" THEN 0 ELSE lo[b] + d + 1
  ELSE IF d = Items(b) /\ prod.at = "publish" /\ b = prod.to THEN puts + 1 ELSE 0
Filled(lo) == prod.at # "gone" =>
  \A b \in Blocks : \A i \in 0..(block[b].size - 1) :
    block[b].data[i] = Content(lo, b, FromFront(b, i))

\* No block is smaller than the first, and all but one of them, or the only
\* one, hold what the queue was made for: with a slot to spare in each.
Room(m) ==
  /\ block[1].size >= 2 /\ largestBlockSize >= block[1].size
  /\ \A b \in Blocks : block[b].size >= block[1].size
  /\ IF m = 1 THEN block[1].size - 1 >= made.maxSize
              ELSE (m - 1) * (block[1].size - 1) >= made.maxSize

\* The blocks before the tail block were filled when the producer left them, so
\* that the items of those after the front block are at least so many.
Counted(ring, T, lo) ==
  \A i, j \in 1..T : i <= j =>
    lo[ring[j]] >= lo[ring[i]] + (j - i) * (block[1].size - 1)

\* The items from the front block to the tail block follow each other, from the
\* one after those taken to the last one put; the blocks beyond are empty, but
\* for the one the producer is about to advance to.
Chain(m, ring, T, lo) ==
  /\ lo[ring[0]] = taken
  /\ \A i, j \in 0..T : j = i + 1 => lo[ring[j]] = lo[ring[i]] + Items(ring[i])
  /\ puts = lo[ring[T]] + Items(ring[T])
  /\ \A i \in 1..T : Items(ring[i]) > 0
  /\ \A i \in (T + 1)..(m - 1) :
       (prod.at = "advance" /\ ring[i] = prod.to) \/ Items(ring[i]) = 0
  /\ Counted(ring, T, lo)

\* The producer leaves a tail block only full, unless it is the front block,
\* from which the consumer may be taking.
Full(b) == Items(b) = block[b].size - 1
NextIsTo(m, ring, T) ==
  /\ T + 1 <= m - 1 /\ prod.to = ring[T + 1]
  /\ T >= 1 => Full(tailBlock)

\* What the producer knows where it is ...
ProdInv(m, ring, T, lo) ==
  /\ prod.at \in Free => prod.held = 0
  /\ prod.at \in Busy => prod.held >= puts - taken
  /\ prod.at = "refresh" => prod.to = tailBlock
  /\ prod.at \in {"write", "publish"} =>
       /\ After(prod.to, block[prod.to].tail) # block[prod.to].localFront
       /\ prod.to = tailBlock \/ NextIsTo(m, ring, T)
  /\ prod.at \in {"full", "alloc", "link"} => (T >= 1 => Full(tailBlock))
  /\ prod.at = "full" /\ T = m - 1 => prod.held >= made.maxSize
  /\ prod.at = "alloc" => prod.held >= made.maxSize
  /\ prod.at \in {"ahead", "advance"} => NextIsTo(m, ring, T)
  /\ prod.at = "link" =>
       /\ prod.to = m + 1 /\ block[prod.to].next = block[tailBlock].next
  /\ prod.at \in {"link", "advance"} => lo[prod.to] = puts /\ Items(prod.to) = 1

\* ... and the consumer.
ConsInv(T) ==
  /\ cons.at \in {"take", "front"} =>
       block[frontBlock].front # block[frontBlock].localTail
  /\ cons.at = "front" => cons.op # "peek" /\ answer = taken + 1
  /\ cons.at = "advance" =>
       /\ cons.op # "peek"
       /\ block[NextOfFront].front # block[NextOfFront].localTail
  /\ cons.at \in {"next", "advance"} => T >= 1 /\ Items(frontBlock) = 0
  /\ cons.at = "recheck" => T >= 1
  /\ cons.at = "tailblock" => T >= 1 \/ cons.wasEmpty
  /\ cons.at \in ConsBusy /\ ~cons.wasEmpty => puts > taken
  /\ cons.at \in ConsBusy \ {"front"} => answer = 0

Good(m, ring, T, lo) ==
  /\ Shape(m, ring, T) /\ Views /\ Filled(lo) /\ Room(m)
  /\ Chain(m, ring, T, lo) /\ ProdInv(m, ring, T, lo) /\ ConsInv(T)

\* Where size_approx is: at position p of the circle, as it is now; the other
\* thread moves, adds and empties blocks meanwhile.
SizingType == [block : Nat, start : Nat, sum : Nat, had : Nat]
Measuring == {"size", "sized"}

\* The consumer counts.  The front block stays the first.  Up to the tail block
\* each block had its items when it was counted or fewer, and all of them unless
\* it was the tail block; then what the queue had at the call has been counted.
\* Beyond, only the block the producer is about to advance to has an item.
ConsWalk(ring, T, lo, p) ==
  /\ sizing.block = ring[p] /\ sizing.start = frontBlock
  /\ sizing.had + taken <= puts
  /\ p <= T => /\ sizing.sum + taken <= lo[ring[p]]
               /\ sizing.sum >= sizing.had \/ sizing.sum + taken = lo[ring[p]]
  /\ p > T => /\ sizing.sum >= sizing.had
              /\ sizing.sum + taken <= puts + IF p = T + 1 THEN 0 ELSE InFlight

\* The producer counts.  The front block moves on, so that the walk, which began
\* at position r, may find itself behind it, at blocks that are empty by now: what
\* it has counted has been taken.
ProdWalk(ring, T, lo, p, r) ==
  /\ sizing.block = ring[p] /\ sizing.start = ring[r]
  /\ r = 0 \/ r > T
  /\ puts <= taken + sizing.had
  /\ p <= T => /\ lo[ring[p]] <= sizing.sum + taken
               /\ sizing.sum + puts <= lo[ring[p]] + sizing.had
  /\ p > T /\ 0 < r /\ r <= p => sizing.sum + puts <= taken + sizing.had
  /\ p > T /\ (r = 0 \/ r > p) => sizing.sum <= sizing.had /\ puts <= sizing.sum + taken

ConsWalks(m, ring, T, lo) ==
  cons.at = "size" => \E p \in 0..(m - 1) : ConsWalk(ring, T, lo, p)
ProdWalks(m, ring, T, lo) ==
  prod.at = "size" => \E p, r \in 0..(m - 1) : ProdWalk(ring, T, lo, p, r)
OneMeasures ==
  /\ sizing \in SizingType
  /\ ~(prod.at \in Measuring /\ cons.at \in Measuring)
  /\ prod.at \in Measuring \/ cons.at \in Measuring => sizing.block # 0
SizeInv(m, ring, T, lo) ==
  /\ OneMeasures /\ SizeInRange
  /\ ConsWalks(m, ring, T, lo) /\ ProdWalks(m, ring, T, lo)

IInv ==
  /\ TypeOK
  /\ \E m \in Nat : \E T \in 0..(m - 1) :
       \E ring \in [Nat -> Nat], lo \in [Nat -> Nat] :
         Good(m, ring, T, lo) /\ SizeInv(m, ring, T, lo)

----------------------------------------------------------------------------
(* Distances round a ring of n slots.                                      *)

\* After is the next slot, round the ring.
LEMMA AfterWraps ==
  ASSUME NEW n \in Nat, n > 0, NEW i \in 0..(n - 1)
  PROVE  (i + 1) % n = IF i + 1 = n THEN 0 ELSE i + 1
BY SMT

\* A distance is less than the size, nil from a slot to itself, and the longest
\* to the slot before.
LEMMA DistFacts ==
  ASSUME NEW n \in Nat, n > 1, NEW x \in 0..(n - 1), NEW y \in 0..(n - 1)
  PROVE  /\ Dist(x, y, n) \in 0..(n - 1)
         /\ Dist(x, y, n) = 0 <=> x = y
         /\ Dist(x, y, n) = n - 1 <=> (y + 1) % n = x
         /\ (y + 1) % n \in 0..(n - 1)
         /\ (y + 1) % n # y
<1>1. (y + 1) % n = IF y + 1 = n THEN 0 ELSE y + 1  BY AfterWraps
<1> QED BY <1>1 DEF Dist

\* A slot further, unless that is all the way round.
LEMMA DistGrows ==
  ASSUME NEW n \in Nat, n > 1, NEW x \in 0..(n - 1), NEW y \in 0..(n - 1),
         Dist(x, y, n) # n - 1
  PROVE  Dist(x, (y + 1) % n, n) = Dist(x, y, n) + 1
<1>1. (y + 1) % n = IF y + 1 = n THEN 0 ELSE y + 1  BY AfterWraps
<1> QED BY <1>1 DEF Dist

\* From one slot further on the way is a slot shorter.
LEMMA DistShrinks ==
  ASSUME NEW n \in Nat, n > 1, NEW x \in 0..(n - 1), NEW y \in 0..(n - 1)
  PROVE  Dist((x + 1) % n, y, n) = IF x = y THEN n - 1 ELSE Dist(x, y, n) - 1
<1>1. (x + 1) % n = IF x + 1 = n THEN 0 ELSE x + 1  BY AfterWraps
<1> QED BY <1>1 DEF Dist

\* Two slots at the same distance are the same slot.
LEMMA DistInjective ==
  ASSUME NEW n \in Nat, n > 1, NEW x \in 0..(n - 1), NEW y \in 0..(n - 1),
         NEW z \in 0..(n - 1), Dist(x, y, n) = Dist(x, z, n)
  PROVE  y = z
BY DEF Dist

----------------------------------------------------------------------------
(* Steps that change one field of one block.                               *)

SizesKept  == Len(block') = Len(block) /\ \A c \in Blocks : block'[c].size = block[c].size
FrontsKept == \A c \in Blocks : block'[c].front = block[c].front
TailsKept  == \A c \in Blocks : block'[c].tail = block[c].tail
LocalFrontsKept == \A c \in Blocks : block'[c].localFront = block[c].localFront
LocalTailsKept  == \A c \in Blocks : block'[c].localTail = block[c].localTail
NextsKept  == \A c \in Blocks : block'[c].next = block[c].next
DataKept   == \A c \in Blocks : block'[c].data = block[c].data

\* The fields of a block have their types.
LEMMA BlockFields ==
  ASSUME TypeOK, NEW b \in Blocks
  PROVE  /\ block[b] \in BlockType
         /\ block[b].size \in Nat /\ block[b].size > 0
<1>1. block[b] \in BlockType /\ block[b].front \in 0..(block[b].size - 1)
  BY DEF TypeOK, BlocksOK, Blocks
<1> QED BY <1>1 DEF BlockType

\* A block is replaced by another record.
LEMMA ReplaceBlock ==
  ASSUME TypeOK, NEW b \in Blocks, NEW r \in BlockType,
         block' = [block EXCEPT ![b] = r]
  PROVE  /\ block' \in Seq(BlockType) /\ Len(block') = Len(block)
         /\ block'[b] = r
         /\ \A c \in Blocks : c # b => block'[c] = block[c]
BY DEF TypeOK, BlocksOK, Blocks

\* A step that writes localFront of a block, and nothing else.
LEMMA SetLocalFront ==
  ASSUME TypeOK, NEW b \in Blocks, NEW v \in Nat,
         block' = [block EXCEPT ![b].localFront = v]
  PROVE  /\ block' \in Seq(BlockType)
         /\ SizesKept /\ FrontsKept /\ TailsKept
         /\ LocalTailsKept /\ NextsKept /\ DataKept
         /\ \A c \in Blocks : block'[c].localFront = IF c = b THEN v ELSE block[c].localFront
<1> DEFINE r == [block[b] EXCEPT !.localFront = v]
<1>1. block[b] \in BlockType  BY BlockFields
<1>2. /\ r \in BlockType /\ r.localFront = v
      /\ r.size = block[b].size /\ r.front = block[b].front /\ r.tail = block[b].tail
      /\ r.localTail = block[b].localTail /\ r.next = block[b].next /\ r.data = block[b].data
  BY <1>1 DEF BlockType
<1>3. block' = [block EXCEPT ![b] = r]  OBVIOUS
<1> HIDE DEF r
<1>4. /\ block' \in Seq(BlockType) /\ Len(block') = Len(block) /\ block'[b] = r
      /\ \A c \in Blocks : c # b => block'[c] = block[c]
  BY <1>2, <1>3, ReplaceBlock
<1> QED BY <1>2, <1>4 DEF SizesKept, FrontsKept, TailsKept, LocalTailsKept,
       NextsKept, DataKept

\* A step that writes localTail of a block, and nothing else.
LEMMA SetLocalTail ==
  ASSUME TypeOK, NEW b \in Blocks, NEW v \in Nat,
         block' = [block EXCEPT ![b].localTail = v]
  PROVE  /\ block' \in Seq(BlockType)
         /\ SizesKept /\ FrontsKept /\ TailsKept
         /\ LocalFrontsKept /\ NextsKept /\ DataKept
         /\ \A c \in Blocks : block'[c].localTail = IF c = b THEN v ELSE block[c].localTail
<1> DEFINE r == [block[b] EXCEPT !.localTail = v]
<1>1. block[b] \in BlockType  BY BlockFields
<1>2. /\ r \in BlockType /\ r.localTail = v
      /\ r.size = block[b].size /\ r.front = block[b].front /\ r.tail = block[b].tail /\ r.localFront = block[b].localFront
      /\ r.next = block[b].next /\ r.data = block[b].data
  BY <1>1 DEF BlockType
<1>3. block' = [block EXCEPT ![b] = r]  OBVIOUS
<1> HIDE DEF r
<1>4. /\ block' \in Seq(BlockType) /\ Len(block') = Len(block) /\ block'[b] = r
      /\ \A c \in Blocks : c # b => block'[c] = block[c]
  BY <1>2, <1>3, ReplaceBlock
<1> QED BY <1>2, <1>4 DEF SizesKept, FrontsKept, TailsKept, LocalFrontsKept,
       NextsKept, DataKept

\* A step that writes front of a block, and nothing else.
LEMMA SetFront ==
  ASSUME TypeOK, NEW b \in Blocks, NEW v \in Nat,
         block' = [block EXCEPT ![b].front = v]
  PROVE  /\ block' \in Seq(BlockType)
         /\ SizesKept /\ TailsKept /\ LocalFrontsKept
         /\ LocalTailsKept /\ NextsKept /\ DataKept
         /\ \A c \in Blocks : block'[c].front = IF c = b THEN v ELSE block[c].front
<1> DEFINE r == [block[b] EXCEPT !.front = v]
<1>1. block[b] \in BlockType  BY BlockFields
<1>2. /\ r \in BlockType /\ r.front = v
      /\ r.size = block[b].size /\ r.tail = block[b].tail /\ r.localFront = block[b].localFront
      /\ r.localTail = block[b].localTail /\ r.next = block[b].next /\ r.data = block[b].data
  BY <1>1 DEF BlockType
<1>3. block' = [block EXCEPT ![b] = r]  OBVIOUS
<1> HIDE DEF r
<1>4. /\ block' \in Seq(BlockType) /\ Len(block') = Len(block) /\ block'[b] = r
      /\ \A c \in Blocks : c # b => block'[c] = block[c]
  BY <1>2, <1>3, ReplaceBlock
<1> QED BY <1>2, <1>4 DEF SizesKept, TailsKept, LocalFrontsKept, LocalTailsKept,
       NextsKept, DataKept

\* A step that writes tail of a block, and nothing else.
LEMMA SetTail ==
  ASSUME TypeOK, NEW b \in Blocks, NEW v \in Nat,
         block' = [block EXCEPT ![b].tail = v]
  PROVE  /\ block' \in Seq(BlockType)
         /\ SizesKept /\ FrontsKept /\ LocalFrontsKept
         /\ LocalTailsKept /\ NextsKept /\ DataKept
         /\ \A c \in Blocks : block'[c].tail = IF c = b THEN v ELSE block[c].tail
<1> DEFINE r == [block[b] EXCEPT !.tail = v]
<1>1. block[b] \in BlockType  BY BlockFields
<1>2. /\ r \in BlockType /\ r.tail = v
      /\ r.size = block[b].size /\ r.front = block[b].front /\ r.localFront = block[b].localFront
      /\ r.localTail = block[b].localTail /\ r.next = block[b].next /\ r.data = block[b].data
  BY <1>1 DEF BlockType
<1>3. block' = [block EXCEPT ![b] = r]  OBVIOUS
<1> HIDE DEF r
<1>4. /\ block' \in Seq(BlockType) /\ Len(block') = Len(block) /\ block'[b] = r
      /\ \A c \in Blocks : c # b => block'[c] = block[c]
  BY <1>2, <1>3, ReplaceBlock
<1> QED BY <1>2, <1>4 DEF SizesKept, FrontsKept, LocalFrontsKept, LocalTailsKept,
       NextsKept, DataKept

\* A step that writes next of a block, and nothing else.
LEMMA SetNext ==
  ASSUME TypeOK, NEW b \in Blocks, NEW v \in Nat,
         block' = [block EXCEPT ![b].next = v]
  PROVE  /\ block' \in Seq(BlockType)
         /\ SizesKept /\ FrontsKept /\ TailsKept
         /\ LocalFrontsKept /\ LocalTailsKept /\ DataKept
         /\ \A c \in Blocks : block'[c].next = IF c = b THEN v ELSE block[c].next
<1> DEFINE r == [block[b] EXCEPT !.next = v]
<1>1. block[b] \in BlockType  BY BlockFields
<1>2. /\ r \in BlockType /\ r.next = v
      /\ r.size = block[b].size /\ r.front = block[b].front /\ r.tail = block[b].tail /\ r.localFront = block[b].localFront
      /\ r.localTail = block[b].localTail /\ r.data = block[b].data
  BY <1>1 DEF BlockType
<1>3. block' = [block EXCEPT ![b] = r]  OBVIOUS
<1> HIDE DEF r
<1>4. /\ block' \in Seq(BlockType) /\ Len(block') = Len(block) /\ block'[b] = r
      /\ \A c \in Blocks : c # b => block'[c] = block[c]
  BY <1>2, <1>3, ReplaceBlock
<1> QED BY <1>2, <1>4 DEF SizesKept, FrontsKept, TailsKept, LocalFrontsKept,
       LocalTailsKept, DataKept

\* A slot is written, and nothing else.
SlotSet(b, s, v) ==
  /\ block' \in Seq(BlockType)
  /\ SizesKept /\ FrontsKept /\ TailsKept
  /\ LocalFrontsKept /\ LocalTailsKept /\ NextsKept
  /\ \A c \in Blocks : block'[c].data \in [0..(block[c].size - 1) -> Nat]
  /\ \A c \in Blocks : \A i \in 0..(block[c].size - 1) :
       block'[c].data[i] = IF c = b /\ i = s THEN v ELSE block[c].data[i]

\* A step that writes a slot of a block, and nothing else.
LEMMA SetSlot ==
  ASSUME TypeOK, NEW b \in Blocks, NEW s \in 0..(block[b].size - 1), NEW v \in Nat,
         block' = [block EXCEPT ![b].data[s] = v]
  PROVE  SlotSet(b, s, v)
<1> DEFINE d == [block[b].data EXCEPT ![s] = v]
           r == [block[b] EXCEPT !.data = d]
<1>1. block[b] \in BlockType /\ block[b].size \in Nat  BY BlockFields
<1>2. \A c \in Blocks : block[c].data \in [0..(block[c].size - 1) -> Nat]  BY DEF TypeOK, BlocksOK
<1>3. /\ d \in [0..(block[b].size - 1) -> Nat]
      /\ \A i \in 0..(block[b].size - 1) : d[i] = IF i = s THEN v ELSE block[b].data[i]
  BY <1>2
<1>4. d \in DataFns  BY <1>1, <1>3 DEF DataFns
<1>5. block' = [block EXCEPT ![b] = r]  OBVIOUS
<1> HIDE DEF d
<1>6. /\ r \in BlockType /\ r.data = d
      /\ r.size = block[b].size /\ r.front = block[b].front /\ r.tail = block[b].tail
      /\ r.localFront = block[b].localFront /\ r.localTail = block[b].localTail
      /\ r.next = block[b].next
  BY <1>1, <1>4 DEF BlockType
<1> HIDE DEF r
<1>7. /\ block' \in Seq(BlockType) /\ Len(block') = Len(block) /\ block'[b] = r
      /\ \A c \in Blocks : c # b => block'[c] = block[c]
  BY <1>5, <1>6, ReplaceBlock
<1>8. /\ SizesKept /\ FrontsKept /\ TailsKept
      /\ LocalFrontsKept /\ LocalTailsKept /\ NextsKept
  BY <1>6, <1>7 DEF SizesKept, FrontsKept, TailsKept, LocalFrontsKept, LocalTailsKept,
       NextsKept
<1>9. block'[b].data = d /\ \A c \in Blocks : c # b => block'[c].data = block[c].data
  BY <1>6, <1>7
<1>10. \A c \in Blocks : block'[c].data \in [0..(block[c].size - 1) -> Nat]
  BY <1>2, <1>3, <1>9
<1>11. ASSUME NEW c \in Blocks, NEW i \in 0..(block[c].size - 1)
       PROVE  block'[c].data[i] = IF c = b /\ i = s THEN v ELSE block[c].data[i]
  <2>1. CASE c = b
    <3>1. block'[c].data = d /\ i \in 0..(block[b].size - 1)  BY <1>9, <2>1
    <3> QED BY <1>3, <2>1, <3>1
  <2>2. CASE c # b
    <3>1. block'[c].data = block[c].data  BY <1>9, <2>2
    <3> QED BY <2>2, <3>1
  <2> QED BY <2>1, <2>2
<1> QED BY <1>7, <1>8, <1>10, <1>11 DEF SlotSet

----------------------------------------------------------------------------
(* What a step leaves alone.                                               *)

\* What the constructor asserts of the queue that was made.
LEMMA QueueFacts ==
  ASSUME TypeOK
  PROVE  made.maxSize \in Nat \ {0} /\ made.MAX_BLOCK_SIZE \in Nat \ {0, 1}
BY QueuesAssumption DEF TypeOK, BlocksOK, QueueKind

\* Of every block: its size, its indices, how many items it has.
LEMMA BlockFacts ==
  ASSUME TypeOK, NEW m, Room(m), NEW b \in Blocks
  PROVE  /\ block[b].size \in Nat /\ block[b].size > 1
         /\ block[b].front \in 0..(block[b].size - 1)
         /\ block[b].tail \in 0..(block[b].size - 1)
         /\ block[b].localFront \in 0..(block[b].size - 1)
         /\ block[b].localTail \in 0..(block[b].size - 1)
         /\ Items(b) \in 0..(block[b].size - 1)
         /\ After(b, block[b].tail) \in 0..(block[b].size - 1)
         /\ After(b, block[b].front) \in 0..(block[b].size - 1)
         /\ Full(b) <=> After(b, block[b].tail) = block[b].front
         /\ Items(b) = 0 <=> block[b].front = block[b].tail
         /\ \A i \in 0..(block[b].size - 1) : FromFront(b, i) \in 0..(block[b].size - 1)
<1>1. block[b].size \in Nat /\ block[b].size > 0  BY BlockFields
<1>2. block[1].size \in Nat
  <2>1. Len(block) \in Nat  BY DEF TypeOK, BlocksOK
  <2>2. 1 \in Blocks  BY <2>1 DEF Blocks
  <2> QED BY <2>2, BlockFields
<1>3. block[b].size > 1  BY <1>1, <1>2 DEF Room
<1>4. /\ block[b].front \in 0..(block[b].size - 1)
      /\ block[b].tail \in 0..(block[b].size - 1)
      /\ block[b].localFront \in 0..(block[b].size - 1)
      /\ block[b].localTail \in 0..(block[b].size - 1)
  BY DEF TypeOK, BlocksOK
<1> DEFINE n == block[b].size
           x == block[b].front
           y == block[b].tail
<1>0. \A k \in Nat : k > 1 => \A u, v \in 0..(k - 1) :
        /\ Dist(u, v, k) \in 0..(k - 1)
        /\ Dist(u, v, k) = 0 <=> u = v
        /\ Dist(u, v, k) = k - 1 <=> (v + 1) % k = u
        /\ (v + 1) % k \in 0..(k - 1)
  BY DistFacts
<1>5. /\ Dist(x, y, n) \in 0..(n - 1)
      /\ Dist(x, y, n) = 0 <=> x = y
      /\ Dist(x, y, n) = n - 1 <=> (y + 1) % n = x
      /\ (y + 1) % n \in 0..(n - 1)
  BY <1>0, <1>1, <1>3, <1>4
<1>6. (x + 1) % n \in 0..(n - 1)  BY <1>0, <1>1, <1>3, <1>4
<1>7. \A i \in 0..(n - 1) : Dist(x, i, n) \in 0..(n - 1)  BY <1>0, <1>1, <1>3, <1>4
<1> QED BY <1>1, <1>3, <1>4, <1>5, <1>6, <1>7 DEF Items, FromFront, Full, After

\* Blocks hold a number of items.
LEMMA BlockNats ==
  ASSUME TypeOK, NEW m, Room(m)
  PROVE  \A b \in Blocks : Items(b) \in Nat /\ block[b].size - 1 \in Nat
<1> SUFFICES ASSUME NEW b \in Blocks PROVE Items(b) \in Nat /\ block[b].size - 1 \in Nat
  OBVIOUS
<1>1. /\ block[b].size \in Nat /\ block[b].size > 1
      /\ Items(b) \in 0..(block[b].size - 1)
  BY BlockFacts
<1> QED BY <1>1

\* Items change only with front and tail.
LEMMA ItemsKept ==
  ASSUME SizesKept, FrontsKept, TailsKept
  PROVE  \A b \in Blocks :
           /\ Items(b)' = Items(b) /\ Full(b)' = Full(b)
           /\ \A i : FromFront(b, i)' = FromFront(b, i)
BY DEF SizesKept, FrontsKept, TailsKept, Items, Full, FromFront

\* The circle stays as it is.
LEMMA ShapeFrame ==
  ASSUME NEW m \in Nat, NEW ring, NEW T, Shape(m, ring, T),
         Len(block) \in Nat, Len(block') = Len(block), NextsKept,
         (prod.at = "link") = (prod'.at = "link"),
         frontBlock' = frontBlock, tailBlock' = tailBlock
  PROVE  Shape(m, ring, T)'
<1>1. m = IF prod'.at = "link" THEN Len(block') - 1 ELSE Len(block')  BY DEF Shape
<1>2. \A b \in Blocks : block'[b].next = block[b].next  BY DEF NextsKept
<1>3. Blocks' = Blocks  BY DEF Blocks
<1>4. Circle(m, ring, T)'
  <2>1. /\ m - 1 \in 0..(m - 1)
        /\ \A i \in 0..(m - 1) : ring[i] \in Blocks
    BY DEF Shape, Circle
  <2>2. \A i \in 0..(m - 1) : block'[ring[i]].next = block[ring[i]].next
    BY <1>2, <2>1
  <2> QED BY SMTT(30), <1>3, <2>1, <2>2 DEF Shape, Circle
<1> QED BY <1>1, <1>4 DEF Shape

\* The blocks stay as large as they are.
LEMMA RoomFrame ==
  ASSUME NEW m, Room(m), TypeOK, SizesKept, largestBlockSize' = largestBlockSize, made' = made
  PROVE  Room(m)'
BY DEF Room, SizesKept, TypeOK, BlocksOK, Blocks

\* The copies of indices stay as right as they are.
LEMMA ViewsFrame ==
  ASSUME Views, SizesKept, FrontsKept, TailsKept, LocalFrontsKept, LocalTailsKept
  PROVE  Views'
<1>1. Blocks' = Blocks  BY DEF Blocks, SizesKept
<1>2. \A b \in Blocks : Items(b)' = Items(b) /\ \A i : FromFront(b, i)' = FromFront(b, i)
  BY ItemsKept
<1> QED BY <1>1, <1>2 DEF Views, SizesKept, TailsKept, LocalFrontsKept, LocalTailsKept

\* The numbers of the items stay as they are.
LEMMA ChainFrame ==
  ASSUME NEW m \in Nat, NEW ring, NEW T \in 0..(m - 1), NEW lo,
         Shape(m, ring, T), Chain(m, ring, T, lo), TypeOK,
         SizesKept, FrontsKept, TailsKept, puts' = puts, taken' = taken,
         prod.at = "advance" => prod'.at = "advance" /\ prod'.to = prod.to
  PROVE  Chain(m, ring, T, lo)'
<1>1. \A b \in Blocks : Items(b)' = Items(b)  BY ItemsKept
<1>2. \A i \in 0..(m - 1) : ring[i] \in Blocks  BY DEF Shape, Circle
<1>3. 1 \in Blocks /\ block'[1].size = block[1].size
  BY DEF TypeOK, BlocksOK, Blocks, SizesKept
<1>4. \A i \in 0..(m - 1) : Items(ring[i])' = Items(ring[i])  BY <1>1, <1>2
<1>5. Counted(ring, T, lo)'  BY <1>3 DEF Chain, Counted
<1> QED BY <1>4, <1>5 DEF Chain

\* The slots keep what they hold.
LEMMA FilledFrame ==
  ASSUME NEW lo, Filled(lo), TypeOK,
         SizesKept, FrontsKept, TailsKept, DataKept,
         prod.at = "gone" => prod'.at = "gone",
         (cons.at = "front") = (cons'.at = "front"), frontBlock' = frontBlock,
         (prod.at = "publish") = (prod'.at = "publish"),
         prod.at = "publish" => prod'.to = prod.to /\ puts' = puts
  PROVE  Filled(lo)'
<1>1. Blocks' = Blocks  BY DEF Blocks, SizesKept
<1>2. \A b \in Blocks : Items(b)' = Items(b) /\ \A i : FromFront(b, i)' = FromFront(b, i)
  BY ItemsKept
<1>3. \A b \in Blocks : \A d : Content(lo, b, d)' = Content(lo, b, d)
  BY <1>2 DEF Content
<1> QED BY <1>1, <1>2, <1>3 DEF Filled, SizesKept, DataKept

\* The consumer's part of the invariant after a step of the producer.
LEMMA ConsStays ==
  ASSUME NEW T \in Nat, ConsInv(T), TypeOK, NEW T1 \in Nat, T1 >= T,
         cons' = cons, answer' = answer, frontBlock' = frontBlock, taken' = taken,
         puts' \in Nat, puts' >= puts, FrontsKept, LocalTailsKept,
         T >= 1 => /\ Items(frontBlock)' = Items(frontBlock)
                   /\ NextOfFront' = NextOfFront /\ NextOfFront \in Blocks
  PROVE  ConsInv(T1)'
<1>1. frontBlock \in Blocks /\ puts \in Nat /\ taken \in Nat  BY DEF TypeOK, BlocksOK
<1>2. /\ block'[frontBlock].front = block[frontBlock].front
      /\ block'[frontBlock].localTail = block[frontBlock].localTail
  BY <1>1 DEF FrontsKept, LocalTailsKept
<1>3. T >= 1 => /\ block'[NextOfFront].front = block[NextOfFront].front
                /\ block'[NextOfFront].localTail = block[NextOfFront].localTail
  BY DEF FrontsKept, LocalTailsKept
<1> HIDE DEF NextOfFront
<1> QED BY <1>1, <1>2, <1>3 DEF ConsInv

\* The producer's part after a step of the consumer.
LEMMA ProdStays ==
  ASSUME NEW m \in Nat, NEW ring, NEW T \in Nat, NEW lo, ProdInv(m, ring, T, lo), TypeOK,
         NEW ring1, NEW T1 \in Nat, T1 <= T, T1 = m - 1 => T = m - 1,
         NextIsTo(m, ring, T) => NextIsTo(m, ring1, T1)',
         prod' = prod, tailBlock' = tailBlock, puts' = puts, made' = made,
         taken' \in Nat, taken' >= taken,
         SizesKept, TailsKept, LocalFrontsKept, NextsKept,
         T1 >= 1 => Items(tailBlock)' = Items(tailBlock),
         NEW lo1, prod.at \in {"link", "advance"} =>
                    lo1[prod.to] = lo[prod.to] /\ Items(prod.to)' = Items(prod.to)
  PROVE  ProdInv(m, ring1, T1, lo1)'
<1>1. /\ tailBlock \in Blocks /\ prod.to \in Blocks
      /\ puts \in Nat /\ taken \in Nat /\ prod.held \in Nat
  BY DEF TypeOK, ProdType
<1>2. /\ After(prod.to, block[prod.to].tail)' = After(prod.to, block[prod.to].tail)
      /\ block'[prod.to].localFront = block[prod.to].localFront
      /\ block'[prod.to].next = block[prod.to].next
      /\ block'[tailBlock].next = block[tailBlock].next
      /\ block'[tailBlock].size = block[tailBlock].size
  BY <1>1 DEF SizesKept, TailsKept, LocalFrontsKept, NextsKept, After
<1>3. T1 >= 1 => T >= 1 /\ Full(tailBlock)' = Full(tailBlock)  BY <1>2 DEF Full
<1>4. \A h \in Nat : h >= puts - taken => h >= puts' - taken'
  <2>1. \A p, t, u, h \in Nat : t <= u /\ h >= p - t => h >= p - u  OBVIOUS
  <2>2. puts \in Nat /\ taken \in Nat /\ taken' \in Nat /\ taken <= taken' /\ puts' = puts
    BY <1>1
  <2> QED BY <2>1, <2>2
<1> QED BY <1>1, <1>2, <1>3, <1>4 DEF ProdInv

----------------------------------------------------------------------------
(* Where the threads go.                                                   *)

\* Where the producer is after it has moved on.
LEMMA ProdGoesFacts ==
  ASSUME TypeOK, NEW from, NEW to \in Free \cup Busy, ProdGoes(from, to)
  PROVE  /\ prod' \in ProdType /\ prod.at = from /\ prod'.at = to
         /\ to # "idle" => prod'.to = prod.to /\ prod'.held = prod.held
         /\ to = "idle" => prod'.held = 0
BY DEF TypeOK, ProdType, ProdGoes, IdleProd, Blocks

\* Where the consumer is after it has moved on.
LEMMA ConsGoesFacts ==
  ASSUME TypeOK, NEW from, NEW to \in Free \cup ConsBusy, ConsGoes(from, to)
  PROVE  /\ cons' \in ConsType /\ cons.at = from /\ cons'.at = to
         /\ to # "idle" => cons'.op = cons.op /\ cons'.wasEmpty = cons.wasEmpty
BY DEF TypeOK, ConsType, ConsGoes, IdleCons, Ops

\* A step that changes no block.
LEMMA BlocksSame ==
  ASSUME block' = block
  PROVE  /\ SizesKept /\ FrontsKept /\ TailsKept /\ LocalFrontsKept /\ LocalTailsKept
         /\ NextsKept /\ DataKept /\ Blocks' = Blocks /\ BlocksOK' = BlocksOK
BY DEF SizesKept, FrontsKept, TailsKept, LocalFrontsKept, LocalTailsKept, NextsKept, DataKept,
       Blocks, BlocksOK

\* The types of the blocks stay right if those of the indices and slots do.
LEMMA BlocksOKStays ==
  ASSUME BlocksOK, block' \in Seq(BlockType), SizesKept,
         \A b \in Blocks :
           /\ block'[b].data \in [0..(block[b].size - 1) -> Nat]
           /\ block'[b].front \in 0..(block[b].size - 1)
           /\ block'[b].tail \in 0..(block[b].size - 1)
           /\ block'[b].localFront \in 0..(block[b].size - 1)
           /\ block'[b].localTail \in 0..(block[b].size - 1)
  PROVE  BlocksOK' /\ Blocks' = Blocks
BY DEF BlocksOK, Blocks, SizesKept

\* There is a number of blocks.
LEMMA LengthNat == ASSUME TypeOK PROVE Len(block) \in Nat
BY DEF TypeOK, BlocksOK

\* The circle has at most all the blocks, and the first is one of them.
LEMMA ShapeFacts ==
  ASSUME NEW m \in Nat, NEW ring, NEW T \in 0..(m - 1), TypeOK, Shape(m, ring, T)
  PROVE  Len(block) \in Nat /\ m <= Len(block) /\ 1 \in Blocks
<1>1. Len(block) \in Nat  BY LengthNat
<1> QED BY <1>1 DEF Shape, Blocks

\* The last item put is the last of the tail block; the first, the front one's.
LEMMA ChainEnds ==
  ASSUME NEW m \in Nat, NEW ring \in [Nat -> Nat], NEW T \in 0..(m - 1), NEW lo \in [Nat -> Nat],
         Shape(m, ring, T), Chain(m, ring, T, lo), TypeOK, Room(m)
  PROVE  /\ \A i \in 0..(m - 1) : ring[i] \in Blocks /\ Items(ring[i]) \in Nat
         /\ lo[frontBlock] = taken /\ puts = lo[tailBlock] + Items(tailBlock)
         /\ frontBlock = tailBlock <=> T = 0
         /\ T = 0 => puts = taken + Items(frontBlock)
         /\ T >= 1 => /\ NextOfFront = ring[1] /\ NextOfFront \in Blocks
                      /\ lo[ring[1]] = taken + Items(frontBlock)
                      /\ Items(ring[1]) > 0
         /\ taken + Items(frontBlock) <= puts /\ taken <= puts
         /\ T >= 1 => puts > taken + Items(frontBlock)
<1>0. Circle(m, ring, T)  BY DEF Shape
<1>1. \A i \in 0..(m - 1) : ring[i] \in Blocks  BY <1>0 DEF Circle
<1>2. \A b \in Blocks : Items(b) \in Nat /\ block[b].size - 1 \in Nat  BY BlockNats
<1>3. /\ 0 \in 0..(m - 1)
      /\ ring[0] = frontBlock /\ ring[T] = tailBlock
      /\ \A i, j \in 0..(m - 1) : ring[i] = ring[j] => i = j
  BY <1>0 DEF Circle
<1>4. lo[frontBlock] = taken /\ puts = lo[tailBlock] + Items(tailBlock)
  BY <1>3 DEF Chain
<1>5. frontBlock = tailBlock <=> T = 0  BY <1>3
<1>6. ASSUME T >= 1
      PROVE  /\ NextOfFront = ring[1] /\ NextOfFront \in Blocks
             /\ lo[ring[1]] = taken + Items(frontBlock)
             /\ Items(ring[1]) > 0
  <2>1. 0 # m - 1 /\ 1 \in 0..(m - 1) /\ 0 \in 0..T /\ 1 \in 0..T /\ 1 \in 1..T  BY <1>6
  <2>2. NextOfFront = ring[1]
    <3>1. \A i, j \in 0..(m - 1) : j = i + 1 => block[ring[i]].next = ring[j]
      BY <1>0 DEF Circle
    <3>2. block[ring[0]].next = ring[1]  BY <2>1, <3>1
    <3> QED BY <1>3, <3>2 DEF NextOfFront
  <2>3. lo[ring[1]] = lo[ring[0]] + Items(ring[0])  BY <2>1 DEF Chain
  <2> QED BY <1>1, <1>3, <1>4, <2>1, <2>2, <2>3 DEF Chain
<1>7. /\ taken + Items(frontBlock) <= puts /\ taken <= puts
      /\ T >= 1 => puts > taken + Items(frontBlock)
  <2>1. CASE T = 0
    <3>1. /\ puts = taken + Items(frontBlock) /\ taken \in Nat /\ Items(frontBlock) \in Nat
      BY <1>2, <1>4, <1>5, <2>1 DEF TypeOK
    <3> QED BY <2>1, <3>1
  <2>2. CASE T >= 1
    <3>1. 1 \in 1..T /\ T \in 1..T /\ T - 1 \in Nat /\ 1 \in 0..(m - 1)  BY <2>2
    <3>2. lo[ring[T]] >= lo[ring[1]] + (T - 1) * (block[1].size - 1)
      BY <3>1, <2>2 DEF Chain, Counted
    <3>3. 1 \in Blocks /\ block[1].size - 1 \in Nat  BY <1>2, ShapeFacts
    <3>4. (T - 1) * (block[1].size - 1) \in Nat  BY <3>1, <3>3
    <3>5. /\ lo[ring[1]] = taken + Items(frontBlock)
          /\ Items(frontBlock) \in Nat /\ Items(tailBlock) \in Nat
          /\ lo[tailBlock] \in Nat /\ lo[ring[1]] \in Nat /\ taken \in Nat
      <4>1. tailBlock \in Nat /\ ring[1] \in Nat /\ taken \in Nat
        BY <1>1, <3>1 DEF TypeOK, Blocks
      <4>2. frontBlock \in Blocks /\ tailBlock \in Blocks  BY DEF TypeOK
      <4> QED BY <1>2, <1>6, <2>2, <4>1, <4>2
    <3>6. Items(tailBlock) > 0  BY <1>3, <3>1 DEF Chain
    <3>7. puts = lo[tailBlock] + Items(tailBlock) /\ lo[tailBlock] >= taken + Items(frontBlock)
      BY <1>3, <1>4, <3>2, <3>4, <3>5
    <3> QED BY <3>5, <3>6, <3>7
  <2> QED BY <2>1, <2>2
<1> QED BY <1>1, <1>2, <1>4, <1>5, <1>6, <1>7

----------------------------------------------------------------------------
(* The producer's steps.                                                   *)

\* Steps that move the producer on and change no block and no index.
LEMMA ProducerMoves ==
  ASSUME NEW m \in Nat, NEW ring \in [Nat -> Nat], NEW T \in 0..(m - 1), NEW lo \in [Nat -> Nat],
         TypeOK, Good(m, ring, T, lo), prod' \in ProdType,
         prod.at # "advance", prod.at # "publish", prod'.at # "publish", prod.at # "gone",
         prod'.at # "gone",
         (prod.at = "link") = (prod'.at = "link"),
         UNCHANGED <<indexVars, puts>>, UNCHANGED <<made, frontBlock, cons, taken, answer>>,
         ProdInv(m, ring, T, lo)'
  PROVE  TypeOK' /\ Good(m, ring, T, lo)'
<1>1. /\ block' = block /\ frontBlock' = frontBlock /\ tailBlock' = tailBlock
      /\ largestBlockSize' = largestBlockSize /\ puts' = puts /\ made' = made
      /\ cons' = cons /\ taken' = taken /\ answer' = answer
  BY DEF indexVars
<1>2. /\ SizesKept /\ FrontsKept /\ TailsKept /\ LocalFrontsKept /\ LocalTailsKept
      /\ NextsKept /\ DataKept /\ Blocks' = Blocks /\ BlocksOK' = BlocksOK
  BY <1>1, BlocksSame
<1>3. TypeOK'  BY <1>1, <1>2 DEF TypeOK, ProdType
<1>4. /\ Shape(m, ring, T) /\ Views /\ Filled(lo) /\ Room(m)
      /\ Chain(m, ring, T, lo) /\ ConsInv(T)
  BY DEF Good
<1>5. Shape(m, ring, T)'  BY <1>1, <1>2, <1>4, LengthNat, ShapeFrame
<1>6. Views'  BY <1>2, <1>4, ViewsFrame
<1>7. Filled(lo)'  BY <1>1, <1>2, <1>4, FilledFrame
<1>8. Room(m)'  BY <1>1, <1>2, <1>4, RoomFrame
<1>9. Chain(m, ring, T, lo)'  BY <1>1, <1>2, <1>4, ChainFrame
<1>10. ConsInv(T)'  BY <1>1, <1>4 DEF ConsInv, Items, FromFront, NextOfFront
<1> QED BY <1>3, <1>5, <1>6, <1>7, <1>8, <1>9, <1>10 DEF Good

\* A call of enqueue or try_enqueue.
LEMMA EnqueueStep ==
  ASSUME NEW m \in Nat, NEW ring \in [Nat -> Nat], NEW T \in 0..(m - 1), NEW lo \in [Nat -> Nat],
         TypeOK, Good(m, ring, T, lo), NEW alloc \in BOOLEAN, Enqueue(alloc)
  PROVE  TypeOK' /\ Good(m, ring, T, lo)'
<1>1. /\ UNCHANGED <<indexVars, puts>> /\ UNCHANGED <<made, frontBlock, cons, taken, answer>>
      /\ tailBlock' = tailBlock /\ block' = block /\ puts' = puts /\ taken' = taken
      /\ prod.at = "idle" /\ prod'.to = tailBlock /\ prod'.held = puts - taken
      /\ prod'.at \in {"write", "refresh"} /\ prod'.alloc = alloc
      /\ prod'.at = "write" => After(tailBlock, block[tailBlock].tail) # block[tailBlock].localFront
      /\ prod' = [at |-> prod'.at, alloc |-> prod'.alloc, to |-> prod'.to, held |-> prod'.held]
  BY DEF Enqueue, ProducerOnly, indexVars, Length
<1>2. taken <= puts  BY ChainEnds DEF Good
<1>3. prod' \in ProdType  BY <1>1, <1>2 DEF ProdType, TypeOK, Busy
<1>4. /\ After(prod.to, block[prod.to].tail)' = After(tailBlock, block[tailBlock].tail)
      /\ block'[prod'.to].localFront = block[tailBlock].localFront
  BY <1>1 DEF After
<1>5. prod'.held >= puts' - taken'  BY <1>1, <1>2 DEF TypeOK
<1>6. ProdInv(m, ring, T, lo)'
  BY <1>1, <1>4, <1>5 DEF ProdInv, Free, Busy
<1> QED BY <1>1, <1>3, <1>6, ProducerMoves

\* The tail block is full, and so are all, unless the next is free.
LEMMA TailBlockFullStep ==
  ASSUME NEW m \in Nat, NEW ring \in [Nat -> Nat], NEW T \in 0..(m - 1), NEW lo \in [Nat -> Nat],
         TypeOK, Good(m, ring, T, lo), TailBlockFull
  PROVE  TypeOK' /\ Good(m, ring, T, lo)'
<1>1. /\ UNCHANGED <<indexVars, puts>> /\ UNCHANGED <<made, frontBlock, cons, taken, answer>>
      /\ tailBlock' = tailBlock /\ block' = block /\ puts' = puts /\ taken' = taken /\ made' = made
      /\ prod.at = "full"
  BY DEF TailBlockFull, ProducerOnly, indexVars, ProdGoes
<1>2. /\ T >= 1 => Full(tailBlock)
      /\ T = m - 1 => prod.held >= made.maxSize
      /\ prod.held >= puts - taken
  BY <1>1 DEF Good, ProdInv, Busy
<1>3. Full(tailBlock)' = Full(tailBlock)  BY <1>1 DEF Full, Items, FromFront
<1>4. block[tailBlock].next = IF T = m - 1 THEN frontBlock ELSE ring[T + 1]
  <2>1. T # m - 1 => T + 1 \in 0..(m - 1)  OBVIOUS
  <2>2. /\ \A i, j \in 0..(m - 1) : j = i + 1 => block[ring[i]].next = ring[j]
        /\ block[ring[m - 1]].next = ring[0]
        /\ ring[0] = frontBlock /\ ring[T] = tailBlock
    BY DEF Good, Shape, Circle
  <2> QED BY <2>1, <2>2
<1>5. CASE NextFree
  <2>1. prod' = [prod EXCEPT !.at = "ahead", !.to = block[tailBlock].next]
    BY <1>5 DEF TailBlockFull
  <2>2. /\ T # m - 1 /\ T + 1 <= m - 1 /\ T + 1 \in 0..(m - 1)
        /\ block[tailBlock].next = ring[T + 1]
    BY <1>4, <1>5 DEF NextFree
  <2>3. ring[T + 1] \in Blocks  BY <2>2, ChainEnds DEF Good
  <2>4. /\ prod' \in ProdType /\ prod'.at = "ahead" /\ prod'.to = ring[T + 1]
        /\ prod'.held = prod.held
    BY <2>1, <2>2, <2>3 DEF TypeOK, ProdType, Busy
  <2>5. ProdInv(m, ring, T, lo)'
    BY <1>1, <1>2, <1>3, <2>2, <2>4 DEF ProdInv, NextIsTo, Free, Busy
  <2> QED BY <1>1, <2>4, <2>5, ProducerMoves
<1>6. CASE ~NextFree
  <2>1. ProdGoes("full", IF prod.alloc THEN "alloc" ELSE "idle")
    BY <1>6 DEF TailBlockFull
  <2>2. /\ prod' \in ProdType /\ prod'.at \in {"alloc", "idle"}
        /\ prod'.at = "alloc" => prod'.held = prod.held
        /\ prod'.at = "idle" => prod'.held = 0
    BY <2>1, ProdGoesFacts DEF Free, Busy
  <2>3. T = m - 1
    <3>1. T # m - 1 => T + 1 \in 0..(m - 1) /\ 0 \in 0..(m - 1)  OBVIOUS
    <3>2. ring[0] = frontBlock /\ \A i, j \in 0..(m - 1) : ring[i] = ring[j] => i = j
      BY DEF Good, Shape, Circle
    <3> QED BY <1>4, <1>6, <3>1, <3>2 DEF NextFree
  <2>4. ProdInv(m, ring, T, lo)'
    BY <1>1, <1>2, <1>3, <2>2, <2>3 DEF ProdInv, Free, Busy
  <2> QED BY <1>1, <2>2, <2>4, ProducerMoves
<1> QED BY <1>5, <1>6

\* An enqueue that gets no memory.
LEMMA OutOfMemoryStep ==
  ASSUME NEW m \in Nat, NEW ring \in [Nat -> Nat], NEW T \in 0..(m - 1), NEW lo \in [Nat -> Nat],
         TypeOK, Good(m, ring, T, lo), OutOfMemory
  PROVE  TypeOK' /\ Good(m, ring, T, lo)'
<1>1. /\ UNCHANGED <<indexVars, puts>> /\ UNCHANGED <<made, frontBlock, cons, taken, answer>>
      /\ ProdGoes("alloc", "idle")
  BY DEF OutOfMemory, ProducerOnly, indexVars
<1>2. prod' \in ProdType /\ prod.at = "alloc" /\ prod'.at = "idle" /\ prod'.held = 0
  BY <1>1, ProdGoesFacts DEF Free
<1>3. ProdInv(m, ring, T, lo)'  BY <1>2 DEF ProdInv, Free, Busy
<1> QED BY <1>1, <1>2, <1>3, ProducerMoves


\* A circle whose tail block is full and leads to the front block holds what
\* the queue was made for.
LEMMA FullCircle ==
  ASSUME NEW m \in Nat, NEW ring \in [Nat -> Nat], NEW T \in 0..(m - 1), NEW lo \in [Nat -> Nat],
         Shape(m, ring, T), Chain(m, ring, T, lo), TypeOK, Room(m),
         Full(tailBlock), T = m - 1
  PROVE  puts - taken >= made.maxSize
<1> DEFINE S == block[1].size - 1
<1>1. /\ lo[frontBlock] = taken /\ puts = lo[tailBlock] + Items(tailBlock)
      /\ T = 0 => frontBlock = tailBlock
      /\ T >= 1 => lo[ring[1]] = taken + Items(frontBlock)
  BY ChainEnds
<1>2. /\ frontBlock \in Blocks /\ tailBlock \in Blocks /\ 1 \in Blocks
      /\ taken \in Nat /\ made.maxSize \in Nat
  BY ShapeFacts, QueueFacts DEF TypeOK
<1>3. S \in Nat /\ Items(frontBlock) \in Nat /\ Items(tailBlock) \in Nat  BY <1>2, BlockNats
<1>4. Items(tailBlock) >= S
  <2>1. block[tailBlock].size >= block[1].size  BY <1>2 DEF Room
  <2>2. block[tailBlock].size \in Nat /\ block[1].size \in Nat  BY <1>2, BlockFields
  <2> QED BY <2>1, <2>2 DEF Full
<1>5. IF m = 1 THEN S >= made.maxSize ELSE (m - 1) * S >= made.maxSize  BY DEF Room
<1> HIDE DEF S
<1>6. CASE T = 0
  BY <1>1, <1>2, <1>3, <1>4, <1>5, <1>6
<1>7. CASE T >= 1
  <2>1. 1 \in 1..T /\ T \in 1..T /\ T - 1 \in Nat  BY <1>7
  <2>2. lo[ring[T]] >= lo[ring[1]] + (T - 1) * S  BY <1>7, <2>1 DEF Chain, Counted, S
  <2>3. ring[T] = tailBlock  BY DEF Shape, Circle
  <2>4. (T - 1) * S + S = (m - 1) * S
    <3>1. \A t, s \in Nat : (t - 1) * s + s = t * s  OBVIOUS
    <3> QED BY <1>3, <3>1
  <2>5. (T - 1) * S \in Nat  BY <1>3, <2>1
  <2>6. lo[tailBlock] \in Nat /\ (m - 1) * S >= made.maxSize
    <3>1. tailBlock \in Nat  BY <1>2 DEF Blocks
    <3> QED BY <1>5, <1>7, <3>1
  <2>7. lo[tailBlock] >= taken + Items(frontBlock) + (T - 1) * S
    BY <1>1, <1>7, <2>2, <2>3
  <2> QED BY <1>1, <1>2, <1>3, <1>4, <2>4, <2>5, <2>6, <2>7
<1> QED BY <1>6, <1>7

\* The producer looks at the front of a block.
LEMMA FrontSeen ==
  ASSUME NEW m \in Nat, NEW ring \in [Nat -> Nat], NEW T \in 0..(m - 1), NEW lo \in [Nat -> Nat],
         TypeOK, Good(m, ring, T, lo), NEW b \in Blocks,
         block' = [block EXCEPT ![b].localFront = block[b].front]
  PROVE  /\ SizesKept /\ FrontsKept /\ TailsKept /\ LocalTailsKept /\ NextsKept /\ DataKept
         /\ block'[b].localFront = block[b].front
         /\ BlocksOK' /\ Blocks' = Blocks /\ Views'
<1>1. Views /\ Room(m)  BY DEF Good
<1>2. /\ block[b].front \in 0..(block[b].size - 1)
      /\ block[b].front \in Nat
  <2>1. block[b].size \in Nat /\ block[b].front \in 0..(block[b].size - 1)
    BY <1>1, BlockFacts
  <2> QED BY <2>1
<1>3. /\ block' \in Seq(BlockType)
      /\ SizesKept /\ FrontsKept /\ TailsKept /\ LocalTailsKept /\ NextsKept /\ DataKept
      /\ \A c \in Blocks : block'[c].localFront =
           IF c = b THEN block[b].front ELSE block[c].localFront
  BY <1>2, SetLocalFront
<1>4. BlocksOK' /\ Blocks' = Blocks
  <2>1. \A c \in Blocks :
          /\ block'[c].data \in [0..(block[c].size - 1) -> Nat]
          /\ block'[c].front \in 0..(block[c].size - 1)
          /\ block'[c].tail \in 0..(block[c].size - 1)
          /\ block'[c].localFront \in 0..(block[c].size - 1)
          /\ block'[c].localTail \in 0..(block[c].size - 1)
    <3>1. \A c \in Blocks : block'[c].localFront \in 0..(block[c].size - 1)
      BY <1>2, <1>3 DEF TypeOK, BlocksOK
    <3> QED BY <1>3, <3>1 DEF TypeOK, BlocksOK, FrontsKept, TailsKept, LocalTailsKept, DataKept
  <2> QED BY <1>3, <2>1, BlocksOKStays DEF TypeOK
<1>5. Views'
  <2>1. \A c \in Blocks : Items(c)' = Items(c) /\ \A i : FromFront(c, i)' = FromFront(c, i)
    BY <1>3, ItemsKept
  <2>2. \A c \in Blocks : c # b =>
          Items(c)' <= Dist(block'[c].localFront, block'[c].tail, block'[c].size)
    BY <1>1, <1>3, <2>1 DEF Views, SizesKept, TailsKept
  <2>3. Items(b)' <= Dist(block'[b].localFront, block'[b].tail, block'[b].size)
    <3>1. Dist(block'[b].localFront, block'[b].tail, block'[b].size) = Items(b)
      BY <1>3 DEF SizesKept, TailsKept, Items, FromFront
    <3>2. Items(b) \in Nat  BY <1>1, BlockNats
    <3> QED BY <2>1, <3>1, <3>2
  <2>4. \A c \in Blocks : FromFront(c, block[c].localTail)' <= Items(c)'
    BY <1>1, <1>3, <2>1 DEF Views, LocalTailsKept
  <2> QED BY <1>4, <2>2, <2>3, <2>4 DEF Views
<1> QED BY <1>3, <1>4, <1>5

\* The producer refreshes its copy of a front.
LEMMA FrontSeenStep ==
  ASSUME NEW m \in Nat, NEW ring \in [Nat -> Nat], NEW T \in 0..(m - 1), NEW lo \in [Nat -> Nat],
         TypeOK, Good(m, ring, T, lo), NEW b \in Blocks,
         block' = [block EXCEPT ![b].localFront = block[b].front],
         prod.at \in {"refresh", "ahead"}, prod'.at \in {"write", "full"}, prod' \in ProdType,
         UNCHANGED <<tailBlock, largestBlockSize, puts>>,
         UNCHANGED <<made, frontBlock, cons, taken, answer>>,
         ProdInv(m, ring, T, lo)'
  PROVE  TypeOK' /\ Good(m, ring, T, lo)'
<1>1. /\ Shape(m, ring, T) /\ Views /\ Filled(lo) /\ Room(m)
      /\ Chain(m, ring, T, lo) /\ ConsInv(T)
  BY DEF Good
<1>2. /\ SizesKept /\ FrontsKept /\ TailsKept /\ LocalTailsKept /\ NextsKept /\ DataKept
      /\ BlocksOK' /\ Blocks' = Blocks /\ Views'
  BY FrontSeen
<1>3. /\ prod.at # "gone" /\ prod.at # "publish" /\ prod.at # "link" /\ prod.at # "advance"
      /\ prod'.at # "gone" /\ prod'.at # "publish" /\ prod'.at # "link"
  OBVIOUS
<1>4. TypeOK'  BY <1>2, <1>3 DEF TypeOK, ProdType
<1>5. Shape(m, ring, T)'  BY <1>1, <1>2, <1>3, LengthNat, ShapeFrame DEF SizesKept
<1>6. Filled(lo)'  BY <1>1, <1>2, <1>3, FilledFrame
<1>7. Room(m)'  BY <1>1, <1>2, RoomFrame
<1>8. Chain(m, ring, T, lo)'  BY <1>1, <1>2, <1>3, ChainFrame
<1>9. ConsInv(T)'
  <2>1. Items(frontBlock)' = Items(frontBlock)  BY <1>2, ItemsKept DEF TypeOK
  <2>2. NextOfFront' = NextOfFront  BY <1>2 DEF NextOfFront, NextsKept, TypeOK
  <2>3. T >= 1 => NextOfFront \in Blocks  BY <1>1, ChainEnds
  <2>4. T \in Nat /\ T >= T /\ puts' \in Nat /\ puts' >= puts  BY DEF TypeOK
  <2> QED BY <1>1, <1>2, <2>1, <2>2, <2>3, <2>4, ConsStays
<1> QED BY <1>1, <1>2, <1>4, <1>5, <1>6, <1>7, <1>8, <1>9 DEF Good

\* The producer looks at the front of the tail block again.
LEMMA RefreshFrontStep ==
  ASSUME NEW m \in Nat, NEW ring \in [Nat -> Nat], NEW T \in 0..(m - 1), NEW lo \in [Nat -> Nat],
         TypeOK, Good(m, ring, T, lo), RefreshFront
  PROVE  TypeOK' /\ Good(m, ring, T, lo)'
<1> DEFINE goal == IF After(tailBlock, block[tailBlock].tail) # block[tailBlock].front
                   THEN "write" ELSE "full"
<1>1. /\ ProdGoes("refresh", goal)
      /\ block' = [block EXCEPT ![tailBlock].localFront = block[tailBlock].front]
      /\ UNCHANGED <<tailBlock, largestBlockSize, puts>>
      /\ UNCHANGED <<made, frontBlock, cons, taken, answer>>
  BY DEF RefreshFront, ProducerOnly
<1>2. /\ Shape(m, ring, T) /\ Room(m) /\ Chain(m, ring, T, lo) /\ ProdInv(m, ring, T, lo)
  BY DEF Good
<1>3. tailBlock \in Blocks /\ puts \in Nat /\ taken \in Nat  BY DEF TypeOK
<1>4. Full(tailBlock) <=> After(tailBlock, block[tailBlock].tail) = block[tailBlock].front
  BY <1>2, <1>3, BlockFacts
<1>5. /\ SizesKept /\ FrontsKept /\ TailsKept
      /\ block'[tailBlock].localFront = block[tailBlock].front
  BY <1>1, <1>3, FrontSeen
<1>6. goal \in Free \cup Busy /\ goal # "idle"  BY DEF Busy
<1>7. /\ prod' \in ProdType /\ prod.at = "refresh" /\ prod'.at = goal
      /\ prod'.to = prod.to /\ prod'.held = prod.held
  BY <1>1, <1>6, ProdGoesFacts
<1>8. ProdInv(m, ring, T, lo)'
  <2>1. /\ prod.to = tailBlock /\ prod.held >= puts - taken
    BY <1>2, <1>7 DEF ProdInv, Busy
  <2>2. Full(tailBlock)' = Full(tailBlock)  BY <1>1, <1>3, <1>5, ItemsKept
  <2>3. After(prod.to, block[prod.to].tail)' = After(tailBlock, block[tailBlock].tail)
    BY <1>3, <1>5, <1>7, <2>1 DEF After, SizesKept, TailsKept
  <2>4. block'[prod'.to].localFront = block[tailBlock].front
    BY <1>3, <1>5, <1>7, <2>1
  <2>5. CASE prod'.at = "write"
    <3>1. After(tailBlock, block[tailBlock].tail) # block[tailBlock].front
      BY <1>7, <2>5
    <3> QED BY <1>1, <1>7, <2>1, <2>3, <2>4, <2>5, <3>1 DEF ProdInv, Free, Busy
  <2>6. CASE prod'.at = "full"
    <3>1. Full(tailBlock)  BY <1>4, <1>7, <2>6
    <3>2. T = m - 1 => puts - taken >= made.maxSize  BY <1>2, <3>1, FullCircle
    <3>3. \A h, p, t, x \in Nat : h >= p - t /\ p - t >= x => h >= x  OBVIOUS
    <3>4. T = m - 1 => prod.held >= made.maxSize
      BY <1>3, <2>1, <3>2, <3>3, QueueFacts DEF TypeOK, ProdType
    <3> QED BY <1>1, <1>7, <2>1, <2>2, <2>6, <3>1, <3>4 DEF ProdInv, Free, Busy
  <2> QED BY <1>7, <2>5, <2>6
<1> QED BY <1>1, <1>3, <1>7, <1>8, FrontSeenStep

\* The producer looks at the front of the next block.
LEMMA UseNextBlockStep ==
  ASSUME NEW m \in Nat, NEW ring \in [Nat -> Nat], NEW T \in 0..(m - 1), NEW lo \in [Nat -> Nat],
         TypeOK, Good(m, ring, T, lo), UseNextBlock
  PROVE  TypeOK' /\ Good(m, ring, T, lo)'
<1>1. /\ ProdGoes("ahead", "write")
      /\ block' = [block EXCEPT ![prod.to].localFront = block[prod.to].front]
      /\ UNCHANGED <<tailBlock, largestBlockSize, puts>>
      /\ UNCHANGED <<made, frontBlock, cons, taken, answer>>
  BY DEF UseNextBlock, ProducerOnly
<1>2. /\ prod' \in ProdType /\ prod.at = "ahead" /\ prod'.at = "write"
      /\ prod'.to = prod.to /\ prod'.held = prod.held
  BY <1>1, ProdGoesFacts DEF Busy
<1>3. prod.to \in Blocks  BY DEF TypeOK, ProdType
<1>4. /\ Room(m) /\ Shape(m, ring, T) /\ Chain(m, ring, T, lo)
      /\ NextIsTo(m, ring, T) /\ prod.held >= puts - taken
  BY <1>2 DEF Good, ProdInv, Busy
<1>5. /\ SizesKept /\ FrontsKept /\ TailsKept
      /\ block'[prod.to].localFront = block[prod.to].front
  BY <1>1, <1>3, FrontSeen
<1>6. Items(prod.to) = 0
  <2>1. T + 1 \in (T + 1)..(m - 1) /\ prod.to = ring[T + 1]  BY <1>4 DEF NextIsTo
  <2> QED BY <1>2, <1>4, <2>1 DEF Chain
<1>7. After(prod.to, block[prod.to].tail) # block[prod.to].front
  <2>1. /\ Full(prod.to) <=> After(prod.to, block[prod.to].tail) = block[prod.to].front
        /\ block[prod.to].size \in Nat /\ block[prod.to].size > 1
    BY <1>3, <1>4, BlockFacts
  <2> QED BY <1>6, <2>1 DEF Full
<1>8. After(prod.to, block[prod.to].tail)' = After(prod.to, block[prod.to].tail)
  BY <1>2, <1>3, <1>5 DEF After, SizesKept, TailsKept
<1>9. NextIsTo(m, ring, T)'
  <2>1. Full(tailBlock)' = Full(tailBlock)  BY <1>1, <1>5, ItemsKept DEF TypeOK
  <2> QED BY <1>2, <1>4, <2>1 DEF NextIsTo
<1>10. ProdInv(m, ring, T, lo)'
  BY <1>1, <1>2, <1>4, <1>5, <1>7, <1>8, <1>9 DEF ProdInv, Free, Busy
<1> QED BY <1>1, <1>2, <1>3, <1>10, FrontSeenStep

\* Where the producer has put its item it writes the slot after the last item.
LEMMA WriteSlotStep ==
  ASSUME NEW m \in Nat, NEW ring \in [Nat -> Nat], NEW T \in 0..(m - 1), NEW lo \in [Nat -> Nat],
         TypeOK, Good(m, ring, T, lo), WriteSlot
  PROVE  TypeOK' /\ Good(m, ring, T, lo)'
<1> DEFINE to == prod.to
           s  == block[to].tail
<1>1. /\ ProdGoes("write", "publish")
      /\ block' = [block EXCEPT ![to].data[s] = puts + 1]
      /\ UNCHANGED <<tailBlock, largestBlockSize, puts>>
      /\ UNCHANGED <<made, frontBlock, cons, taken, answer>>
  BY DEF WriteSlot, ProducerOnly
<1>2. /\ prod' \in ProdType /\ prod.at = "write" /\ prod'.at = "publish"
      /\ prod'.to = prod.to /\ prod'.held = prod.held
  BY <1>1, ProdGoesFacts DEF Busy
<1>3. /\ Shape(m, ring, T) /\ Views /\ Filled(lo) /\ Room(m)
      /\ Chain(m, ring, T, lo) /\ ProdInv(m, ring, T, lo) /\ ConsInv(T)
  BY DEF Good
<1>4. to \in Blocks /\ puts \in Nat /\ puts + 1 \in Nat  BY DEF TypeOK, ProdType
<1>5. s \in 0..(block[to].size - 1)  BY <1>3, <1>4, BlockFacts
<1>6. /\ block' \in Seq(BlockType)
      /\ SizesKept /\ FrontsKept /\ TailsKept
      /\ LocalFrontsKept /\ LocalTailsKept /\ NextsKept
      /\ \A c \in Blocks : block'[c].data \in [0..(block[c].size - 1) -> Nat]
      /\ \A c \in Blocks : \A i \in 0..(block[c].size - 1) :
           block'[c].data[i] = IF c = to /\ i = s THEN puts + 1 ELSE block[c].data[i]
  <2>1. SlotSet(to, s, puts + 1)  BY <1>1, <1>4, <1>5, SetSlot
  <2> HIDE DEF to, s
  <2> QED BY <2>1 DEF SlotSet
<1>7. BlocksOK' /\ Blocks' = Blocks
  <2>1. \A c \in Blocks :
          /\ block'[c].data \in [0..(block[c].size - 1) -> Nat]
          /\ block'[c].front \in 0..(block[c].size - 1)
          /\ block'[c].tail \in 0..(block[c].size - 1)
          /\ block'[c].localFront \in 0..(block[c].size - 1)
          /\ block'[c].localTail \in 0..(block[c].size - 1)
    BY <1>6 DEF TypeOK, BlocksOK, FrontsKept, TailsKept, LocalTailsKept, LocalFrontsKept
  <2> QED BY <1>6, <2>1, BlocksOKStays DEF TypeOK
<1>8. TypeOK'  BY <1>1, <1>2, <1>7 DEF TypeOK, ProdType
<1>9. Shape(m, ring, T)'  BY <1>1, <1>2, <1>3, <1>6, LengthNat, ShapeFrame DEF SizesKept
<1>10. Views'  BY <1>3, <1>6, ViewsFrame
<1>11. Room(m)'  BY <1>1, <1>3, <1>6, RoomFrame
<1>12. Chain(m, ring, T, lo)'  BY <1>1, <1>2, <1>3, <1>6, ChainFrame
<1>13. ConsInv(T)'
  <2>1. Items(frontBlock)' = Items(frontBlock)  BY <1>1, <1>6, ItemsKept DEF TypeOK
  <2>2. NextOfFront' = NextOfFront  BY <1>1, <1>6 DEF NextOfFront, NextsKept, TypeOK
  <2>3. T >= 1 => NextOfFront \in Blocks  BY <1>3, ChainEnds
  <2>4. T \in Nat /\ T >= T /\ puts' \in Nat /\ puts' >= puts  BY <1>1, <1>4
  <2> QED BY <1>1, <1>3, <1>6, <2>1, <2>2, <2>3, <2>4, ConsStays
<1>14. ProdInv(m, ring, T, lo)'
  <2>1. Full(tailBlock)' = Full(tailBlock)  BY <1>1, <1>6, ItemsKept DEF TypeOK
  <2>2. /\ After(to, block[to].tail)' = After(to, block[to].tail)
        /\ block'[to].localFront = block[to].localFront
    <3>1. /\ block'[to].size = block[to].size /\ block'[to].tail = block[to].tail
          /\ block'[to].localFront = block[to].localFront
      BY <1>4, <1>6 DEF SizesKept, TailsKept, LocalFrontsKept
    <3> QED BY <1>2, <3>1 DEF After
  <2>3. NextIsTo(m, ring, T)' = NextIsTo(m, ring, T)
    BY <1>2, <2>1 DEF NextIsTo
  <2> QED BY <1>1, <1>2, <1>3, <2>2, <2>3 DEF ProdInv, Free, Busy
<1>15. Filled(lo)'
  <2>1. \A b \in Blocks : Items(b)' = Items(b) /\ \A i : FromFront(b, i)' = FromFront(b, i)
    BY <1>6, ItemsKept
  <2>2. SUFFICES ASSUME NEW b \in Blocks, NEW i \in 0..(block[b].size - 1)
                 PROVE  block'[b].data[i] = Content(lo, b, FromFront(b, i))'
    BY <1>6, <1>7 DEF Filled, SizesKept
  <2>3. block[b].data[i] = Content(lo, b, FromFront(b, i))  BY <1>2, <1>3 DEF Filled
  <2>4. FromFront(b, i)' = FromFront(b, i) /\ Items(b)' = Items(b)  BY <2>1
  <2>5. FromFront(b, i) \in Nat /\ Items(b) \in Nat
    <3>1. block[b].size \in Nat /\ FromFront(b, i) \in 0..(block[b].size - 1)
      BY <1>3, BlockFacts
    <3> QED BY <1>3, <3>1, BlockNats
  <2>6. CASE b = to /\ i = s
    <3>1. FromFront(b, i) = Items(b)  BY <2>6 DEF Items
    <3>2. block'[b].data[i] = puts + 1  BY <1>6, <2>6
    <3> QED BY <1>1, <1>2, <2>4, <2>5, <2>6, <3>1, <3>2 DEF Content
  <2>7. CASE ~(b = to /\ i = s)
    <3>1. b = to => FromFront(b, i) # Items(b)
      <4>1. ASSUME b = to, FromFront(b, i) = Items(b) PROVE FALSE
        <5>1. /\ block[b].size \in Nat /\ block[b].size > 1
              /\ block[b].front \in 0..(block[b].size - 1)
          BY <1>3, BlockFacts
        <5>2. i = s  BY <1>5, <4>1, <5>1, DistInjective DEF FromFront, Items
        <5> QED BY <2>7, <4>1, <5>2
      <4> QED BY <4>1
    <3>2. block'[b].data[i] = block[b].data[i]  BY <1>6, <2>7
    <3> QED BY <1>1, <1>2, <2>3, <2>4, <3>1, <3>2 DEF Content
  <2> QED BY <2>6, <2>7
<1> QED BY <1>8, <1>9, <1>10, <1>11, <1>12, <1>13, <1>14, <1>15 DEF Good

\* The tail of a block that is not full moves on: the block has one item more.
LEMMA TailMoves ==
  ASSUME NEW m, Room(m), TypeOK, Views, NEW b \in Blocks,
         After(b, block[b].tail) # block[b].localFront,
         block' = [block EXCEPT ![b].tail = After(b, block[b].tail)]
  PROVE  /\ SizesKept /\ FrontsKept /\ LocalFrontsKept /\ LocalTailsKept /\ NextsKept /\ DataKept
         /\ BlocksOK' /\ Blocks' = Blocks /\ Views'
         /\ Items(b)' = Items(b) + 1
         /\ \A c \in Blocks : /\ c # b => Items(c)' = Items(c)
                              /\ \A i : FromFront(c, i)' = FromFront(c, i)
<1> DEFINE n == block[b].size
           t == block[b].tail
           u == After(b, t)
           f == block[b].front
           l == block[b].localFront
<1>1. /\ n \in Nat /\ n > 1
      /\ f \in 0..(n - 1) /\ t \in 0..(n - 1) /\ l \in 0..(n - 1) /\ u \in 0..(n - 1)
  BY BlockFacts
<1>2. u \in Nat  BY <1>1
<1>3. /\ block' \in Seq(BlockType)
      /\ SizesKept /\ FrontsKept /\ LocalFrontsKept /\ LocalTailsKept /\ NextsKept /\ DataKept
      /\ \A c \in Blocks : block'[c].tail = IF c = b THEN u ELSE block[c].tail
  BY <1>2, SetTail
<1>4. BlocksOK' /\ Blocks' = Blocks
  <2>1. \A c \in Blocks :
          /\ block'[c].data \in [0..(block[c].size - 1) -> Nat]
          /\ block'[c].front \in 0..(block[c].size - 1)
          /\ block'[c].tail \in 0..(block[c].size - 1)
          /\ block'[c].localFront \in 0..(block[c].size - 1)
          /\ block'[c].localTail \in 0..(block[c].size - 1)
    <3>1. \A c \in Blocks : block'[c].tail \in 0..(block[c].size - 1)
      BY <1>1, <1>3 DEF TypeOK, BlocksOK
    <3> QED BY <1>3, <3>1 DEF TypeOK, BlocksOK, FrontsKept, LocalFrontsKept, LocalTailsKept, DataKept
  <2> QED BY <1>3, <2>1, BlocksOKStays DEF TypeOK
<1>5. \A c \in Blocks : \A i : FromFront(c, i)' = FromFront(c, i)
  BY <1>3 DEF FromFront, SizesKept, FrontsKept
<1>6. \A c \in Blocks : c # b => Items(c)' = Items(c)
  BY <1>3 DEF Items, FromFront, SizesKept, FrontsKept
<1>7. Dist(l, t, n) # n - 1 /\ Dist(f, t, n) # n - 1
  <2>1. Dist(l, t, n) # n - 1  BY <1>1, DistFacts DEF After
  <2>2. Dist(f, t, n) <= Dist(l, t, n)  BY DEF Views, Items, FromFront
  <2>3. Dist(l, t, n) \in 0..(n - 1) /\ Dist(f, t, n) \in 0..(n - 1)  BY <1>1, DistFacts
  <2> QED BY <1>1, <2>1, <2>2, <2>3
<1>8. Dist(f, u, n) = Dist(f, t, n) + 1 /\ Dist(l, u, n) = Dist(l, t, n) + 1
  BY <1>1, <1>7, DistGrows DEF After
<1>9. Items(b)' = Items(b) + 1
  BY <1>3, <1>8 DEF Items, FromFront, SizesKept, FrontsKept
<1>10. Views'
  <2>1. \A c \in Blocks : c # b =>
          /\ Items(c)' <= Dist(block'[c].localFront, block'[c].tail, block'[c].size)
          /\ FromFront(c, block[c].localTail)' <= Items(c)'
    BY <1>3, <1>5, <1>6 DEF Views, SizesKept, LocalFrontsKept, LocalTailsKept
  <2>2. /\ Items(b) \in Nat /\ FromFront(b, block[b].localTail) \in Nat
        /\ Dist(l, t, n) \in Nat
    <3>1. block[b].localTail \in 0..(n - 1)  BY BlockFacts
    <3>2. /\ FromFront(b, block[b].localTail) \in 0..(n - 1)
          /\ Dist(l, t, n) \in 0..(n - 1)
      BY <1>1, <3>1, DistFacts DEF FromFront
    <3>3. \A x \in 0..(n - 1) : x \in Nat  BY <1>1
    <3> QED BY <3>2, <3>3, BlockNats
  <2>3. /\ Items(b)' <= Dist(block'[b].localFront, block'[b].tail, block'[b].size)
    <3>1. Dist(block'[b].localFront, block'[b].tail, block'[b].size) = Dist(l, t, n) + 1
      BY <1>3, <1>8 DEF SizesKept, LocalFrontsKept
    <3>2. Items(b) <= Dist(l, t, n)  BY DEF Views
    <3> QED BY <1>9, <2>2, <3>1, <3>2
  <2>4. FromFront(b, block[b].localTail)' <= Items(b)'
    <3>1. FromFront(b, block[b].localTail)' = FromFront(b, block[b].localTail)
      BY <1>3, <1>5 DEF LocalTailsKept
    <3>2. FromFront(b, block[b].localTail) <= Items(b)  BY DEF Views
    <3> QED BY <1>9, <2>2, <3>1, <3>2
  <2> QED BY <1>4, <2>1, <2>3, <2>4 DEF Views
<1> QED BY <1>3, <1>4, <1>5, <1>6, <1>9, <1>10

\* The consumer gives up a slot of a block with an item only.
LEMMA FrontHasItem ==
  ASSUME NEW m, Room(m), TypeOK, Views, NEW T, ConsInv(T), cons.at \in {"take", "front"}
  PROVE  Items(frontBlock) > 0
<1>1. PICK b \in Blocks : b = frontBlock  BY DEF TypeOK
<1>2. PICK n \in Nat : n = block[b].size /\ n > 1  BY BlockFacts
<1>3. PICK x \in 0..(n - 1) : x = block[b].front  BY <1>2, BlockFacts
<1>4. PICK y \in 0..(n - 1) : y = block[b].localTail  BY <1>2, BlockFacts
<1>5. x # y  BY <1>1, <1>3, <1>4 DEF ConsInv
<1>6. Dist(x, y, n) \in 0..(n - 1) /\ Dist(x, y, n) # 0  BY <1>2, <1>5, DistFacts
<1>7. Dist(x, y, n) <= Items(b)  BY <1>2, <1>3, <1>4 DEF Views, FromFront
<1>8. Items(b) \in Nat  BY BlockNats
<1> QED BY <1>1, <1>6, <1>7, <1>8

\* The item in the slot before the new tail is the one the producer wrote.
LEMMA PublishFills ==
  ASSUME NEW m \in Nat, NEW T, NEW lo \in [Nat -> Nat], NEW lo1 \in [Nat -> Nat],
         TypeOK, Views, Room(m), Filled(lo), ConsInv(T),
         prod.at = "publish", prod'.at # "publish",
         SizesKept, DataKept, Blocks' = Blocks,
         NEW to \in Blocks, prod.to = to, Items(to)' = Items(to) + 1,
         \A c \in Blocks : /\ c # to => Items(c)' = Items(c) /\ lo1[c] = lo[c]
                           /\ \A i : FromFront(c, i)' = FromFront(c, i),
         puts = lo1[to] + Items(to), Items(to) = 0 \/ lo1[to] = lo[to],
         cons' = cons, frontBlock' = frontBlock
  PROVE  Filled(lo1)'
<1> SUFFICES ASSUME NEW b \in Blocks, NEW i \in 0..(block[b].size - 1)
             PROVE  block'[b].data[i] = Content(lo1, b, FromFront(b, i))'
  BY DEF Filled, SizesKept
<1>1. block'[b].data[i] = Content(lo, b, FromFront(b, i))  BY DEF Filled, DataKept
<1>2. FromFront(b, i)' = FromFront(b, i)  OBVIOUS
<1>3. FromFront(b, i) \in Nat /\ Items(b) \in Nat
  <2>1. block[b].size \in Nat /\ FromFront(b, i) \in 0..(block[b].size - 1)
    BY BlockFacts
  <2> QED BY <2>1, BlockNats
<1>4. CASE b # to
  <2>1. Items(b)' = Items(b) /\ lo1[b] = lo[b]  BY <1>4
  <2> QED BY <1>1, <1>2, <1>4, <2>1 DEF Content
<1>5. CASE b = to
  <2>1. b = frontBlock /\ cons.at = "front" => Items(b) > 0  BY FrontHasItem
  <2>2. Items(b)' = Items(b) + 1 /\ puts = lo1[b] + Items(b)
    BY <1>5
  <2>3. FromFront(b, i) < Items(b) => lo1[b] = lo[b]
    BY <1>3, <1>5
  <2>4. CASE FromFront(b, i) < Items(b)
    BY <1>1, <1>2, <1>3, <2>2, <2>3, <2>4 DEF Content
  <2>5. CASE FromFront(b, i) = Items(b)
    <3>1. block'[b].data[i] = puts + 1
      BY <1>1, <1>3, <1>5, <2>5 DEF Content
    <3>2. lo1[b] + Items(b) + 1 = puts + 1  BY <2>2
    <3>3. ~(FromFront(b, i) = 0 /\ b = frontBlock /\ cons.at = "front")
      BY <1>3, <2>1, <2>5
    <3> QED BY <1>2, <1>3, <2>2, <2>5, <3>1, <3>2, <3>3 DEF Content
  <2>6. CASE FromFront(b, i) > Items(b)
    <3>1. block'[b].data[i] = 0
      BY <1>1, <1>3, <2>6 DEF Content
    <3>2. ~(FromFront(b, i) < Items(b) + 1)  BY <1>3, <2>6
    <3> QED BY <1>2, <2>2, <3>1, <3>2 DEF Content
  <2> QED BY SMTT(30), <1>3, <2>4, <2>5, <2>6
<1> QED BY <1>4, <1>5
\* The new item becomes visible, at once or with its block.
LEMMA PublishTailStep ==
  ASSUME NEW m \in Nat, NEW ring \in [Nat -> Nat], NEW T \in 0..(m - 1), NEW lo \in [Nat -> Nat],
         TypeOK, Good(m, ring, T, lo), PublishTail
  PROVE  TypeOK' /\ \E lo1 \in [Nat -> Nat] :
           (\A i \in 0..T : lo1[ring[i]] = lo[ring[i]]) /\ Good(m, ring, T, lo1)'
<1>1. PICK to \in Blocks : prod.to = to  BY DEF TypeOK, ProdType
<1>2. /\ ProdGoes("publish", IF to = tailBlock THEN "idle" ELSE "advance")
      /\ block' = [block EXCEPT ![to].tail = After(to, block[to].tail)]
      /\ puts' = IF to = tailBlock THEN puts + 1 ELSE puts
      /\ tailBlock' = tailBlock /\ largestBlockSize' = largestBlockSize
      /\ UNCHANGED <<made, frontBlock, cons, taken, answer>>
  BY <1>1 DEF PublishTail, ProducerOnly
<1>3. /\ Shape(m, ring, T) /\ Views /\ Filled(lo) /\ Room(m)
      /\ Chain(m, ring, T, lo) /\ ProdInv(m, ring, T, lo) /\ ConsInv(T)
  BY DEF Good
<1>4. prod.at = "publish"  BY <1>2 DEF ProdGoes
<1>5. /\ After(to, block[to].tail) # block[to].localFront
      /\ to = tailBlock \/ NextIsTo(m, ring, T)
      /\ prod.held >= puts - taken
  BY <1>1, <1>3, <1>4 DEF ProdInv, Busy
<1>6. /\ SizesKept /\ FrontsKept /\ LocalFrontsKept /\ LocalTailsKept /\ NextsKept /\ DataKept
      /\ BlocksOK' /\ Blocks' = Blocks /\ Views'
      /\ Items(to)' = Items(to) + 1
      /\ \A c \in Blocks : /\ c # to => Items(c)' = Items(c)
                           /\ \A i : FromFront(c, i)' = FromFront(c, i)
  BY <1>2, <1>3, <1>5, TailMoves
<1>7. /\ \A i \in 0..(m - 1) : ring[i] \in Blocks
      /\ \A i, j \in 0..(m - 1) : ring[i] = ring[j] => i = j
      /\ ring[0] = frontBlock /\ ring[T] = tailBlock
      /\ 0 \in 0..(m - 1) /\ T \in 0..(m - 1)
  BY <1>3 DEF Shape, Circle
<1>8. /\ puts \in Nat /\ taken \in Nat /\ lo[tailBlock] \in Nat
      /\ frontBlock \in Blocks /\ tailBlock \in Blocks
  BY <1>3, ShapeFacts DEF TypeOK, Blocks
<1>9. /\ lo[frontBlock] = taken /\ puts = lo[tailBlock] + Items(tailBlock)
      /\ frontBlock = tailBlock <=> T = 0
  BY <1>3, ChainEnds
<1>10. Items(to) \in Nat /\ 1 \in Blocks  BY <1>3, BlockNats, ShapeFacts
<1>11. Room(m)'  BY <1>2, <1>3, <1>6, RoomFrame
<1>12. prod' \in ProdType /\ prod'.at = IF to = tailBlock THEN "idle" ELSE "advance"
  BY <1>2, ProdGoesFacts DEF Free, Busy
<1>13. TypeOK'  BY <1>2, <1>4, <1>6, <1>8, <1>12 DEF TypeOK, ProdType
<1>14. Shape(m, ring, T)'
  BY <1>2, <1>3, <1>4, <1>6, <1>12, LengthNat, ShapeFrame DEF SizesKept
<1>15. CASE to = tailBlock
  <2>1. prod'.at = "idle" /\ prod'.held = 0 /\ puts' = puts + 1
    BY <1>2, <1>12, <1>15, ProdGoesFacts DEF Free
  <2>2. \A c \in Blocks : /\ c # to => Items(c)' = Items(c) /\ lo[c] = lo[c]
                          /\ \A i : FromFront(c, i)' = FromFront(c, i)
    BY <1>6
  <2>3. Filled(lo)'
    BY <1>1, <1>2, <1>3, <1>4, <1>6, <1>9, <1>15, <2>1, <2>2, PublishFills
  <2>4. Chain(m, ring, T, lo)'
    <3>1. \A i \in 0..(m - 1) : i # T => Items(ring[i])' = Items(ring[i])
      BY <1>6, <1>7, <1>15
    <3>2. Items(ring[T])' = Items(ring[T]) + 1  BY <1>6, <1>7, <1>15
    <3>3. lo[ring[0]] = taken'  BY <1>2, <1>7, <1>9
    <3>4. \A i, j \in 0..T : j = i + 1 => lo[ring[j]] = lo[ring[i]] + Items(ring[i])'
      BY <1>3, <3>1 DEF Chain
    <3>5. puts' = lo[ring[T]] + Items(ring[T])'
      BY <1>7, <1>8, <1>9, <1>10, <1>15, <2>1, <3>2
    <3>6. \A i \in 1..T : Items(ring[i])' > 0
      BY <1>3, <1>7, <1>10, <1>15, <3>1, <3>2 DEF Chain
    <3>7. \A i \in (T + 1)..(m - 1) : Items(ring[i])' = 0
      BY <1>3, <1>4, <3>1 DEF Chain
    <3>8. Counted(ring, T, lo)'  BY <1>3, <1>6, <1>10 DEF Chain, Counted, SizesKept
    <3> QED BY <3>3, <3>4, <3>5, <3>6, <3>7, <3>8 DEF Chain
  <2>5. ProdInv(m, ring, T, lo)'  BY <2>1 DEF ProdInv, Free, Busy
  <2>6. ConsInv(T)'
    <3>1. T >= 1 => Items(frontBlock)' = Items(frontBlock)
      BY <1>2, <1>6, <1>8, <1>9, <1>15
    <3>2. NextOfFront' = NextOfFront  BY <1>2, <1>6, <1>8 DEF NextOfFront, NextsKept
    <3>3. T >= 1 => NextOfFront \in Blocks  BY <1>3, ChainEnds
    <3>4. T \in Nat /\ T >= T /\ puts' \in Nat /\ puts' >= puts  BY <1>8, <2>1
    <3> QED BY <1>2, <1>3, <1>6, <3>1, <3>2, <3>3, <3>4, ConsStays
  <2>7. Good(m, ring, T, lo)'
    BY <1>6, <1>11, <1>14, <2>3, <2>4, <2>5, <2>6 DEF Good
  <2> QED BY <1>13, <2>7
<1>16. CASE to # tailBlock
  <2>1. /\ prod'.at = "advance" /\ prod'.held = prod.held /\ prod'.to = to /\ puts' = puts
    BY <1>1, <1>2, <1>12, <1>16, ProdGoesFacts DEF Busy
  <2>2. T + 1 \in 0..(m - 1) /\ to = ring[T + 1] /\ (T >= 1 => Full(tailBlock))
    BY <1>1, <1>5, <1>16 DEF NextIsTo
  <2>3. Items(to) = 0  BY <1>3, <1>4, <2>2 DEF Chain
  <2>4. PICK lo1 \in [Nat -> Nat] :
          /\ lo1[to] = puts
          /\ \A c \in Blocks : c # to => lo1[c] = lo[c]
    <3>1. to \in Nat  BY DEF Blocks
    <3>2. [lo EXCEPT ![to] = puts] \in [Nat -> Nat]  BY <1>8
    <3> WITNESS [lo EXCEPT ![to] = puts] \in [Nat -> Nat]
    <3> QED BY <3>1
  <2>5. Filled(lo1)'
    <3>1. \A c \in Blocks : /\ c # to => Items(c)' = Items(c) /\ lo1[c] = lo[c]
                            /\ \A i : FromFront(c, i)' = FromFront(c, i)
      BY <1>6, <2>4
    <3>2. puts = lo1[to] + Items(to)  BY <1>8, <2>3, <2>4
    <3> QED BY <1>1, <1>2, <1>3, <1>4, <1>6, <2>1, <2>3, <2>4, <3>1, <3>2, PublishFills
  <2>6. Chain(m, ring, T, lo1)'
    <3>1. \A i \in 0..(m - 1) : i # T + 1 =>
            ring[i] # to /\ Items(ring[i])' = Items(ring[i]) /\ lo1[ring[i]] = lo[ring[i]]
      BY <1>6, <1>7, <2>2, <2>4
    <3>2. lo1[ring[0]] = taken'  BY <1>2, <1>7, <1>9, <3>1
    <3>3. \A i, j \in 0..T : j = i + 1 => lo1[ring[j]] = lo1[ring[i]] + Items(ring[i])'
      BY <1>3, <3>1 DEF Chain
    <3>4. puts' = lo1[ring[T]] + Items(ring[T])'  BY <1>7, <1>9, <2>1, <3>1
    <3>5. \A i \in 1..T : Items(ring[i])' > 0  BY <1>3, <3>1 DEF Chain
    <3>6. \A i \in (T + 1)..(m - 1) : ring[i] = to \/ Items(ring[i])' = 0
      BY <1>3, <1>4, <2>2, <3>1 DEF Chain
    <3>7. Counted(ring, T, lo1)'
      <4>1. \A i \in 1..T : lo1[ring[i]] = lo[ring[i]]  BY <3>1
      <4>2. block'[1].size = block[1].size  BY <1>6, <1>10 DEF SizesKept
      <4> QED BY <1>3, <4>1, <4>2 DEF Chain, Counted
    <3> QED BY <2>1, <3>2, <3>3, <3>4, <3>5, <3>6, <3>7 DEF Chain
  <2>7. ProdInv(m, ring, T, lo1)'
    <3>1. Full(tailBlock)' = Full(tailBlock)
      <4>1. Items(tailBlock)' = Items(tailBlock)  BY <1>2, <1>6, <1>8, <1>16
      <4> QED BY <1>2, <1>6, <1>8, <4>1 DEF Full, SizesKept
    <3>2. NextIsTo(m, ring, T)'  BY <2>1, <2>2, <3>1 DEF NextIsTo
    <3>3. Items(prod.to)' = 1
      <4>1. Items(to)' = 1  BY <1>6, <2>3
      <4> QED BY <2>1, <4>1
    <3> QED BY <1>2, <1>5, <2>1, <2>4, <3>2, <3>3 DEF ProdInv, Free, Busy
  <2>8. ConsInv(T)'
    <3>1. T >= 1 => Items(frontBlock)' = Items(frontBlock)
      <4>1. frontBlock # to  BY <1>7, <2>2
      <4> QED BY <1>2, <1>6, <1>8, <4>1
    <3>2. NextOfFront' = NextOfFront  BY <1>2, <1>6, <1>8 DEF NextOfFront, NextsKept
    <3>3. T >= 1 => NextOfFront \in Blocks  BY <1>3, ChainEnds
    <3>4. T \in Nat /\ T >= T /\ puts' \in Nat /\ puts' >= puts  BY <1>8, <2>1
    <3> QED BY <1>2, <1>3, <1>6, <3>1, <3>2, <3>3, <3>4, ConsStays
  <2>9. Good(m, ring, T, lo1)'
    BY <1>6, <1>11, <1>14, <2>5, <2>6, <2>7, <2>8 DEF Good
  <2>10. \A i \in 0..T : lo1[ring[i]] = lo[ring[i]]
    <3>1. \A i \in 0..T : i \in 0..(m - 1) /\ i # T + 1  OBVIOUS
    <3> QED BY <1>7, <2>2, <2>4, <3>1
  <2> QED BY <1>13, <2>4, <2>9, <2>10
<1> QED BY <1>15, <1>16

\* The new block is at least as large as every block before it, and holds the
\* item in its first slot.
LEMMA NewBlock ==
  ASSUME NEW m, Room(m), TypeOK, AllocateBlock
  PROVE  \E r \in BlockType :
           /\ block' = Append(block, r)
           /\ r.front = 0 /\ r.localFront = 0 /\ r.tail = 1 /\ r.localTail = 1
           /\ r.next = block[tailBlock].next
           /\ r.size >= block[1].size /\ r.size = largestBlockSize'
           /\ r.data \in [0..(r.size - 1) -> Nat]
           /\ \A i \in 0..(r.size - 1) : r.data[i] = IF i = 0 THEN puts + 1 ELSE 0
<1> DEFINE size == IF largestBlockSize >= made.MAX_BLOCK_SIZE THEN largestBlockSize
                   ELSE largestBlockSize * 2
           new  == make_block(size, block[tailBlock].next)
           r    == [new EXCEPT !.data[0] = puts + 1, !.tail = 1, !.localTail = 1]
           d0   == [i \in 0..(size - 1) |-> 0]
           d    == [d0 EXCEPT ![0] = puts + 1]
<1>1. block' = Append(block, r) /\ largestBlockSize' = size
  BY DEF AllocateBlock
<1>2. /\ largestBlockSize \in Nat /\ puts + 1 \in Nat /\ tailBlock \in Blocks
      /\ block[1].size \in Nat /\ block[tailBlock].next \in Nat
  <2>1. 1 \in Blocks /\ tailBlock \in Blocks  BY LengthNat DEF TypeOK, Blocks
  <2>2. block[1] \in BlockType /\ block[tailBlock] \in BlockType  BY <2>1, BlockFields
  <2> QED BY <2>1, <2>2 DEF BlockType, TypeOK
<1>3. size \in Nat /\ size >= block[1].size /\ size > 1
  BY <1>2, QueueFacts DEF Room
<1> HIDE DEF size
<1>4. /\ d \in [0..(size - 1) -> Nat]
      /\ \A i \in 0..(size - 1) : d[i] = IF i = 0 THEN puts + 1 ELSE 0
  BY <1>2, <1>3
<1>5. d \in DataFns  BY <1>3, <1>4 DEF DataFns
<1>6. r = [front |-> 0, localTail |-> 1, tail |-> 1, localFront |-> 0,
           next |-> block[tailBlock].next, size |-> size, data |-> d]
  <2>1. new = [front |-> 0, localTail |-> 0, tail |-> 0, localFront |-> 0,
               next |-> block[tailBlock].next, size |-> size, data |-> d0]
    BY DEF make_block
  <2>2. r = [[[new EXCEPT !.data = [new.data EXCEPT ![0] = puts + 1]]
              EXCEPT !.tail = 1] EXCEPT !.localTail = 1]
    OBVIOUS
  <2> HIDE DEF new, d0, r
  <2>3. new.data = d0  BY <2>1
  <2> QED BY <2>1, <2>2, <2>3
<1> HIDE DEF r, d
<1>7. /\ r \in BlockType
      /\ r.front = 0 /\ r.localFront = 0 /\ r.tail = 1 /\ r.localTail = 1
      /\ r.next = block[tailBlock].next /\ r.size = size /\ r.data = d
  BY <1>2, <1>3, <1>5, <1>6 DEF BlockType
<1>8. /\ r.data \in [0..(r.size - 1) -> Nat]
      /\ \A i \in 0..(r.size - 1) : r.data[i] = IF i = 0 THEN puts + 1 ELSE 0
  BY <1>4, <1>7
<1>9. r.size >= block[1].size /\ r.size = largestBlockSize'  BY <1>1, <1>3, <1>7
<1>10. block' = Append(block, r)  BY <1>1
<1> r \in BlockType  BY <1>7
<1> WITNESS r \in BlockType
<1> QED BY <1>7, <1>8, <1>9, <1>10

\* A new block, outside the circle, holds the new item.
LEMMA AllocateBlockStep ==
  ASSUME NEW m \in Nat, NEW ring \in [Nat -> Nat], NEW T \in 0..(m - 1), NEW lo \in [Nat -> Nat],
         TypeOK, Good(m, ring, T, lo), AllocateBlock
  PROVE  TypeOK' /\ \E lo1 \in [Nat -> Nat] :
           (\A i \in 0..T : lo1[ring[i]] = lo[ring[i]]) /\ Good(m, ring, T, lo1)'
<1>0. prod' = [prod EXCEPT !.at = "link", !.to = Len(block) + 1]
  BY DEF AllocateBlock
<1>1. /\ prod.at = "alloc" /\ tailBlock' = tailBlock /\ puts' = puts
      /\ made' = made /\ frontBlock' = frontBlock /\ cons' = cons
      /\ taken' = taken /\ answer' = answer
  BY DEF AllocateBlock, ProducerOnly
<1>2. /\ Shape(m, ring, T) /\ Views /\ Filled(lo) /\ Room(m)
      /\ Chain(m, ring, T, lo) /\ ProdInv(m, ring, T, lo) /\ ConsInv(T)
  BY DEF Good
<1>3. PICK r \in BlockType :
        /\ block' = Append(block, r)
        /\ r.front = 0 /\ r.localFront = 0 /\ r.tail = 1 /\ r.localTail = 1
        /\ r.next = block[tailBlock].next
        /\ r.size >= block[1].size /\ r.size = largestBlockSize'
        /\ r.data \in [0..(r.size - 1) -> Nat]
        /\ \A i \in 0..(r.size - 1) : r.data[i] = IF i = 0 THEN puts + 1 ELSE 0
  BY <1>2, NewBlock
<1>4. PICK w \in Nat : w = Len(block) + 1  BY LengthNat
<1>5. /\ Len(block) \in Nat /\ m = Len(block) /\ 1 \in Blocks
      /\ block \in Seq(BlockType)
  BY <1>1, <1>2, ShapeFacts DEF Shape, TypeOK, BlocksOK
<1>6. /\ block' \in Seq(BlockType) /\ block'[w] = r /\ Len(block') = w
      /\ \A c \in Blocks : block'[c] = block[c]
  BY <1>3, <1>4, <1>5, AppendProperties DEF Blocks
<1>61. w \notin Blocks /\ Blocks' = Blocks \cup {w} /\ 1 \in Blocks'
  <2>1. w = m + 1 /\ m \in Nat /\ Len(block) = m /\ Len(block') = m + 1 /\ m >= 1
    BY <1>4, <1>5, <1>6
  <2>2. Blocks = 1..m /\ Blocks' = 1..(m + 1)  BY <2>1 DEF Blocks
  <2>3. \A n \in Nat : n >= 1 => /\ n + 1 \notin 1..n /\ 1 \in 1..(n + 1)
                                /\ 1..(n + 1) = (1..n) \cup {n + 1}
    OBVIOUS
  <2> QED BY <2>1, <2>2, <2>3
<1>7. r.size \in Nat /\ r.size > 1
  <2>1. r.size \in Nat  BY DEF BlockType
  <2>2. block[1].size \in Nat  BY <1>5, BlockFields
  <2>3. block[1].size >= 2  BY <1>2 DEF Room
  <2>4. r.size >= block[1].size  BY <1>3
  <2> QED BY <2>1, <2>2, <2>3, <2>4
<1>8. \A c \in Blocks : /\ Items(c)' = Items(c) /\ Full(c)' = Full(c)
                        /\ \A i : FromFront(c, i)' = FromFront(c, i)
  BY <1>6 DEF Items, FromFront, Full
<1>9. Items(w)' = 1 /\ \A i \in 0..(r.size - 1) : FromFront(w, i)' = i
  <2>1. block'[w].front = 0 /\ block'[w].tail = 1 /\ block'[w].size = r.size  BY <1>3, <1>6
  <2>2. \A i \in 0..(r.size - 1) : Dist(0, i, r.size) = i  BY <1>7 DEF Dist
  <2>3. 1 \in 0..(r.size - 1)  BY <1>7
  <2> QED BY <2>1, <2>2, <2>3 DEF Items, FromFront
<1>10. BlocksOK'
  <2>1. \A c \in Blocks :
          /\ block'[c].data \in [0..(block'[c].size - 1) -> Nat]
          /\ block'[c].front \in 0..(block'[c].size - 1)
          /\ block'[c].tail \in 0..(block'[c].size - 1)
          /\ block'[c].localFront \in 0..(block'[c].size - 1)
          /\ block'[c].localTail \in 0..(block'[c].size - 1)
    BY <1>6 DEF TypeOK, BlocksOK
  <2>2. /\ block'[w].data \in [0..(block'[w].size - 1) -> Nat]
        /\ block'[w].front \in 0..(block'[w].size - 1)
        /\ block'[w].tail \in 0..(block'[w].size - 1)
        /\ block'[w].localFront \in 0..(block'[w].size - 1)
        /\ block'[w].localTail \in 0..(block'[w].size - 1)
    <3>1. 0 \in 0..(r.size - 1) /\ 1 \in 0..(r.size - 1)  BY <1>7
    <3> QED BY <1>3, <1>6, <3>1
  <2> QED BY <1>6, <1>61, <2>1, <2>2 DEF BlocksOK
<1>11. /\ prod' \in ProdType' /\ prod'.at = "link" /\ prod'.to = w /\ prod'.held = prod.held
  BY <1>0, <1>4, <1>61 DEF TypeOK, ProdType, Busy
<1>12. TypeOK'
  BY <1>1, <1>3, <1>61, <1>7, <1>10, <1>11 DEF TypeOK
<1>13. /\ \A i \in 0..(m - 1) : ring[i] \in Blocks
       /\ frontBlock \in Blocks /\ tailBlock \in Blocks
       /\ m - 1 \in 0..(m - 1) /\ puts \in Nat
  <2>1. \A i \in 0..(m - 1) : ring[i] \in Blocks  BY <1>2 DEF Shape, Circle
  <2> QED BY <2>1 DEF TypeOK
<1>14. Shape(m, ring, T)'
  <2>1. m = Len(block') - 1  BY <1>4, <1>5, <1>6
  <2>2. \A i \in 0..(m - 1) : ring[i] \in Blocks' /\ block'[ring[i]] = block[ring[i]]
    BY <1>5, <1>6, <1>61, <1>13
  <2>3. Circle(m, ring, T)'
    <3>1. block'[ring[m - 1]] = block[ring[m - 1]]  BY <1>13, <2>2
    <3>2. Circle(m, ring, T)  BY <1>2 DEF Shape
    <3>3. \A i, j \in 0..(m - 1) : j = i + 1 => block'[ring[i]].next = ring[j]
      BY <2>2, <3>2 DEF Circle
    <3>4. block'[ring[m - 1]].next = ring[0]  BY <3>1, <3>2 DEF Circle
    <3>5. /\ 0 \in 0..(m - 1) /\ T \in 0..(m - 1)
          /\ \A i, j \in 0..(m - 1) : ring[i] = ring[j] => i = j
          /\ ring[0] = frontBlock' /\ ring[T] = tailBlock'
      BY <1>1, <3>2 DEF Circle
    <3> QED BY <2>2, <3>3, <3>4, <3>5 DEF Circle
  <2> QED BY <1>2, <1>11, <2>1, <2>3 DEF Shape
<1>15. Views'
  <2>1. \A c \in Blocks :
          /\ Items(c)' <= Dist(block'[c].localFront, block'[c].tail, block'[c].size)
          /\ FromFront(c, block[c].localTail)' <= Items(c)'
    BY <1>2, <1>6, <1>8 DEF Views
  <2>2. /\ Items(w)' <= Dist(block'[w].localFront, block'[w].tail, block'[w].size)
        /\ FromFront(w, block[w].localTail)' <= Items(w)'
    <3>1. Dist(r.localFront, r.tail, r.size) = 1  BY <1>3, <1>7 DEF Dist
    <3>2. block'[w].localTail = 1 /\ 1 \in 0..(r.size - 1)  BY <1>3, <1>6, <1>7
    <3>3. FromFront(w, block[w].localTail)' = 1  BY <1>9, <3>2
    <3> QED BY <1>6, <1>9, <3>1, <3>3
  <2> QED BY <1>61, <2>1, <2>2 DEF Views
<1>16. Room(m)'
  <2>1. block'[1] = block[1]  BY <1>5, <1>6, <1>61
  <2>2. \A c \in Blocks' : block'[c].size >= block[1].size
    BY <1>2, <1>3, <1>5, <1>6, <1>61 DEF Room
  <2> QED BY <1>1, <1>2, <1>3, <2>1, <2>2 DEF Room
<1>17. PICK lo1 \in [Nat -> Nat] : lo1[w] = puts /\ \A c \in Blocks : lo1[c] = lo[c]
  <2>1. [lo EXCEPT ![w] = puts] \in [Nat -> Nat]  BY <1>13
  <2> WITNESS [lo EXCEPT ![w] = puts] \in [Nat -> Nat]
  <2>2. \A c \in Blocks : c \in Nat /\ c # w  BY <1>61 DEF Blocks
  <2> QED BY <2>2
<1>18. Chain(m, ring, T, lo1)'
  <2>1. \A i \in 0..(m - 1) : Items(ring[i])' = Items(ring[i]) /\ lo1[ring[i]] = lo[ring[i]]
    BY <1>8, <1>13, <1>17
  <2>2. Counted(ring, T, lo1)'
    <3>1. \A i \in 1..T : lo1[ring[i]] = lo[ring[i]]  BY <2>1
    <3>2. block'[1] = block[1]  BY <1>5, <1>6, <1>61
    <3> QED BY <1>2, <3>1, <3>2 DEF Chain, Counted
  <2>3. \A i \in (T + 1)..(m - 1) : Items(ring[i]) = 0  BY <1>1, <1>2 DEF Chain
  <2>4. 0 \in 0..(m - 1) /\ T \in 0..(m - 1)  OBVIOUS
  <2>5. \A i \in 1..T : Items(ring[i])' > 0  BY <1>2, <2>1 DEF Chain
  <2>6. \A i, j \in 0..T : j = i + 1 => lo1[ring[j]] = lo1[ring[i]] + Items(ring[i])'
    BY <1>2, <2>1 DEF Chain
  <2>7. lo1[ring[0]] = taken' /\ puts' = lo1[ring[T]] + Items(ring[T])'
    BY <1>1, <1>2, <2>1, <2>4 DEF Chain
  <2>8. \A i \in (T + 1)..(m - 1) : Items(ring[i])' = 0  BY <2>1, <2>3
  <2> QED BY <2>2, <2>5, <2>6, <2>7, <2>8 DEF Chain
<1>19. ProdInv(m, ring, T, lo1)'
  <2>1. (T >= 1 => Full(tailBlock)) /\ prod.held >= puts - taken
    BY <1>1, <1>2 DEF ProdInv, Busy
  <2>2. Full(tailBlock)' = Full(tailBlock)  BY <1>1, <1>8, <1>13
  <2>3. Items(prod.to)' = 1  BY <1>9, <1>11
  <2>4. block'[prod'.to].next = block'[tailBlock'].next
    BY <1>1, <1>3, <1>6, <1>11, <1>13
  <2>5. prod'.to = m + 1  BY <1>4, <1>5, <1>11
  <2> QED BY <1>1, <1>11, <1>17, <2>1, <2>2, <2>3, <2>4, <2>5 DEF ProdInv, Free, Busy
<1>20. ConsInv(T)'
  <2>1. Items(frontBlock)' = Items(frontBlock)  BY <1>1, <1>8, <1>13
  <2>2. NextOfFront' = NextOfFront  BY <1>1, <1>6, <1>13 DEF NextOfFront
  <2>3. T >= 1 => NextOfFront \in Blocks  BY <1>2, ChainEnds
  <2>4. T \in Nat /\ T >= T /\ puts' \in Nat /\ puts' >= puts  BY <1>1, <1>13
  <2>5. FrontsKept /\ LocalTailsKept  BY <1>6 DEF FrontsKept, LocalTailsKept
  <2> QED BY <1>1, <1>2, <2>1, <2>2, <2>3, <2>4, <2>5, ConsStays
<1>21. Filled(lo1)'
  <2>1. ASSUME NEW b \in Blocks, NEW i \in 0..(block[b].size - 1)
        PROVE  block'[b].data[i] = Content(lo1, b, FromFront(b, i))'
    <3>1. block[b].data[i] = Content(lo, b, FromFront(b, i))  BY <1>1, <1>2 DEF Filled
    <3>2. /\ FromFront(b, i)' = FromFront(b, i) /\ Items(b)' = Items(b)
          /\ block'[b] = block[b] /\ lo1[b] = lo[b]
      BY <1>6, <1>8, <1>17
    <3> QED BY <1>1, <1>11, <3>1, <3>2 DEF Content
  <2>2. ASSUME NEW i \in 0..(r.size - 1)
        PROVE  block'[w].data[i] = Content(lo1, w, FromFront(w, i))'
    <3>1. FromFront(w, i)' = i /\ Items(w)' = 1  BY <1>9
    <3>2. w # frontBlock' /\ prod'.at # "publish" /\ lo1[w] = puts /\ puts' = puts
      BY <1>1, <1>61, <1>11, <1>13, <1>17
    <3>3. block'[w].data[i] = IF i = 0 THEN puts + 1 ELSE 0  BY <1>3, <1>6
    <3>4. i \in Nat  BY <1>7
    <3> QED BY <1>13, <3>1, <3>2, <3>3, <3>4 DEF Content
  <2>3. \A b \in Blocks : block'[b].size = block[b].size  BY <1>6
  <2> QED BY <1>5, <1>6, <1>61, <2>1, <2>2, <2>3 DEF Filled
<1>22. Good(m, ring, T, lo1)'
  BY <1>14, <1>15, <1>16, <1>18, <1>19, <1>20, <1>21 DEF Good
<1>23. \A i \in 0..T : lo1[ring[i]] = lo[ring[i]]
  <2>1. \A i \in 0..T : i \in 0..(m - 1)  OBVIOUS
  <2> QED BY <1>13, <1>17, <2>1
<1> QED BY <1>12, <1>17, <1>22, <1>23

\* The new block comes after the tail block: the positions beyond move up.
LEMMA LinkBlockStep ==
  ASSUME NEW m \in Nat, NEW ring \in [Nat -> Nat], NEW T \in 0..(m - 1), NEW lo \in [Nat -> Nat],
         TypeOK, Good(m, ring, T, lo), LinkBlock
  PROVE  TypeOK' /\ \E ring1 \in [Nat -> Nat] :
           /\ \A i \in 0..(m - 1) : ring1[IF i <= T THEN i ELSE i + 1] = ring[i]
           /\ Good(m + 1, ring1, T, lo)'
<1>1. PICK w \in Blocks : prod.to = w  BY DEF TypeOK, ProdType
<1>2. /\ ProdGoes("link", "advance")
      /\ block' = [block EXCEPT ![tailBlock].next = w]
      /\ tailBlock' = tailBlock /\ largestBlockSize' = largestBlockSize /\ puts' = puts
      /\ made' = made /\ frontBlock' = frontBlock /\ cons' = cons
      /\ taken' = taken /\ answer' = answer
  BY <1>1 DEF LinkBlock, ProducerOnly
<1>3. /\ Shape(m, ring, T) /\ Views /\ Filled(lo) /\ Room(m)
      /\ Chain(m, ring, T, lo) /\ ProdInv(m, ring, T, lo) /\ ConsInv(T)
  BY DEF Good
<1>4. /\ prod' \in ProdType /\ prod.at = "link" /\ prod'.at = "advance"
      /\ prod'.to = w /\ prod'.held = prod.held
  BY <1>1, <1>2, ProdGoesFacts DEF Busy
<1>5. /\ T >= 1 => Full(tailBlock)
      /\ w = m + 1 /\ block[w].next = block[tailBlock].next
      /\ lo[w] = puts /\ Items(w) = 1 /\ prod.held >= puts - taken
  BY <1>1, <1>3, <1>4 DEF ProdInv, Busy
<1>6. /\ frontBlock \in Blocks /\ tailBlock \in Blocks /\ 1 \in Blocks
      /\ w \in Nat /\ puts \in Nat
  BY <1>3, ShapeFacts DEF TypeOK, Blocks
<1>7. /\ block' \in Seq(BlockType)
      /\ SizesKept /\ FrontsKept /\ TailsKept /\ LocalFrontsKept /\ LocalTailsKept /\ DataKept
      /\ \A c \in Blocks : block'[c].next = IF c = tailBlock THEN w ELSE block[c].next
  BY <1>2, <1>6, SetNext
<1>8. BlocksOK' /\ Blocks' = Blocks
  <2>1. \A c \in Blocks :
          /\ block'[c].data \in [0..(block[c].size - 1) -> Nat]
          /\ block'[c].front \in 0..(block[c].size - 1)
          /\ block'[c].tail \in 0..(block[c].size - 1)
          /\ block'[c].localFront \in 0..(block[c].size - 1)
          /\ block'[c].localTail \in 0..(block[c].size - 1)
    BY <1>7 DEF TypeOK, BlocksOK, FrontsKept, TailsKept, LocalFrontsKept, LocalTailsKept, DataKept
  <2> QED BY <1>7, <2>1, BlocksOKStays DEF TypeOK
<1>9. TypeOK'  BY <1>2, <1>4, <1>8 DEF TypeOK, ProdType
<1>10. \A c \in Blocks : Items(c)' = Items(c) /\ Full(c)' = Full(c)  BY <1>7, ItemsKept
<1>11. Views'  BY <1>3, <1>7, ViewsFrame
<1>12. Filled(lo)'  BY <1>2, <1>3, <1>4, <1>7, FilledFrame
<1>13. PICK ring1 \in [Nat -> Nat] :
         \A i \in Nat : ring1[i] = IF i <= T THEN ring[i]
                                   ELSE IF i = T + 1 THEN w ELSE ring[i - 1]
  <2> DEFINE r1 == [i \in Nat |-> IF i <= T THEN ring[i]
                                  ELSE IF i = T + 1 THEN w ELSE ring[i - 1]]
  <2> r1 \in [Nat -> Nat]  BY <1>6
  <2> WITNESS r1 \in [Nat -> Nat]
  <2> QED OBVIOUS
<1>14. /\ \A i \in 0..(m - 1) : ring[i] \in Blocks /\ ring[i] \in 1..m
       /\ \A i, j \in 0..(m - 1) : ring[i] = ring[j] => i = j
       /\ ring[0] = frontBlock /\ ring[T] = tailBlock
       /\ \A i, j \in 0..(m - 1) : j = i + 1 => block[ring[i]].next = ring[j]
       /\ block[ring[m - 1]].next = ring[0]
  BY <1>3 DEF Shape, Circle
\* The old positions, and the new one.
<1>15. /\ \A i \in 0..T : ring1[i] = ring[i] /\ i \in 0..(m - 1)
       /\ ring1[T + 1] = w
       /\ \A i \in (T + 2)..m : ring1[i] = ring[i - 1] /\ i - 1 \in (T + 1)..(m - 1)
  BY <1>13
<1>16. \A i \in 0..m : i \in 0..T \/ i = T + 1 \/ i \in (T + 2)..m  OBVIOUS
<1>17. Shape(m + 1, ring1, T)'
  <2>1. m + 1 = Len(block')
    BY <1>3, <1>4, <1>7, ShapeFacts DEF Shape, SizesKept
  <2>2. \A i \in 0..m : ring1[i] \in Blocks /\ ring1[i] \in 1..(m + 1)
    <3> SUFFICES ASSUME NEW i \in 0..m PROVE ring1[i] \in Blocks /\ ring1[i] \in 1..(m + 1)
      OBVIOUS
    <3>1. CASE i \in 0..T  BY <1>14, <1>15, <3>1
    <3>2. CASE i = T + 1  BY <1>5, <1>15, <3>2
    <3>3. CASE i \in (T + 2)..m
      <4>1. ring1[i] = ring[i - 1] /\ i - 1 \in 0..(m - 1)  BY <1>15, <3>3
      <4> QED BY <1>14, <4>1
    <3> QED BY <1>16, <3>1, <3>2, <3>3
  <2>3. \A i, j \in 0..m : ring1[i] = ring1[j] => i = j
    <3> SUFFICES ASSUME NEW i \in 0..m, NEW j \in 0..m, ring1[i] = ring1[j] PROVE i = j
      OBVIOUS
    <3>1. \A k \in 0..m : k # T + 1 =>
            \E l \in 0..(m - 1) : ring1[k] = ring[l] /\ l = IF k <= T THEN k ELSE k - 1
      <4> SUFFICES ASSUME NEW k \in 0..m, k # T + 1
                   PROVE  \E l \in 0..(m - 1) : ring1[k] = ring[l] /\ l = IF k <= T THEN k ELSE k - 1
        OBVIOUS
      <4>1. CASE k \in 0..T  BY <1>15, <4>1
      <4>2. CASE k \in (T + 2)..m
        <5>1. k - 1 \in 0..(m - 1) /\ ring1[k] = ring[k - 1] /\ ~(k <= T)  BY <1>15, <4>2
        <5> QED BY <5>1
      <4> QED BY <1>16, <4>1, <4>2
    <3>2. \A k \in 0..m : k # T + 1 => ring1[k] # w
      BY <1>5, <1>14, <3>1
    <3>3. CASE i = T + 1  BY <1>15, <3>2, <3>3
    <3>4. CASE j = T + 1  BY <1>15, <3>2, <3>4
    <3>5. CASE i # T + 1 /\ j # T + 1
      <4>1. PICK k \in 0..(m - 1) : ring1[i] = ring[k] /\ k = IF i <= T THEN i ELSE i - 1
        BY <3>1, <3>5
      <4>2. PICK l \in 0..(m - 1) : ring1[j] = ring[l] /\ l = IF j <= T THEN j ELSE j - 1
        BY <3>1, <3>5
      <4>3. \A x, y \in 0..(m - 1) : ring[x] = ring[y] => x = y  BY <1>14
      <4>4. ring[k] = ring[l]  BY <4>1, <4>2
      <4>5. k = l  BY <4>3, <4>4
      <4> QED BY <3>5, <4>1, <4>2, <4>5
    <3> QED BY <3>3, <3>4, <3>5
  <2>4. ring1[0] = frontBlock' /\ ring1[T] = tailBlock'
    <3>1. 0 \in 0..T /\ T \in 0..T  OBVIOUS
    <3> QED BY <1>2, <1>14, <1>15, <3>1
  <2>5. \A c \in Blocks : c # tailBlock => block'[c].next = block[c].next  BY <1>7
  <2>6. block'[tailBlock].next = w /\ block'[w].next = block[tailBlock].next
    <3>1. w # tailBlock  BY <1>5, <1>14
    <3> QED BY <1>5, <1>6, <1>7, <3>1
  <2>7. ASSUME NEW i \in 0..m, NEW j \in 0..m, j = i + 1
        PROVE  block'[ring1[i]].next = ring1[j]
    <3>1. CASE j \in 0..T
      <4>1. /\ i \in 0..T /\ i # T /\ i \in 0..(m - 1) /\ j \in 0..(m - 1)
        BY <2>7, <3>1
      <4>2. ring1[i] = ring[i] /\ ring1[j] = ring[j] /\ ring[i] # tailBlock /\ ring[i] \in Blocks
        BY <1>14, <1>15, <3>1, <4>1
      <4>3. block[ring[i]].next = ring[j]  BY <1>14, <2>7, <4>1
      <4> QED BY <2>5, <4>2, <4>3
    <3>2. CASE j = T + 1
      <4>1. i = T /\ i \in 0..T  BY <2>7, <3>2
      <4>2. ring1[i] = tailBlock /\ ring1[j] = w  BY <1>14, <1>15, <3>2, <4>1
      <4> QED BY <2>6, <4>2
    <3>3. CASE j = T + 2
      <4>1. i = T + 1 /\ T + 1 \in 0..(m - 1) /\ j - 1 = T + 1 /\ j \in (T + 2)..m
        BY <2>7, <3>3
      <4>2. ring1[i] = w /\ ring1[j] = ring[T + 1]  BY <1>15, <4>1
      <4>3. block[ring[T]].next = ring[T + 1]  BY <1>14, <4>1
      <4> QED BY <1>14, <2>6, <4>2, <4>3
    <3>4. CASE j \in (T + 3)..m
      <4>1. /\ i \in (T + 2)..m /\ j \in (T + 2)..m /\ i - 1 \in 0..(m - 1)
            /\ j - 1 \in 0..(m - 1) /\ j - 1 = (i - 1) + 1 /\ i - 1 # T
        BY <2>7, <3>4
      <4>2. ring1[i] = ring[i - 1] /\ ring1[j] = ring[j - 1]  BY <1>15, <4>1
      <4>3. ring[i - 1] # tailBlock /\ ring[i - 1] \in Blocks  BY <1>14, <4>1
      <4>4. block[ring[i - 1]].next = ring[j - 1]  BY <1>14, <4>1
      <4> QED BY <2>5, <4>2, <4>3, <4>4
    <3>5. j \in 0..T \/ j = T + 1 \/ j = T + 2 \/ j \in (T + 3)..m
      <4>1. j \in Int /\ 0 <= j /\ j <= m /\ T \in Nat  OBVIOUS
      <4>2. j <= T \/ j = T + 1 \/ j = T + 2 \/ j >= T + 3  BY <4>1
      <4> QED BY <4>1, <4>2
    <3> QED BY <3>1, <3>2, <3>3, <3>4, <3>5
  <2>8. block'[ring1[m]].next = ring1[0]
    <3>1. CASE T = m - 1
      <4>1. ring1[m] = w  BY <1>15, <3>1
      <4> QED BY <1>14, <1>15, <2>6, <3>1, <4>1
    <3>2. CASE T # m - 1
      <4>1. m \in (T + 2)..m /\ m - 1 \in 0..(m - 1) /\ m - 1 # T  BY <3>2
      <4>2. ring1[m] = ring[m - 1] /\ ring1[0] = ring[0]  BY <1>15, <4>1
      <4>3. ring[m - 1] # tailBlock /\ ring[m - 1] \in Blocks  BY <1>14, <4>1
      <4> QED BY <1>14, <2>5, <4>2, <4>3
    <3> QED BY <3>1, <3>2
  <2>9. Circle(m + 1, ring1, T)'
    <3>1. (m + 1) - 1 = m /\ 0 \in 0..m /\ T \in 0..m  OBVIOUS
    <3> QED BY <1>8, <2>2, <2>3, <2>4, <2>7, <2>8, <3>1 DEF Circle
  <2>10. (m + 1) - 1 = m  OBVIOUS
  <2> QED BY <1>4, <2>1, <2>2, <2>9, <2>10 DEF Shape
<1>18. Room(m + 1)'
  <2>1. block'[1].size = block[1].size /\ \A c \in Blocks : block'[c].size = block[c].size
    BY <1>6, <1>7 DEF SizesKept
  <2>2. block[1].size - 1 \in Nat /\ made.maxSize \in Nat  BY <1>3, <1>6, BlockNats, QueueFacts
  <2>3. m * (block[1].size - 1) >= made.maxSize
    <3>1. CASE m = 1
      <4>1. block[1].size - 1 >= made.maxSize  BY <1>3, <3>1 DEF Room
      <4>2. 1 * (block[1].size - 1) = block[1].size - 1  BY <2>2
      <4> QED BY <3>1, <4>1, <4>2
    <3>2. CASE m # 1
      <4>1. (m - 1) * (block[1].size - 1) >= made.maxSize  BY <1>3, <3>2 DEF Room
      <4>2. \A k \in Nat \ {0}, s \in Nat : k * s = (k - 1) * s + s /\ (k - 1) * s \in Nat  OBVIOUS
      <4>3. m \in Nat \ {0}  OBVIOUS
      <4> QED BY <2>2, <4>1, <4>2, <4>3
    <3> QED BY <3>1, <3>2
  <2>4. m + 1 # 1 /\ (m + 1) - 1 = m  OBVIOUS
  <2> QED BY <1>2, <1>3, <1>8, <2>1, <2>3, <2>4 DEF Room
<1>19. Chain(m + 1, ring1, T, lo)'
  <2>1. \A i \in 0..T : ring1[i] = ring[i] /\ Items(ring1[i])' = Items(ring[i])
    BY <1>10, <1>14, <1>15
  <2>2. Counted(ring1, T, lo)'
    <3>1. \A i \in 1..T : ring1[i] = ring[i]  BY <2>1
    <3>2. block'[1].size = block[1].size  BY <1>6, <1>7 DEF SizesKept
    <3> QED BY <1>3, <3>1, <3>2 DEF Chain, Counted
  <2>3. 0 \in 0..T /\ T \in 0..T  OBVIOUS
  <2>4. lo[ring1[0]] = taken' /\ puts' = lo[ring1[T]] + Items(ring1[T])'
    BY <1>2, <1>3, <2>1, <2>3 DEF Chain
  <2>5. \A i, j \in 0..T : j = i + 1 => lo[ring1[j]] = lo[ring1[i]] + Items(ring1[i])'
    BY <1>3, <2>1 DEF Chain
  <2>6. \A i \in 1..T : Items(ring1[i])' > 0
    <3>1. \A i \in 1..T : i \in 0..T  OBVIOUS
    <3> QED BY <1>3, <2>1, <3>1 DEF Chain
  <2>7. ASSUME NEW i \in (T + 1)..m
        PROVE  ring1[i] = w \/ Items(ring1[i])' = 0
    <3>1. CASE i = T + 1  BY <1>15, <3>1
    <3>2. CASE i # T + 1
      <4>1. i \in (T + 2)..m /\ i - 1 \in 0..(m - 1)  BY <3>2
      <4>2. ring1[i] = ring[i - 1] /\ i - 1 \in (T + 1)..(m - 1)  BY <1>15, <4>1
      <4>3. Items(ring[i - 1]) = 0  BY <1>3, <1>4, <4>2 DEF Chain
      <4>4. ring[i - 1] \in Blocks  BY <1>14, <4>1
      <4> QED BY <1>10, <4>2, <4>3, <4>4
    <3> QED BY <3>1, <3>2
  <2>8. (m + 1) - 1 = m  OBVIOUS
  <2> QED BY <1>4, <2>2, <2>4, <2>5, <2>6, <2>7, <2>8 DEF Chain
<1>20. ProdInv(m + 1, ring1, T, lo)'
  <2>1. Full(tailBlock)' = Full(tailBlock)  BY <1>2, <1>6, <1>10
  <2>2. NextIsTo(m + 1, ring1, T)'  BY <1>4, <1>5, <1>15, <2>1 DEF NextIsTo
  <2>3. Items(prod.to)' = 1
    <3>1. Items(w)' = 1  BY <1>5, <1>10
    <3> QED BY <1>4, <3>1
  <2> QED BY <1>2, <1>4, <1>5, <2>2, <2>3 DEF ProdInv, Free, Busy
<1>21. ConsInv(T)'
  <2>1. Items(frontBlock)' = Items(frontBlock)  BY <1>2, <1>6, <1>10
  <2>2. T >= 1 => NextOfFront' = NextOfFront
    <3>1. T >= 1 => frontBlock # tailBlock
      <4>1. 0 \in 0..(m - 1) /\ T \in 0..(m - 1) /\ (T >= 1 => T # 0)  OBVIOUS
      <4> QED BY <1>14, <4>1
    <3> QED BY <1>2, <1>6, <1>7, <3>1 DEF NextOfFront
  <2>3. T >= 1 => NextOfFront \in Blocks  BY <1>3, ChainEnds
  <2>4. T \in Nat /\ T >= T /\ puts' \in Nat /\ puts' >= puts  BY <1>2, <1>6
  <2> QED BY <1>2, <1>3, <1>7, <2>1, <2>2, <2>3, <2>4, ConsStays
<1>22. Good(m + 1, ring1, T, lo)'
  BY <1>11, <1>12, <1>17, <1>18, <1>19, <1>20, <1>21 DEF Good
<1>23. ASSUME NEW i \in 0..(m - 1) PROVE ring1[IF i <= T THEN i ELSE i + 1] = ring[i]
  <2>1. CASE i <= T  BY <1>13, <2>1
  <2>2. CASE i > T
    <3>1. i + 1 \in Nat /\ ~(i + 1 <= T) /\ i + 1 # T + 1 /\ (i + 1) - 1 = i  BY <2>2
    <3> QED BY <1>13, <2>2, <3>1
  <2> QED BY <2>1, <2>2
<1> QED BY <1>9, <1>22, <1>23

\* The blocks between the front block and the new tail block stay full.
LEMMA CountedGrows ==
  ASSUME NEW T \in Nat, NEW ring \in [Nat -> Nat], NEW lo \in [Nat -> Nat], NEW S \in Nat,
         \A i, j \in 1..T : i <= j => lo[ring[j]] >= lo[ring[i]] + (j - i) * S,
         T >= 1 => lo[ring[T + 1]] >= lo[ring[T]] + S
  PROVE  \A i, j \in 1..(T + 1) : i <= j => lo[ring[j]] >= lo[ring[i]] + (j - i) * S
<1> SUFFICES ASSUME NEW i \in 1..(T + 1), NEW j \in 1..(T + 1), i <= j
             PROVE  lo[ring[j]] >= lo[ring[i]] + (j - i) * S
  OBVIOUS
<1>1. lo[ring[i]] \in Nat /\ lo[ring[j]] \in Nat /\ lo[ring[T]] \in Nat  OBVIOUS
<1>2. CASE j \in 1..T  BY <1>2
<1>3. CASE j = T + 1 /\ i = T + 1
  <2>1. (j - i) * S = 0
    <3>1. \A s \in Nat : 0 * s = 0  OBVIOUS
    <3>2. j - i = 0  BY <1>3
    <3> QED BY <3>1, <3>2
  <2>2. i = j  BY <1>3
  <2> QED BY <1>1, <2>1, <2>2
<1>4. CASE j = T + 1 /\ i # T + 1
  <2>1. i \in 1..T /\ T \in 1..T /\ i <= T /\ T >= 1 /\ T - i \in Nat  BY <1>4
  <2>2. lo[ring[T]] >= lo[ring[i]] + (T - i) * S  BY <2>1
  <2>3. (j - i) * S = (T - i) * S + S
    <3>1. \A k, s \in Nat : (k + 1) * s = k * s + s  OBVIOUS
    <3>2. j - i = (T - i) + 1  BY <1>4
    <3> QED BY <2>1, <3>1, <3>2
  <2>4. (T - i) * S \in Nat  BY <2>1
  <2> QED BY <1>1, <1>4, <2>1, <2>2, <2>3, <2>4
<1> QED BY <1>2, <1>3, <1>4

\* The next block becomes the tail block, and its item visible.
LEMMA AdvanceTailStep ==
  ASSUME NEW m \in Nat, NEW ring \in [Nat -> Nat], NEW T \in 0..(m - 1), NEW lo \in [Nat -> Nat],
         TypeOK, Good(m, ring, T, lo), AdvanceTail
  PROVE  TypeOK' /\ T + 1 \in 0..(m - 1) /\ Good(m, ring, T + 1, lo)'
<1>1. PICK to \in Blocks : prod.to = to  BY DEF TypeOK, ProdType
<1>2. /\ ProdGoes("advance", "idle")
      /\ tailBlock' = to /\ puts' = puts + 1
      /\ block' = block /\ largestBlockSize' = largestBlockSize
      /\ made' = made /\ frontBlock' = frontBlock /\ cons' = cons
      /\ taken' = taken /\ answer' = answer
  BY <1>1 DEF AdvanceTail, ProducerOnly
<1>3. /\ Shape(m, ring, T) /\ Views /\ Filled(lo) /\ Room(m)
      /\ Chain(m, ring, T, lo) /\ ProdInv(m, ring, T, lo) /\ ConsInv(T)
  BY DEF Good
<1>4. /\ prod' \in ProdType /\ prod.at = "advance" /\ prod'.at = "idle" /\ prod'.held = 0
  BY <1>2, ProdGoesFacts DEF Free
<1>5. /\ T + 1 \in 0..(m - 1) /\ to = ring[T + 1] /\ (T >= 1 => Full(tailBlock))
      /\ lo[to] = puts /\ Items(to) = 1
  BY <1>1, <1>3, <1>4 DEF ProdInv, NextIsTo
<1>6. /\ SizesKept /\ FrontsKept /\ TailsKept /\ LocalFrontsKept /\ LocalTailsKept
      /\ NextsKept /\ DataKept /\ Blocks' = Blocks /\ BlocksOK' = BlocksOK
  BY <1>2, BlocksSame
<1>7. /\ \A i \in 0..(m - 1) : ring[i] \in Blocks
      /\ \A i, j \in 0..(m - 1) : ring[i] = ring[j] => i = j
      /\ ring[0] = frontBlock /\ ring[T] = tailBlock
  BY <1>3 DEF Shape, Circle
<1>8. /\ puts \in Nat /\ taken \in Nat
      /\ frontBlock \in Blocks /\ tailBlock \in Blocks /\ 1 \in Blocks
  BY <1>3, ShapeFacts DEF TypeOK
<1>9. TypeOK'  BY <1>2, <1>4, <1>6, <1>8 DEF TypeOK, ProdType
<1>10. \A c \in Blocks : Items(c)' = Items(c)  BY <1>6, ItemsKept
<1>11. Views'  BY <1>3, <1>6, ViewsFrame
<1>12. Filled(lo)'  BY <1>2, <1>3, <1>4, <1>6, FilledFrame
<1>13. Room(m)'  BY <1>2, <1>3, <1>6, RoomFrame
<1>14. Shape(m, ring, T + 1)'
  <2>1. m = Len(block)  BY <1>3, <1>4 DEF Shape
  <2>2. Circle(m, ring, T + 1)'
    <3>1. /\ 0 \in 0..(m - 1)
          /\ \A i, j \in 0..(m - 1) : j = i + 1 => block[ring[i]].next = ring[j]
          /\ block[ring[m - 1]].next = ring[0]
      BY <1>3 DEF Shape, Circle
    <3> QED BY <1>2, <1>5, <1>6, <1>7, <3>1 DEF Circle
  <2> QED BY <1>2, <1>3, <1>4, <2>1, <2>2 DEF Shape
<1>15. Chain(m, ring, T + 1, lo)'
  <2>1. \A i \in 0..(m - 1) : Items(ring[i])' = Items(ring[i])  BY <1>7, <1>10
  <2>2. puts = lo[ring[T]] + Items(ring[T])  BY <1>3 DEF Chain
  <2>3. lo[ring[0]] = taken'  BY <1>2, <1>3 DEF Chain
  <2>4. ASSUME NEW i \in 0..(T + 1), NEW j \in 0..(T + 1), j = i + 1
        PROVE  lo[ring[j]] = lo[ring[i]] + Items(ring[i])'
    <3>1. i \in 0..(m - 1) /\ i \in 0..T  BY <1>5, <2>4
    <3>2. CASE j = T + 1
      <4>1. i = T  BY <2>4, <3>2
      <4> QED BY <1>5, <2>1, <2>2, <3>1, <3>2, <4>1
    <3>3. CASE j # T + 1
      <4>1. j \in 0..T  BY <3>3
      <4> QED BY <1>3, <2>1, <2>4, <3>1, <4>1 DEF Chain
    <3> QED BY <3>2, <3>3
  <2>5. puts' = lo[ring[T + 1]] + Items(ring[T + 1])'
    BY <1>2, <1>5, <1>10
  <2>6. \A i \in 1..(T + 1) : Items(ring[i])' > 0
    <3>1. \A i \in 1..T : i \in 0..(m - 1) /\ Items(ring[i])' > 0  BY <1>3, <2>1 DEF Chain
    <3>2. Items(ring[T + 1])' > 0  BY <1>5, <2>1
    <3>3. \A i \in 1..(T + 1) : i \in 1..T \/ i = T + 1  OBVIOUS
    <3> QED BY <3>1, <3>2, <3>3
  <2>7. \A i \in (T + 2)..(m - 1) : Items(ring[i])' = 0
    <3> SUFFICES ASSUME NEW i \in (T + 2)..(m - 1) PROVE Items(ring[i])' = 0
      OBVIOUS
    <3>1. i \in 0..(m - 1) /\ i \in (T + 1)..(m - 1) /\ i # T + 1  OBVIOUS
    <3>2. ring[i] # to  BY <1>5, <1>7, <3>1
    <3> QED BY <1>1, <1>3, <2>1, <3>1, <3>2 DEF Chain
  <2>8. Counted(ring, T + 1, lo)'
    <3>1. block[1].size - 1 \in Nat /\ block'[1].size = block[1].size
      BY <1>3, <1>6, <1>8, BlockNats DEF SizesKept
    <3>2. T >= 1 => lo[ring[T + 1]] >= lo[ring[T]] + (block[1].size - 1)
      <4>1. block[tailBlock].size >= block[1].size  BY <1>3, <1>8 DEF Room
      <4>2. block[tailBlock].size \in Nat /\ block[1].size \in Nat  BY <1>8, BlockFields
      <4>3. T >= 1 => Items(ring[T]) = block[tailBlock].size - 1  BY <1>5, <1>7 DEF Full
      <4>4. lo[ring[T]] \in Nat  OBVIOUS
      <4> QED BY <1>5, <2>2, <4>1, <4>2, <4>3, <4>4
    <3>3. \A i, j \in 1..T : i <= j =>
            lo[ring[j]] >= lo[ring[i]] + (j - i) * (block[1].size - 1)
      BY <1>3 DEF Chain, Counted
    <3>4. T \in Nat  OBVIOUS
    <3>5. \A i, j \in 1..(T + 1) : i <= j =>
            lo[ring[j]] >= lo[ring[i]] + (j - i) * (block[1].size - 1)
      BY <3>1, <3>2, <3>3, <3>4, CountedGrows
    <3> QED BY <3>1, <3>5 DEF Counted
  <2>9. (T + 1) + 1 = T + 2  OBVIOUS
  <2> QED BY <2>3, <2>4, <2>5, <2>6, <2>7, <2>8, <2>9 DEF Chain
<1>16. ProdInv(m, ring, T + 1, lo)'  BY <1>4 DEF ProdInv, Free, Busy
<1>17. ConsInv(T + 1)'
  <2>1. Items(frontBlock)' = Items(frontBlock)  BY <1>2, <1>8, <1>10
  <2>2. NextOfFront' = NextOfFront  BY <1>2 DEF NextOfFront
  <2>3. T >= 1 => NextOfFront \in Blocks  BY <1>3, ChainEnds
  <2>4. T \in Nat /\ T + 1 \in Nat /\ T + 1 >= T /\ puts' \in Nat /\ puts' >= puts
    BY <1>2, <1>8
  <2> QED BY <1>2, <1>3, <1>6, <2>1, <2>2, <2>3, <2>4, ConsStays
<1> QED BY <1>5, <1>9, <1>11, <1>12, <1>13, <1>14, <1>15, <1>16, <1>17 DEF Good

----------------------------------------------------------------------------
(* The consumer's steps.                                                   *)

\* Steps that move the consumer on and change no block and no index.
LEMMA ConsumerMoves ==
  ASSUME NEW m \in Nat, NEW ring \in [Nat -> Nat], NEW T \in 0..(m - 1), NEW lo \in [Nat -> Nat],
         TypeOK, Good(m, ring, T, lo), cons' \in ConsType,
         cons.at # "front", cons'.at # "front", cons.at # "gone", cons'.at # "gone",
         UNCHANGED <<made, indexVars, prod, puts, taken>>, answer' \in Nat,
         ConsInv(T)'
  PROVE  TypeOK' /\ Good(m, ring, T, lo)'
<1>1. /\ block' = block /\ frontBlock' = frontBlock /\ tailBlock' = tailBlock
      /\ largestBlockSize' = largestBlockSize /\ puts' = puts /\ made' = made
      /\ prod' = prod /\ taken' = taken
  BY DEF indexVars
<1>2. /\ SizesKept /\ FrontsKept /\ TailsKept /\ LocalFrontsKept /\ LocalTailsKept
      /\ NextsKept /\ DataKept /\ Blocks' = Blocks /\ BlocksOK' = BlocksOK
  BY <1>1, BlocksSame
<1>3. TypeOK'  BY <1>1, <1>2 DEF TypeOK, ProdType
<1>4. /\ Shape(m, ring, T) /\ Views /\ Filled(lo) /\ Room(m)
      /\ Chain(m, ring, T, lo) /\ ProdInv(m, ring, T, lo)
  BY DEF Good
<1>5. Shape(m, ring, T)'  BY <1>1, <1>2, <1>4, LengthNat, ShapeFrame
<1>6. Views'  BY <1>2, <1>4, ViewsFrame
<1>7. Filled(lo)'  BY <1>1, <1>2, <1>4, FilledFrame
<1>8. Room(m)'  BY <1>1, <1>2, <1>4, RoomFrame
<1>9. Chain(m, ring, T, lo)'  BY <1>1, <1>2, <1>4, ChainFrame
<1>10. ProdInv(m, ring, T, lo)'
  BY <1>1, <1>4 DEF ProdInv, NextIsTo, Full, Items, FromFront, After
<1> QED BY <1>3, <1>5, <1>6, <1>7, <1>8, <1>9, <1>10 DEF Good

\* A call of try_dequeue, peek or pop.
LEMMA GetStep ==
  ASSUME NEW m \in Nat, NEW ring \in [Nat -> Nat], NEW T \in 0..(m - 1), NEW lo \in [Nat -> Nat],
         TypeOK, Good(m, ring, T, lo), NEW op \in Ops, Get(op)
  PROVE  TypeOK' /\ Good(m, ring, T, lo)'
<1>1. /\ UNCHANGED <<made, indexVars, prod, puts, taken>>
      /\ block' = block /\ frontBlock' = frontBlock /\ puts' = puts /\ taken' = taken
      /\ answer' = 0 /\ cons.at = "idle"
      /\ cons' = [at |-> IF block[frontBlock].front # block[frontBlock].localTail
                         THEN "take" ELSE "refresh",
                  op |-> op, wasEmpty |-> puts - taken = 0]
  BY DEF Get, ConsumerOnly, indexVars, Length
<1>2. /\ cons' \in ConsType /\ cons'.at \in {"take", "refresh"}
      /\ cons'.at = "take" => block[frontBlock].front # block[frontBlock].localTail
      /\ ~cons'.wasEmpty => puts - taken # 0
  BY <1>1 DEF ConsType, ConsBusy
<1>3. taken <= puts /\ puts \in Nat /\ taken \in Nat  BY ChainEnds DEF Good, TypeOK
<1>4. ~cons'.wasEmpty => puts > taken  BY <1>2, <1>3
<1>5. ConsInv(T)'  BY <1>1, <1>2, <1>4 DEF ConsInv
<1> QED BY <1>1, <1>2, <1>5, ConsumerMoves

\* The consumer asks whether its empty block is the last.
LEMMA LookAtTailBlockStep ==
  ASSUME NEW m \in Nat, NEW ring \in [Nat -> Nat], NEW T \in 0..(m - 1), NEW lo \in [Nat -> Nat],
         TypeOK, Good(m, ring, T, lo), LookAtTailBlock
  PROVE  TypeOK' /\ Good(m, ring, T, lo)'
<1>1. /\ UNCHANGED <<made, indexVars, prod, puts, taken>>
      /\ puts' = puts /\ taken' = taken /\ answer' = answer
      /\ ConsGoes("tailblock", IF frontBlock = tailBlock THEN "idle" ELSE "recheck")
  BY DEF LookAtTailBlock, ConsumerOnly, indexVars
<1>2. /\ cons' \in ConsType /\ cons.at = "tailblock"
      /\ cons'.at = IF frontBlock = tailBlock THEN "idle" ELSE "recheck"
      /\ cons'.at = "recheck" => cons'.wasEmpty = cons.wasEmpty
  BY <1>1, ConsGoesFacts DEF Free, ConsBusy
<1>3. frontBlock = tailBlock <=> T = 0  BY ChainEnds DEF Good
<1>4. /\ ~cons.wasEmpty => puts > taken
      /\ answer = 0
  BY <1>2 DEF Good, ConsInv, ConsBusy
<1>5. ConsInv(T)'  BY <1>1, <1>2, <1>3, <1>4 DEF ConsInv, ConsBusy
<1>6. answer' \in Nat  BY <1>1 DEF TypeOK
<1> QED BY <1>1, <1>2, <1>5, <1>6, ConsumerMoves

\* A peek ends with the item it saw.
LEMMA TakePeekStep ==
  ASSUME NEW m \in Nat, NEW ring \in [Nat -> Nat], NEW T \in 0..(m - 1), NEW lo \in [Nat -> Nat],
         TypeOK, Good(m, ring, T, lo),
         TakeSlot \/ LookAtNext, cons.op = "peek"
  PROVE  TypeOK' /\ Good(m, ring, T, lo)'
<1>1. PICK b \in Blocks : answer' = First(b)
  <2>1. CASE TakeSlot
    BY <2>1 DEF TakeSlot, TypeOK
  <2>2. CASE LookAtNext
    <3>1. T >= 1  BY <2>2 DEF LookAtNext, ConsGoes, Good, ConsInv
    <3>2. NextOfFront \in Blocks  BY <3>1, ChainEnds DEF Good
    <3> QED BY <2>2, <3>2 DEF LookAtNext
  <2> QED BY <2>1, <2>2
<1>2. answer' \in Nat
  <2>1. block[b].front \in 0..(block[b].size - 1)  BY DEF TypeOK, BlocksOK
  <2>2. block[b].data \in [0..(block[b].size - 1) -> Nat]  BY DEF TypeOK, BlocksOK
  <2> QED BY <1>1, <2>1, <2>2 DEF First
<1>3. /\ UNCHANGED <<made, indexVars, prod, puts, taken>>
      /\ \E at \in {"take", "next"} : ConsGoes(at, "idle")
  BY DEF TakeSlot, LookAtNext, ConsumerOnly, indexVars
<1>4. cons' \in ConsType /\ cons.at \in {"take", "next"} /\ cons'.at = "idle"
  BY <1>3, ConsGoesFacts DEF Free
<1>5. ConsInv(T)'  BY <1>4 DEF ConsInv, ConsBusy
<1> QED BY <1>2, <1>3, <1>4, <1>5, ConsumerMoves

\* The consumer looks at the tail of a block.
LEMMA TailSeen ==
  ASSUME NEW m \in Nat, NEW ring \in [Nat -> Nat], NEW T \in 0..(m - 1), NEW lo \in [Nat -> Nat],
         TypeOK, Good(m, ring, T, lo), NEW b \in Blocks,
         block' = [block EXCEPT ![b].localTail = block[b].tail]
  PROVE  /\ SizesKept /\ FrontsKept /\ TailsKept /\ LocalFrontsKept /\ NextsKept /\ DataKept
         /\ block'[b].localTail = block[b].tail
         /\ BlocksOK' /\ Blocks' = Blocks /\ Views'
<1>1. Views /\ Room(m)  BY DEF Good
<1>2. /\ block[b].tail \in 0..(block[b].size - 1)
      /\ block[b].tail \in Nat
  <2>1. block[b].size \in Nat /\ block[b].tail \in 0..(block[b].size - 1)
    BY <1>1, BlockFacts
  <2> QED BY <2>1
<1>3. /\ block' \in Seq(BlockType)
      /\ SizesKept /\ FrontsKept /\ TailsKept /\ LocalFrontsKept /\ NextsKept /\ DataKept
      /\ \A c \in Blocks : block'[c].localTail =
           IF c = b THEN block[b].tail ELSE block[c].localTail
  BY <1>2, SetLocalTail
<1>4. BlocksOK' /\ Blocks' = Blocks
  <2>1. \A c \in Blocks :
          /\ block'[c].data \in [0..(block[c].size - 1) -> Nat]
          /\ block'[c].front \in 0..(block[c].size - 1)
          /\ block'[c].tail \in 0..(block[c].size - 1)
          /\ block'[c].localFront \in 0..(block[c].size - 1)
          /\ block'[c].localTail \in 0..(block[c].size - 1)
    <3>1. \A c \in Blocks : block'[c].localTail \in 0..(block[c].size - 1)
      BY <1>2, <1>3 DEF TypeOK, BlocksOK
    <3> QED BY <1>3, <3>1 DEF TypeOK, BlocksOK, FrontsKept, TailsKept, LocalFrontsKept, DataKept
  <2> QED BY <1>3, <2>1, BlocksOKStays DEF TypeOK
<1>5. Views'
  <2>1. \A c \in Blocks : Items(c)' = Items(c) /\ \A i : FromFront(c, i)' = FromFront(c, i)
    BY <1>3, ItemsKept
  <2>2. \A c \in Blocks :
          Items(c)' <= Dist(block'[c].localFront, block'[c].tail, block'[c].size)
    BY <1>1, <1>3, <2>1 DEF Views, SizesKept, TailsKept, LocalFrontsKept
  <2>3. \A c \in Blocks : c # b => FromFront(c, block[c].localTail)' <= Items(c)'
    BY <1>1, <1>3, <2>1 DEF Views
  <2>4. FromFront(b, block[b].localTail)' <= Items(b)'
    <3>1. FromFront(b, block[b].localTail)' = Items(b)  BY <1>3, <2>1 DEF Items
    <3>2. Items(b) \in Nat  BY <1>1, BlockNats
    <3> QED BY <2>1, <3>1, <3>2
  <2> QED BY <1>4, <2>2, <2>3, <2>4 DEF Views
<1> QED BY <1>3, <1>4, <1>5

\* The consumer refreshes its copy of a tail.
LEMMA TailSeenStep ==
  ASSUME NEW m \in Nat, NEW ring \in [Nat -> Nat], NEW T \in 0..(m - 1), NEW lo \in [Nat -> Nat],
         TypeOK, Good(m, ring, T, lo), NEW b \in Blocks,
         block' = [block EXCEPT ![b].localTail = block[b].tail],
         cons.at # "front", cons'.at # "front", cons.at # "gone", cons'.at # "gone",
         cons' \in ConsType,
         UNCHANGED <<made, frontBlock, tailBlock, largestBlockSize, prod, puts, taken, answer>>,
         ConsInv(T)'
  PROVE  TypeOK' /\ Good(m, ring, T, lo)'
<1>1. /\ Shape(m, ring, T) /\ Views /\ Filled(lo) /\ Room(m)
      /\ Chain(m, ring, T, lo) /\ ProdInv(m, ring, T, lo)
  BY DEF Good
<1>2. /\ SizesKept /\ FrontsKept /\ TailsKept /\ LocalFrontsKept /\ NextsKept /\ DataKept
      /\ BlocksOK' /\ Blocks' = Blocks /\ Views'
  BY TailSeen
<1>3. /\ prod' = prod /\ puts' = puts /\ taken' = taken /\ made' = made
      /\ tailBlock' = tailBlock /\ frontBlock' = frontBlock
      /\ largestBlockSize' = largestBlockSize
  OBVIOUS
<1>4. TypeOK'  BY <1>2, <1>3 DEF TypeOK, ProdType
<1>5. Shape(m, ring, T)'  BY <1>1, <1>2, <1>3, LengthNat, ShapeFrame DEF SizesKept
<1>6. Filled(lo)'  BY <1>1, <1>2, <1>3, FilledFrame
<1>7. Room(m)'  BY <1>1, <1>2, <1>3, RoomFrame
<1>8. Chain(m, ring, T, lo)'  BY <1>1, <1>2, <1>3, ChainFrame
<1>9. ProdInv(m, ring, T, lo)'
  <2>1. \A c \in Blocks : Items(c)' = Items(c) /\ Full(c)' = Full(c)  BY <1>2, ItemsKept
  <2>2. tailBlock \in Blocks /\ prod.to \in Blocks /\ taken \in Nat  BY DEF TypeOK, ProdType
  <2>3. NextIsTo(m, ring, T) => NextIsTo(m, ring, T)'  BY <1>3, <2>1, <2>2 DEF NextIsTo
  <2>4. Items(tailBlock)' = Items(tailBlock) /\ Items(prod.to)' = Items(prod.to)
    BY <1>3, <2>1, <2>2
  <2>5. T \in Nat /\ T <= T /\ taken' \in Nat /\ taken' >= taken  BY <1>3, <2>2
  <2> QED BY <1>1, <1>2, <1>3, <2>3, <2>4, <2>5, ProdStays
<1> QED BY <1>2, <1>4, <1>5, <1>6, <1>7, <1>8, <1>9 DEF Good

\* What the consumer knows after it has looked at the tail of the front block.
LEMMA RefreshTailStep ==
  ASSUME NEW m \in Nat, NEW ring \in [Nat -> Nat], NEW T \in 0..(m - 1), NEW lo \in [Nat -> Nat],
         TypeOK, Good(m, ring, T, lo), LookAtTail \/ Recheck
  PROVE  TypeOK' /\ Good(m, ring, T, lo)'
<1>1. PICK from \in {"refresh", "recheck"}, otherwise \in {"tailblock", "next"} :
        (from = "recheck" <=> otherwise = "next") /\ RefreshTail(from, otherwise)
  BY DEF LookAtTail, Recheck
<1> DEFINE goal == IF block[frontBlock].front # block[frontBlock].tail THEN "take" ELSE otherwise
<1>2. PICK b \in Blocks : frontBlock = b  BY DEF TypeOK
<1>3. /\ ConsGoes(from, goal)
      /\ block' = [block EXCEPT ![b].localTail = block[b].tail]
      /\ frontBlock' = frontBlock /\ taken' = taken /\ answer' = answer /\ puts' = puts
      /\ UNCHANGED <<made, frontBlock, tailBlock, largestBlockSize, prod, puts, taken, answer>>
  BY <1>1, <1>2 DEF RefreshTail, ConsumerOnly
<1>4. /\ from \in {"refresh", "recheck"} /\ goal \in {"take", "tailblock", "next"}
      /\ goal = "next" => from = "recheck"
      /\ goal \in ConsBusy /\ goal # "idle"
  BY <1>1 DEF ConsBusy
<1>5. /\ cons' \in ConsType /\ cons.at = from /\ cons'.at = goal
      /\ cons'.op = cons.op /\ cons'.wasEmpty = cons.wasEmpty
  <2> HIDE DEF goal
  <2> QED BY <1>3, <1>4, ConsGoesFacts
<1>6. /\ goal = "take" <=> block[b].front # block[b].tail
  BY <1>1, <1>2
<1> HIDE DEF goal
<1>7. /\ Shape(m, ring, T) /\ Room(m) /\ Chain(m, ring, T, lo) /\ ConsInv(T)
  BY DEF Good
<1>8. /\ ~cons.wasEmpty => puts > taken
      /\ from = "recheck" => T >= 1
      /\ answer = 0
  BY <1>4, <1>5, <1>7 DEF ConsInv, ConsBusy
<1>9. Items(b) = 0 <=> block[b].front = block[b].tail  BY <1>7, BlockFacts
<1>10. T = 0 => puts = taken + Items(b)  BY <1>2, <1>7, ChainEnds
<1>11. goal = "tailblock" => T >= 1 \/ cons.wasEmpty
  BY <1>6, <1>8, <1>9, <1>10 DEF TypeOK
<1>12. SizesKept /\ FrontsKept /\ TailsKept /\ block'[b].localTail = block[b].tail
  BY <1>3, TailSeen
<1>13. Items(b)' = Items(b) /\ block'[b].front = block[b].front
  BY <1>12, ItemsKept DEF FrontsKept
<1>14. ConsInv(T)'
  <2>1. Items(frontBlock)' = Items(b)  BY <1>2, <1>3, <1>13
  <2>2. CASE goal = "take"
    <3>1. block'[frontBlock'].front # block'[frontBlock'].localTail
      BY <1>2, <1>3, <1>6, <1>12, <1>13, <2>2
    <3> QED BY <1>3, <1>5, <1>8, <2>2, <3>1 DEF ConsInv, ConsBusy
  <2>3. CASE goal = "tailblock"
    BY <1>3, <1>5, <1>8, <1>11, <2>3 DEF ConsInv, ConsBusy
  <2>4. CASE goal = "next"
    BY <1>3, <1>4, <1>5, <1>6, <1>8, <1>9, <2>1, <2>4 DEF ConsInv, ConsBusy
  <2> QED BY <1>4, <2>2, <2>3, <2>4
<1> QED BY <1>3, <1>4, <1>5, <1>14, TailSeenStep

\* The consumer looks into the next block, which has an item.
LEMMA LookAtNextStep ==
  ASSUME NEW m \in Nat, NEW ring \in [Nat -> Nat], NEW T \in 0..(m - 1), NEW lo \in [Nat -> Nat],
         TypeOK, Good(m, ring, T, lo), LookAtNext
  PROVE  TypeOK' /\ Good(m, ring, T, lo)'
<1>1. CASE cons.op = "peek"  BY <1>1, TakePeekStep
<1>2. CASE cons.op # "peek"
  <2>1. /\ Shape(m, ring, T) /\ Room(m) /\ Chain(m, ring, T, lo) /\ ConsInv(T)
    BY DEF Good
  <2>2. ConsGoes("next", "advance")  BY <1>2 DEF LookAtNext
  <2>3. /\ cons' \in ConsType /\ cons.at = "next" /\ cons'.at = "advance"
        /\ cons'.op = cons.op /\ cons'.wasEmpty = cons.wasEmpty
    BY <2>2, ConsGoesFacts DEF ConsBusy
  <2>4. /\ T >= 1 /\ Items(frontBlock) = 0 /\ answer = 0
        /\ ~cons.wasEmpty => puts > taken
    BY <2>1, <2>3 DEF ConsInv, ConsBusy
  <2>5. PICK b \in Blocks : NextOfFront = b /\ Items(b) > 0
    BY <2>1, <2>4, ChainEnds
  <2>6. /\ block' = [block EXCEPT ![b].localTail = block[b].tail]
        /\ frontBlock' = frontBlock /\ taken' = taken /\ answer' = answer /\ puts' = puts
        /\ UNCHANGED <<made, frontBlock, tailBlock, largestBlockSize, prod, puts, taken, answer>>
    BY <1>2, <2>5 DEF LookAtNext, ConsumerOnly
  <2>7. /\ SizesKept /\ FrontsKept /\ TailsKept /\ NextsKept
        /\ block'[b].localTail = block[b].tail
    BY <2>6, TailSeen
  <2>8. frontBlock \in Blocks  BY DEF TypeOK
  <2>9. Items(frontBlock)' = Items(frontBlock)  BY <2>6, <2>7, <2>8, ItemsKept
  <2>10. NextOfFront' = b  BY <2>5, <2>6, <2>7, <2>8 DEF NextOfFront, NextsKept
  <2>11. block[b].front # block[b].tail
    <3>1. Items(b) = 0 <=> block[b].front = block[b].tail  BY <2>1, BlockFacts
    <3> QED BY <2>5, <3>1
  <2>12. block'[NextOfFront'].front # block'[NextOfFront'].localTail
    BY <2>7, <2>10, <2>11 DEF FrontsKept
  <2>13. ConsInv(T)'
    <3> HIDE DEF NextOfFront
    <3> QED BY <1>2, <2>3, <2>4, <2>6, <2>9, <2>12 DEF ConsInv, ConsBusy
  <2> QED BY <2>3, <2>6, <2>13, TailSeenStep
<1> QED BY <1>1, <1>2

\* The old front block becomes the last one, empty.
LEMMA AdvanceFrontStep ==
  ASSUME NEW m \in Nat, NEW ring \in [Nat -> Nat], NEW T \in 0..(m - 1), NEW lo \in [Nat -> Nat],
         TypeOK, Good(m, ring, T, lo), AdvanceFront
  PROVE  /\ TypeOK' /\ T - 1 \in 0..(m - 1)
         /\ \E ring1 \in [Nat -> Nat] :
              /\ \A i \in 0..(m - 1) : ring1[IF i = 0 THEN m - 1 ELSE i - 1] = ring[i]
              /\ Good(m, ring1, T - 1, lo)'
<1>1. /\ ConsGoes("advance", "take")
      /\ frontBlock' = NextOfFront /\ block' = block /\ taken' = taken /\ answer' = answer
      /\ made' = made /\ tailBlock' = tailBlock /\ largestBlockSize' = largestBlockSize
      /\ prod' = prod /\ puts' = puts
  BY DEF AdvanceFront, ConsumerOnly
<1>2. /\ Shape(m, ring, T) /\ Views /\ Filled(lo) /\ Room(m)
      /\ Chain(m, ring, T, lo) /\ ProdInv(m, ring, T, lo) /\ ConsInv(T)
  BY DEF Good
<1>3. /\ cons' \in ConsType /\ cons.at = "advance" /\ cons'.at = "take"
      /\ cons'.op = cons.op /\ cons'.wasEmpty = cons.wasEmpty
  BY <1>1, ConsGoesFacts DEF ConsBusy
<1>4. /\ T >= 1 /\ Items(frontBlock) = 0 /\ answer = 0
      /\ ~cons.wasEmpty => puts > taken
      /\ block[NextOfFront].front # block[NextOfFront].localTail
  BY <1>2, <1>3 DEF ConsInv, ConsBusy
<1>5. /\ NextOfFront = ring[1] /\ NextOfFront \in Blocks
      /\ lo[ring[1]] = taken + Items(frontBlock)
  BY <1>2, <1>4, ChainEnds
<1>6. /\ \A i \in 0..(m - 1) : ring[i] \in Blocks /\ ring[i] \in 1..m
      /\ \A i, j \in 0..(m - 1) : ring[i] = ring[j] => i = j
      /\ \A i, j \in 0..(m - 1) : j = i + 1 => block[ring[i]].next = ring[j]
      /\ block[ring[m - 1]].next = ring[0]
      /\ ring[0] = frontBlock /\ ring[T] = tailBlock
  BY <1>2 DEF Shape, Circle
<1>7. /\ SizesKept /\ FrontsKept /\ TailsKept /\ LocalFrontsKept /\ LocalTailsKept
      /\ NextsKept /\ DataKept /\ Blocks' = Blocks /\ BlocksOK' = BlocksOK
  BY <1>1, BlocksSame
<1>8. TypeOK'  BY <1>1, <1>3, <1>5, <1>7 DEF TypeOK, ProdType
<1>9. \A c \in Blocks : Items(c)' = Items(c) /\ Full(c)' = Full(c)  BY <1>7, ItemsKept
<1>10. /\ puts \in Nat /\ taken \in Nat /\ frontBlock \in Blocks /\ tailBlock \in Blocks
       /\ prod.to \in Blocks /\ frontBlock \in Nat
  BY DEF TypeOK, ProdType, Blocks
<1>11. PICK ring1 \in [Nat -> Nat] :
         \A i \in Nat : ring1[i] = IF i = m - 1 THEN frontBlock ELSE ring[i + 1]
  <2> DEFINE r1 == [i \in Nat |-> IF i = m - 1 THEN frontBlock ELSE ring[i + 1]]
  <2> r1 \in [Nat -> Nat]  BY <1>10
  <2> WITNESS r1 \in [Nat -> Nat]
  <2> QED OBVIOUS
<1>12. /\ \A i \in 0..(m - 1) : i # m - 1 => ring1[i] = ring[i + 1] /\ i + 1 \in 0..(m - 1)
       /\ ring1[m - 1] = frontBlock
  BY <1>11
<1>13. /\ T - 1 \in 0..(m - 1) /\ T - 1 # m - 1 /\ 0 # m - 1 /\ m - 1 \in 0..(m - 1)
       /\ 0 \in 0..(m - 1) /\ 1 \in 0..(m - 1) /\ (T - 1) + 1 = T /\ 1 \in 1..T
  BY <1>4
<1>14. Shape(m, ring1, T - 1)'
  <2>1. ASSUME NEW i \in 0..(m - 1) PROVE ring1[i] \in Blocks /\ ring1[i] \in 1..m
    <3>1. CASE i = m - 1  BY <1>6, <1>12, <1>13, <3>1
    <3>2. CASE i # m - 1
      <4>1. ring1[i] = ring[i + 1] /\ i + 1 \in 0..(m - 1)  BY <1>12, <3>2
      <4> QED BY <1>6, <4>1
    <3> QED BY <3>1, <3>2
  <2>2. \A i \in 0..(m - 1) : \E k \in 0..(m - 1) :
           ring1[i] = ring[k] /\ k = IF i = m - 1 THEN 0 ELSE i + 1
    <3> SUFFICES ASSUME NEW i \in 0..(m - 1)
                 PROVE \E k \in 0..(m - 1) : ring1[i] = ring[k] /\ k = IF i = m - 1 THEN 0 ELSE i + 1
      OBVIOUS
    <3>1. CASE i = m - 1  BY <1>6, <1>12, <1>13, <3>1
    <3>2. CASE i # m - 1
      <4>1. ring1[i] = ring[i + 1] /\ i + 1 \in 0..(m - 1)  BY <1>12, <3>2
      <4> QED BY <3>2, <4>1
    <3> QED BY <3>1, <3>2
  <2>3. ASSUME NEW i \in 0..(m - 1), NEW j \in 0..(m - 1), ring1[i] = ring1[j] PROVE i = j
    <3>1. PICK k \in 0..(m - 1) : ring1[i] = ring[k] /\ k = IF i = m - 1 THEN 0 ELSE i + 1
      BY <2>2
    <3>2. PICK l \in 0..(m - 1) : ring1[j] = ring[l] /\ l = IF j = m - 1 THEN 0 ELSE j + 1
      BY <2>2
    <3>3. k = l  BY <1>6, <2>3, <3>1, <3>2
    <3>4. i = m - 1 \/ i + 1 > 0  OBVIOUS
    <3> QED BY <3>1, <3>2, <3>3
  <2>4. ring1[0] = frontBlock' /\ ring1[T - 1] = tailBlock'
    <3>1. ring1[0] = ring[0 + 1] /\ ring1[T - 1] = ring[(T - 1) + 1]  BY <1>12, <1>13
    <3>2. 0 + 1 = 1  OBVIOUS
    <3> QED BY <1>1, <1>5, <1>6, <1>13, <3>1, <3>2
  <2>5. ASSUME NEW i \in 0..(m - 1), NEW j \in 0..(m - 1), j = i + 1
        PROVE  block[ring1[i]].next = ring1[j]
    <3>1. i # m - 1 /\ ring1[i] = ring[j]  BY <1>12, <2>5
    <3>2. CASE j = m - 1  BY <1>6, <1>12, <3>1, <3>2
    <3>3. CASE j # m - 1
      <4>1. ring1[j] = ring[j + 1] /\ j + 1 \in 0..(m - 1)  BY <1>12, <3>3
      <4> QED BY <1>6, <3>1, <4>1
    <3> QED BY <3>2, <3>3
  <2>6. block[ring1[m - 1]].next = ring1[0]
    <3>1. ring1[0] = ring[1]  BY <1>1, <1>5, <2>4
    <3> QED BY <1>5, <1>12, <3>1 DEF NextOfFront
  <2>7. Circle(m, ring1, T - 1)'
    BY <1>1, <1>7, <1>13, <2>1, <2>3, <2>4, <2>5, <2>6 DEF Circle
  <2>8. m = IF prod'.at = "link" THEN Len(block') - 1 ELSE Len(block')
    BY <1>1, <1>2 DEF Shape
  <2> QED BY <2>1, <2>7, <2>8 DEF Shape
<1>15. Views'  BY <1>2, <1>7, ViewsFrame
<1>16. Filled(lo)'
  <2>1. cons.at # "front" /\ cons'.at # "front"  BY <1>3
  <2>2. \A b, d : Content(lo, b, d)' = Content(lo, b, d)
    BY <1>1, <2>1 DEF Content, Items, FromFront
  <2> QED BY <1>1, <1>2, <1>7, <2>2 DEF Filled, FromFront
<1>17. Room(m)'  BY <1>1, <1>2, <1>7, RoomFrame
<1>18. Chain(m, ring1, T - 1, lo)'
  <2>1. \A i \in 0..(T - 1) : ring1[i] = ring[i + 1] /\ i + 1 \in 1..T /\ i + 1 \in 0..(m - 1)
    BY <1>12
  <2>2. \A i \in 0..(m - 1) : Items(ring[i])' = Items(ring[i])  BY <1>6, <1>9
  <2>3. lo[ring1[0]] = taken'
    <3>1. ring1[0] = ring[1]
      <4>1. 0 \in 0..(T - 1) /\ 0 + 1 = 1  BY <1>4
      <4> QED BY <2>1, <4>1
    <3> QED BY <1>1, <1>4, <1>5, <1>10, <3>1
  <2>4. ASSUME NEW i \in 0..(T - 1), NEW j \in 0..(T - 1), j = i + 1
        PROVE  lo[ring1[j]] = lo[ring1[i]] + Items(ring1[i])'
    <3>1. /\ ring1[i] = ring[j] /\ ring1[j] = ring[j + 1]
          /\ j \in 0..T /\ j + 1 \in 0..T /\ j \in 0..(m - 1)
      BY <2>1, <2>4
    <3>2. lo[ring[j + 1]] = lo[ring[j]] + Items(ring[j])  BY <1>2, <3>1 DEF Chain
    <3> QED BY <2>2, <3>1, <3>2
  <2>5. puts' = lo[ring1[T - 1]] + Items(ring1[T - 1])'
    <3>1. ring1[T - 1] = ring[T]
      <4>1. T - 1 \in 0..(T - 1)  BY <1>4
      <4> QED BY <1>13, <2>1, <4>1
    <3>2. puts = lo[ring[T]] + Items(ring[T])  BY <1>2 DEF Chain
    <3> QED BY <1>1, <2>2, <3>1, <3>2
  <2>6. \A i \in 1..(T - 1) : Items(ring1[i])' > 0
    <3> SUFFICES ASSUME NEW i \in 1..(T - 1) PROVE Items(ring1[i])' > 0  OBVIOUS
    <3>1. i \in 0..(T - 1)  OBVIOUS
    <3>2. ring1[i] = ring[i + 1] /\ i + 1 \in 1..T /\ i + 1 \in 0..(m - 1)  BY <2>1, <3>1
    <3> QED BY <1>2, <2>2, <3>2 DEF Chain
  <2>7. ASSUME NEW i \in T..(m - 1)
        PROVE  (prod.at = "advance" /\ ring1[i] = prod.to) \/ Items(ring1[i])' = 0
    <3>1. i \in 0..(m - 1)  OBVIOUS
    <3>2. CASE i = m - 1  BY <1>4, <1>9, <1>10, <1>12, <3>2
    <3>3. CASE i # m - 1
      <4>1. ring1[i] = ring[i + 1] /\ i + 1 \in 0..(m - 1) /\ i + 1 \in (T + 1)..(m - 1)
        BY <1>12, <3>1, <3>3
      <4> QED BY <1>2, <2>2, <4>1 DEF Chain
    <3> QED BY <3>2, <3>3
  <2>8. Counted(ring1, T - 1, lo)'
    <3> DEFINE S == block[1].size - 1
    <3>1. \A i, j \in 1..T : i <= j => lo[ring[j]] >= lo[ring[i]] + (j - i) * S
      BY <1>2 DEF Chain, Counted
    <3> HIDE DEF S
    <3>2. ASSUME NEW i \in 1..(T - 1), NEW j \in 1..(T - 1), i <= j
          PROVE  lo[ring1[j]] >= lo[ring1[i]] + (j - i) * S
      <4>1. i \in 0..(T - 1) /\ j \in 0..(T - 1)  OBVIOUS
      <4>2. /\ ring1[i] = ring[i + 1] /\ i + 1 \in 1..T
            /\ ring1[j] = ring[j + 1] /\ j + 1 \in 1..T
        BY <2>1, <4>1
      <4>3. i + 1 <= j + 1 /\ (j + 1) - (i + 1) = j - i  BY <3>2
      <4>4. lo[ring[j + 1]] >= lo[ring[i + 1]] + ((j + 1) - (i + 1)) * S
        BY <3>1, <4>2, <4>3
      <4> QED BY <4>2, <4>3, <4>4
    <3>3. block'[1].size - 1 = S  BY <1>1 DEF S
    <3> QED BY <3>2, <3>3 DEF Counted
  <2>9. (T - 1) + 1 = T  OBVIOUS
  <2> QED BY <1>1, <2>3, <2>4, <2>5, <2>6, <2>7, <2>8, <2>9 DEF Chain
<1>19. ProdInv(m, ring1, T - 1, lo)'
  <2>1. T \in Nat /\ T - 1 \in Nat /\ T - 1 <= T /\ (T - 1 = m - 1 => T = m - 1)
    BY <1>4
  <2>2. NextIsTo(m, ring, T) => NextIsTo(m, ring1, T - 1)'
    <3> SUFFICES ASSUME NextIsTo(m, ring, T) PROVE NextIsTo(m, ring1, T - 1)'
      OBVIOUS
    <3>1. T + 1 <= m - 1 /\ prod.to = ring[T + 1] /\ Full(tailBlock)
      BY <1>4 DEF NextIsTo
    <3>2. T \in 0..(m - 1) /\ T # m - 1 /\ (T - 1) + 1 = T  BY <3>1
    <3>3. ring1[T] = ring[T + 1]  BY <1>12, <3>2
    <3>4. Full(tailBlock)'  BY <1>1, <1>9, <1>10, <3>1
    <3> QED BY <1>1, <3>1, <3>2, <3>3, <3>4 DEF NextIsTo
  <2>3. Items(tailBlock)' = Items(tailBlock) /\ Items(prod.to)' = Items(prod.to)
    BY <1>1, <1>9, <1>10
  <2>4. taken' \in Nat /\ taken' >= taken  BY <1>1, <1>10
  <2> QED BY <1>1, <1>2, <1>7, <2>1, <2>2, <2>3, <2>4, ProdStays
<1>20. ConsInv(T - 1)'
  <2>1. block'[frontBlock'].front # block'[frontBlock'].localTail
    <3> HIDE DEF NextOfFront
    <3> QED BY <1>1, <1>4
  <2> QED BY <1>1, <1>3, <1>4, <2>1 DEF ConsInv, ConsBusy
<1>21. Good(m, ring1, T - 1, lo)'
  BY <1>14, <1>15, <1>16, <1>17, <1>18, <1>19, <1>20 DEF Good
<1>22. ASSUME NEW i \in 0..(m - 1) PROVE ring1[IF i = 0 THEN m - 1 ELSE i - 1] = ring[i]
  <2>1. CASE i = 0  BY <1>6, <1>12, <2>1
  <2>2. CASE i # 0
    <3>1. i - 1 \in 0..(m - 1) /\ i - 1 # m - 1 /\ (i - 1) + 1 = i  BY <2>2
    <3> QED BY <1>12, <2>2, <3>1
  <2> QED BY <2>1, <2>2
<1> QED BY <1>8, <1>13, <1>21, <1>22

\* The first item of the front block is the next to be taken.
LEMMA FirstItem ==
  ASSUME NEW m \in Nat, NEW ring \in [Nat -> Nat], NEW T \in 0..(m - 1), NEW lo \in [Nat -> Nat],
         TypeOK, Good(m, ring, T, lo), cons.at = "take"
  PROVE  First(frontBlock) = taken + 1
<1>1. PICK b \in Blocks : frontBlock = b  BY DEF TypeOK
<1>2. /\ Views /\ Filled(lo) /\ Room(m) /\ ConsInv(T)
      /\ Shape(m, ring, T) /\ Chain(m, ring, T, lo)
  BY DEF Good
<1>3. Items(b) > 0  BY <1>1, <1>2, FrontHasItem
<1>4. /\ block[b].front \in 0..(block[b].size - 1)
      /\ block[b].size \in Nat /\ block[b].size > 1
  BY <1>2, BlockFacts
<1>5. FromFront(b, block[b].front) = 0  BY <1>4, DistFacts DEF FromFront
<1>6. prod.at # "gone"  BY DEF TypeOK
<1>7. lo[b] = taken  BY <1>1, <1>2, ChainEnds
<1>8. block[b].data[block[b].front] = Content(lo, b, 0)
  BY <1>2, <1>4, <1>5, <1>6 DEF Filled
<1>9. Content(lo, b, 0) = taken + 0 + 1  BY <1>3, <1>7 DEF Content
<1>10. taken \in Nat  BY DEF TypeOK
<1> QED BY <1>1, <1>8, <1>9, <1>10 DEF First

\* The consumer moves the first item out of its slot, or looks at it.
LEMMA TakeSlotStep ==
  ASSUME NEW m \in Nat, NEW ring \in [Nat -> Nat], NEW T \in 0..(m - 1), NEW lo \in [Nat -> Nat],
         TypeOK, Good(m, ring, T, lo), TakeSlot
  PROVE  TypeOK' /\ Good(m, ring, T, lo)'
<1>1. CASE cons.op = "peek"  BY <1>1, TakePeekStep
<1>2. CASE cons.op # "peek"
  <2>1. PICK b \in Blocks : frontBlock = b  BY DEF TypeOK
  <2>2. PICK f \in 0..(block[b].size - 1) : block[b].front = f  BY DEF TypeOK, BlocksOK
  <2>3. /\ ConsGoes("take", "front")
        /\ answer' = First(frontBlock)
        /\ block' = [block EXCEPT ![b].data[f] = 0]
        /\ frontBlock' = frontBlock /\ taken' = taken /\ puts' = puts
        /\ made' = made /\ tailBlock' = tailBlock /\ largestBlockSize' = largestBlockSize
        /\ prod' = prod
    BY <1>2, <2>1, <2>2 DEF TakeSlot, ConsumerOnly
  <2>4. /\ Shape(m, ring, T) /\ Views /\ Filled(lo) /\ Room(m)
        /\ Chain(m, ring, T, lo) /\ ProdInv(m, ring, T, lo) /\ ConsInv(T)
    BY DEF Good
  <2>5. /\ cons' \in ConsType /\ cons.at = "take" /\ cons'.at = "front"
        /\ cons'.op = cons.op /\ cons'.wasEmpty = cons.wasEmpty
    BY <2>3, ConsGoesFacts DEF ConsBusy
  <2>6. answer' = taken + 1  BY <2>3, <2>5, FirstItem
  <2>7. SlotSet(b, f, 0)  BY <2>3, SetSlot
  <2>8. /\ block' \in Seq(BlockType)
        /\ SizesKept /\ FrontsKept /\ TailsKept /\ LocalFrontsKept /\ LocalTailsKept
        /\ NextsKept
        /\ \A c \in Blocks : block'[c].data \in [0..(block[c].size - 1) -> Nat]
        /\ \A c \in Blocks : \A i \in 0..(block[c].size - 1) :
             block'[c].data[i] = IF c = b /\ i = f THEN 0 ELSE block[c].data[i]
    BY <2>7 DEF SlotSet
  <2>9. BlocksOK' /\ Blocks' = Blocks
    <3>1. \A c \in Blocks :
            /\ block'[c].data \in [0..(block[c].size - 1) -> Nat]
            /\ block'[c].front \in 0..(block[c].size - 1)
            /\ block'[c].tail \in 0..(block[c].size - 1)
            /\ block'[c].localFront \in 0..(block[c].size - 1)
            /\ block'[c].localTail \in 0..(block[c].size - 1)
      BY <2>8 DEF TypeOK, BlocksOK, FrontsKept, TailsKept, LocalFrontsKept, LocalTailsKept
    <3> QED BY <2>8, <3>1, BlocksOKStays DEF TypeOK
  <2>10. /\ puts \in Nat /\ taken \in Nat /\ tailBlock \in Blocks /\ prod.to \in Blocks
    BY DEF TypeOK, ProdType
  <2>11. TypeOK'
    <3>1. taken + 1 \in Nat  BY <2>10
    <3> QED BY <2>3, <2>5, <2>6, <2>9, <3>1 DEF TypeOK, ProdType
  <2>12. \A c \in Blocks : /\ Items(c)' = Items(c) /\ Full(c)' = Full(c)
                           /\ \A i : FromFront(c, i)' = FromFront(c, i)
    BY <2>8, ItemsKept
  <2>13. Items(b) > 0  BY <2>1, <2>4, <2>5, FrontHasItem
  <2>14. Shape(m, ring, T)'  BY <2>3, <2>4, <2>8, LengthNat, ShapeFrame DEF SizesKept
  <2>15. Views'  BY <2>4, <2>8, ViewsFrame
  <2>16. Room(m)'  BY <2>3, <2>4, <2>8, RoomFrame
  <2>17. Chain(m, ring, T, lo)'  BY <2>3, <2>4, <2>8, ChainFrame
  <2>18. Filled(lo)'
    <3> SUFFICES ASSUME prod.at # "gone",
                        NEW c \in Blocks, NEW i \in 0..(block[c].size - 1)
                 PROVE  block'[c].data[i] = Content(lo, c, FromFront(c, i))'
      BY <2>3, <2>8, <2>9 DEF Filled, SizesKept
    <3>1. block[c].data[i] = Content(lo, c, FromFront(c, i))  BY <2>4 DEF Filled
    <3>2. /\ block[c].size \in Nat /\ block[c].size > 1
          /\ block[c].front \in 0..(block[c].size - 1)
      BY <2>4, BlockFacts
    <3>3. FromFront(c, i) = 0 <=> i = block[c].front
      <4>1. PICK n \in Nat : n = block[c].size  BY <3>2
      <4>2. PICK x \in 0..(n - 1) : x = block[c].front  BY <3>2, <4>1
      <4>3. i \in 0..(n - 1)  BY <4>1
      <4>4. Dist(x, i, n) = 0 <=> x = i  BY <4>3 DEF Dist
      <4> QED BY <4>1, <4>2, <4>4 DEF FromFront
    <3>4. Items(c)' = Items(c) /\ FromFront(c, i)' = FromFront(c, i)  BY <2>12
    <3>5. CASE c = b /\ i = f
      <4>1. block'[c].data[i] = 0  BY <2>8, <3>5
      <4>2. FromFront(c, i) = 0  BY <2>2, <3>3, <3>5
      <4>3. FromFront(c, i) < Items(c)  BY <2>13, <3>5, <4>2
      <4> QED BY <2>1, <2>3, <2>5, <3>4, <3>5, <4>1, <4>2, <4>3 DEF Content
    <3>6. CASE ~(c = b /\ i = f)
      <4>1. block'[c].data[i] = block[c].data[i]  BY <2>8, <3>6
      <4>2. ~(FromFront(c, i) = 0 /\ c = frontBlock)  BY <2>1, <2>2, <3>3, <3>6
      <4> QED BY <2>3, <2>5, <3>1, <3>4, <4>1, <4>2 DEF Content
    <3> QED BY <3>5, <3>6
  <2>19. ProdInv(m, ring, T, lo)'
    <3>1. NextIsTo(m, ring, T) => NextIsTo(m, ring, T)'
      BY <2>3, <2>10, <2>12 DEF NextIsTo
    <3>2. Items(tailBlock)' = Items(tailBlock) /\ Items(prod.to)' = Items(prod.to)
      BY <2>3, <2>10, <2>12
    <3>3. T \in Nat /\ T <= T /\ taken' \in Nat /\ taken' >= taken  BY <2>3, <2>10
    <3> QED BY <2>3, <2>4, <2>8, <3>1, <3>2, <3>3, ProdStays
  <2>20. ConsInv(T)'
    <3>1. block'[frontBlock'].front # block'[frontBlock'].localTail
      <4>1. block[b].front # block[b].localTail  BY <2>1, <2>4, <2>5 DEF ConsInv
      <4> QED BY <2>1, <2>3, <2>8, <4>1 DEF FrontsKept, LocalTailsKept
    <3>2. ~cons.wasEmpty => puts > taken  BY <2>4, <2>5 DEF ConsInv, ConsBusy
    <3> QED BY <1>2, <2>3, <2>5, <2>6, <3>1, <3>2 DEF ConsInv, ConsBusy
  <2> QED BY <2>11, <2>14, <2>15, <2>16, <2>17, <2>18, <2>19, <2>20 DEF Good
<1> QED BY <1>1, <1>2

\* The front of a block with an item moves on: the block has one item less.
LEMMA FrontMoves ==
  ASSUME NEW m, Room(m), TypeOK, Views, NEW b \in Blocks,
         block[b].front # block[b].localTail,
         block' = [block EXCEPT ![b].front = After(b, block[b].front)]
  PROVE  /\ SizesKept /\ TailsKept /\ LocalFrontsKept /\ LocalTailsKept /\ NextsKept /\ DataKept
         /\ BlocksOK' /\ Blocks' = Blocks /\ Views'
         /\ Items(b) > 0 /\ Items(b)' = Items(b) - 1
         /\ \A c \in Blocks : c # b => Items(c)' = Items(c)
         /\ \A c \in Blocks : c # b => \A i : FromFront(c, i)' = FromFront(c, i)
         /\ \A i \in 0..(block[b].size - 1) : FromFront(b, i)' =
              IF FromFront(b, i) = 0 THEN block[b].size - 1 ELSE FromFront(b, i) - 1
<1> DEFINE n == block[b].size
           t == block[b].tail
           f == block[b].front
           u == After(b, f)
           l == block[b].localTail
<1>1. /\ n \in Nat /\ n > 1
      /\ f \in 0..(n - 1) /\ t \in 0..(n - 1) /\ l \in 0..(n - 1) /\ u \in 0..(n - 1)
      /\ block[b].localFront \in 0..(n - 1)
  BY BlockFacts
<1>2. u \in Nat  BY <1>1
<1>3. /\ block' \in Seq(BlockType)
      /\ SizesKept /\ TailsKept /\ LocalFrontsKept /\ LocalTailsKept /\ NextsKept /\ DataKept
      /\ \A c \in Blocks : block'[c].front = IF c = b THEN u ELSE block[c].front
  BY <1>2, SetFront
<1>4. BlocksOK' /\ Blocks' = Blocks
  <2>1. \A c \in Blocks :
          /\ block'[c].data \in [0..(block[c].size - 1) -> Nat]
          /\ block'[c].front \in 0..(block[c].size - 1)
          /\ block'[c].tail \in 0..(block[c].size - 1)
          /\ block'[c].localFront \in 0..(block[c].size - 1)
          /\ block'[c].localTail \in 0..(block[c].size - 1)
    <3>1. \A c \in Blocks : block'[c].front \in 0..(block[c].size - 1)
      BY <1>1, <1>3 DEF TypeOK, BlocksOK
    <3> QED BY <1>3, <3>1 DEF TypeOK, BlocksOK, TailsKept, LocalFrontsKept, LocalTailsKept, DataKept
  <2> QED BY <1>3, <2>1, BlocksOKStays DEF TypeOK
<1>5. \A c \in Blocks : c # b => \A i : FromFront(c, i)' = FromFront(c, i)
  BY <1>3 DEF FromFront, SizesKept
<1>6. \A c \in Blocks : c # b => Items(c)' = Items(c)
  BY <1>3 DEF Items, FromFront, SizesKept, TailsKept
<1>7. ASSUME NEW i \in 0..(n - 1)
      PROVE  FromFront(b, i)' = IF FromFront(b, i) = 0 THEN n - 1 ELSE FromFront(b, i) - 1
  <2>1. FromFront(b, i)' = Dist(u, i, n)  BY <1>3 DEF FromFront, SizesKept
  <2>2. Dist(u, i, n) = IF f = i THEN n - 1 ELSE Dist(f, i, n) - 1
    BY <1>1, DistShrinks DEF After
  <2>3. Dist(f, i, n) = 0 <=> f = i  BY <1>1, DistFacts
  <2> QED BY <2>1, <2>2, <2>3 DEF FromFront
<1>8. /\ FromFront(b, l) \in 0..(n - 1) /\ FromFront(b, l) # 0
      /\ FromFront(b, l) <= Items(b) /\ Items(b) \in 0..(n - 1)
      /\ Items(b) <= Dist(block[b].localFront, t, n)
      /\ Dist(block[b].localFront, t, n) \in 0..(n - 1)
  <2>1. FromFront(b, l) \in 0..(n - 1) /\ FromFront(b, l) # 0
    BY <1>1, DistFacts DEF FromFront
  <2> QED BY <1>1, <2>1, DistFacts DEF Views, Items, FromFront
<1>9. Items(b) > 0  BY <1>1, <1>8
<1>10. Items(b)' = Items(b) - 1
  <2>1. Items(b)' = FromFront(b, t)'  BY <1>3 DEF Items, TailsKept
  <2>2. FromFront(b, t) = Items(b)  BY DEF Items
  <2> QED BY <1>1, <1>7, <1>9, <2>1, <2>2
<1>11. Views'
  <2>1. \A c \in Blocks : c # b =>
          /\ Items(c)' <= Dist(block'[c].localFront, block'[c].tail, block'[c].size)
          /\ FromFront(c, block[c].localTail)' <= Items(c)'
    BY <1>3, <1>5, <1>6 DEF Views, SizesKept, TailsKept, LocalFrontsKept, LocalTailsKept
  <2>2. Items(b)' <= Dist(block'[b].localFront, block'[b].tail, block'[b].size)
    <3>1. Dist(block'[b].localFront, block'[b].tail, block'[b].size)
            = Dist(block[b].localFront, t, n)
      BY <1>3 DEF SizesKept, TailsKept, LocalFrontsKept
    <3> QED BY <1>1, <1>8, <1>10, <3>1
  <2>3. FromFront(b, block[b].localTail)' <= Items(b)'
    <3>1. FromFront(b, block[b].localTail)' = FromFront(b, l)'
      BY <1>3 DEF LocalTailsKept, FromFront
    <3>2. FromFront(b, block[b].localTail)' = FromFront(b, l) - 1
      <4>1. block'[b].localTail = l  BY <1>3 DEF LocalTailsKept
      <4>2. PICK i \in 0..(n - 1) : i = l  BY <1>1
      <4>3. FromFront(b, i)' = FromFront(b, i) - 1  BY <1>7, <1>8, <4>2
      <4> QED BY <4>1, <4>2, <4>3 DEF FromFront
    <3> QED BY <1>1, <1>8, <1>10, <3>2
  <2> QED BY <1>4, <2>1, <2>2, <2>3 DEF Views
<1> QED BY <1>3, <1>4, <1>5, <1>6, <1>7, <1>9, <1>10, <1>11

\* The consumer gives up the slot of the first item, which is taken now.
LEMMA GiveUpSlotStep ==
  ASSUME NEW m \in Nat, NEW ring \in [Nat -> Nat], NEW T \in 0..(m - 1), NEW lo \in [Nat -> Nat],
         TypeOK, Good(m, ring, T, lo), GiveUpSlot
  PROVE  TypeOK' /\ \E lo1 \in [Nat -> Nat] :
           /\ \A i \in 0..(m - 1) : lo1[ring[i]] = IF i = 0 THEN taken' ELSE lo[ring[i]]
           /\ Good(m, ring, T, lo1)'
<1>1. PICK b \in Blocks : frontBlock = b  BY DEF TypeOK
<1>2. /\ ConsGoes("front", "idle")
      /\ block' = [block EXCEPT ![b].front = After(b, block[b].front)]
      /\ taken' = taken + 1
      /\ frontBlock' = b /\ answer' = answer
      /\ made' = made /\ tailBlock' = tailBlock /\ largestBlockSize' = largestBlockSize
      /\ prod' = prod /\ puts' = puts
  BY <1>1 DEF GiveUpSlot, ConsumerOnly
<1>3. /\ Shape(m, ring, T) /\ Views /\ Filled(lo) /\ Room(m)
      /\ Chain(m, ring, T, lo) /\ ProdInv(m, ring, T, lo) /\ ConsInv(T)
  BY DEF Good
<1>4. /\ cons' \in ConsType /\ cons.at = "front" /\ cons'.at = "idle"
  BY <1>2, ConsGoesFacts DEF Free
<1>5. block[b].front # block[b].localTail  BY <1>1, <1>3, <1>4 DEF ConsInv
<1>6. /\ SizesKept /\ TailsKept /\ LocalFrontsKept /\ LocalTailsKept /\ NextsKept /\ DataKept
      /\ BlocksOK' /\ Blocks' = Blocks /\ Views'
      /\ Items(b) > 0 /\ Items(b)' = Items(b) - 1
      /\ \A c \in Blocks : c # b => Items(c)' = Items(c)
      /\ \A c \in Blocks : c # b => \A i : FromFront(c, i)' = FromFront(c, i)
      /\ \A i \in 0..(block[b].size - 1) : FromFront(b, i)' =
           IF FromFront(b, i) = 0 THEN block[b].size - 1 ELSE FromFront(b, i) - 1
  BY <1>2, <1>3, <1>5, FrontMoves
<1>7. /\ \A i \in 0..(m - 1) : ring[i] \in Blocks
      /\ \A i \in 0..(m - 1) : i # 0 => ring[i] # b
      /\ \A i \in 0..(m - 1) : ring[i] \in 1..m
      /\ ring[0] = b /\ ring[T] = tailBlock
      /\ 0 \in 0..(m - 1) /\ T \in 0..(m - 1)
  <2>1. Circle(m, ring, T) /\ \A i \in 0..(m - 1) : ring[i] \in 1..m  BY <1>3 DEF Shape
  <2>2. /\ \A i \in 0..(m - 1) : ring[i] \in Blocks
        /\ ring[0] = b /\ ring[T] = tailBlock
        /\ 0 \in 0..(m - 1) /\ T \in 0..(m - 1)
    BY <1>1, <2>1 DEF Circle
  <2>3. \A i, j \in 0..(m - 1) : ring[i] = ring[j] => i = j  BY <2>1 DEF Circle
  <2>4. \A i \in 0..(m - 1) : i # 0 => ring[i] # b  BY <2>2, <2>3
  <2> QED BY <2>1, <2>2, <2>4
<1>8. /\ puts \in Nat /\ taken \in Nat /\ tailBlock \in Blocks /\ prod.to \in Blocks
      /\ 1 \in Blocks
  BY <1>3, ShapeFacts DEF TypeOK, ProdType
<1>9. /\ lo[b] = taken
      /\ block[b].size \in Nat /\ Items(b) \in Nat /\ Items(b) <= block[b].size - 1
  <2>1. lo[b] = taken  BY <1>1, <1>3, ChainEnds
  <2>2. /\ block[b].size \in Nat /\ Items(b) \in 0..(block[b].size - 1)
    BY <1>3, BlockFacts
  <2> QED BY <2>1, <2>2
<1>10. TypeOK'
  <2>1. prod.at # "gone" /\ taken + 1 \in Nat  BY <1>4, <1>8 DEF TypeOK
  <2> QED BY <1>1, <1>2, <1>4, <1>6, <2>1 DEF TypeOK, ProdType
<1>11. Room(m)'  BY <1>2, <1>3, <1>6, RoomFrame
<1>12. Shape(m, ring, T)'
  BY <1>1, <1>2, <1>3, <1>6, LengthNat, ShapeFrame DEF SizesKept
<1>13. PICK lo1 \in [Nat -> Nat] :
         /\ lo1[b] = taken + 1
         /\ \A c \in Blocks : c # b => lo1[c] = lo[c]
  <2>1. b \in Nat  BY DEF Blocks
  <2>2. taken + 1 \in Nat  BY <1>8
  <2> [lo EXCEPT ![b] = taken + 1] \in [Nat -> Nat]  BY <2>2
  <2> WITNESS [lo EXCEPT ![b] = taken + 1] \in [Nat -> Nat]
  <2> QED BY <2>1
<1>14. Filled(lo1)'
  <2> SUFFICES ASSUME prod.at # "gone",
                      NEW c \in Blocks, NEW i \in 0..(block[c].size - 1)
               PROVE  block'[c].data[i] = Content(lo1, c, FromFront(c, i))'
    BY <1>2, <1>6 DEF Filled, SizesKept
  <2>1. block'[c].data[i] = Content(lo, c, FromFront(c, i))
    BY <1>3, <1>6 DEF Filled, DataKept
  <2>2. FromFront(c, i) \in Nat /\ Items(c) \in Nat
    <3>1. block[c].size \in Nat /\ FromFront(c, i) \in 0..(block[c].size - 1)
      BY <1>3, BlockFacts
    <3> QED BY <1>3, <3>1, BlockNats
  <2>3. CASE c # b
    <3>1. FromFront(c, i)' = FromFront(c, i) /\ Items(c)' = Items(c) /\ lo1[c] = lo[c]
      BY <1>6, <1>13, <2>3
    <3> QED BY <1>1, <1>2, <1>4, <2>1, <2>3, <3>1 DEF Content
  <2>4. CASE c = b
    <3>1. i \in 0..(block[b].size - 1)  BY <2>4
    <3>2. FromFront(b, i)' =
            IF FromFront(b, i) = 0 THEN block[b].size - 1 ELSE FromFront(b, i) - 1
      BY <1>6, <3>1
    <3>3. CASE FromFront(b, i) = 0
      <4>1. block'[c].data[i] = 0  BY <1>1, <1>4, <1>6, <2>1, <2>4, <3>3 DEF Content
      <4>2. FromFront(b, i)' = block[b].size - 1 /\ Items(b)' < block[b].size - 1
        BY <1>6, <1>9, <3>2, <3>3
      <4>3. ~(FromFront(b, i)' < Items(b)') /\ FromFront(b, i)' # Items(b)'
        BY <1>6, <1>9, <4>2
      <4> QED BY <2>4, <4>1, <4>3 DEF Content
    <3>4. CASE FromFront(b, i) # 0
      <4>1. FromFront(b, i)' = FromFront(b, i) - 1 /\ Items(b)' = Items(b) - 1
        BY <1>6, <3>2, <3>4
      <4>2. /\ FromFront(b, i)' < Items(b)' <=> FromFront(b, i) < Items(b)
            /\ FromFront(b, i)' = Items(b)' <=> FromFront(b, i) = Items(b)
        BY <1>9, <2>2, <2>4, <4>1
      <4>3. lo1[b] + FromFront(b, i)' + 1 = lo[b] + FromFront(b, i) + 1
        BY <1>8, <1>9, <1>13, <2>2, <2>4, <4>1
      <4> QED BY <1>2, <1>4, <2>1, <2>4, <3>4, <4>2, <4>3 DEF Content
    <3> QED BY <3>3, <3>4
  <2> QED BY <2>3, <2>4
<1>15. Chain(m, ring, T, lo1)'
  <2>1. \A i \in 0..(m - 1) : i # 0 =>
          Items(ring[i])' = Items(ring[i]) /\ lo1[ring[i]] = lo[ring[i]]
    BY <1>6, <1>7, <1>13
  <2>2. lo1[ring[0]] + Items(ring[0])' = lo[ring[0]] + Items(ring[0])
    BY <1>6, <1>7, <1>8, <1>9, <1>13
  <2>3. \A i \in 0..(m - 1) : lo1[ring[i]] + Items(ring[i])' = lo[ring[i]] + Items(ring[i])
    BY <2>1, <2>2
  <2>4. lo1[ring[0]] = taken'  BY <1>2, <1>7, <1>13
  <2>5. ASSUME NEW i \in 0..T, NEW j \in 0..T, j = i + 1
        PROVE  lo1[ring[j]] = lo1[ring[i]] + Items(ring[i])'
    <3>1. i \in 0..(m - 1) /\ j \in 0..(m - 1) /\ j # 0  BY <2>5
    <3>2. lo[ring[j]] = lo[ring[i]] + Items(ring[i])  BY <1>3, <2>5 DEF Chain
    <3> QED BY <2>1, <2>3, <3>1, <3>2
  <2>6. puts' = lo1[ring[T]] + Items(ring[T])'
    <3>1. puts = lo[ring[T]] + Items(ring[T])  BY <1>3 DEF Chain
    <3> QED BY <1>2, <1>7, <2>3, <3>1
  <2>7. \A i \in 1..T : Items(ring[i])' > 0
    <3>1. \A i \in 1..T : i \in 0..(m - 1) /\ i # 0  OBVIOUS
    <3> QED BY <1>3, <2>1, <3>1 DEF Chain
  <2>8. \A i \in (T + 1)..(m - 1) :
          (prod'.at = "advance" /\ ring[i] = prod'.to) \/ Items(ring[i])' = 0
    <3>1. \A i \in (T + 1)..(m - 1) : i \in 0..(m - 1) /\ i # 0  OBVIOUS
    <3> QED BY <1>2, <1>3, <2>1, <3>1 DEF Chain
  <2>9. Counted(ring, T, lo1)'
    <3>1. \A i \in 1..T : lo1[ring[i]] = lo[ring[i]]
      <4>1. \A i \in 1..T : i \in 0..(m - 1) /\ i # 0  OBVIOUS
      <4> QED BY <2>1, <4>1
    <3>2. block'[1].size = block[1].size  BY <1>6, <1>8 DEF SizesKept
    <3> QED BY <1>3, <3>1, <3>2 DEF Chain, Counted
  <2> QED BY <2>4, <2>5, <2>6, <2>7, <2>8, <2>9 DEF Chain
<1>16. ProdInv(m, ring, T, lo1)'
  <2>1. T >= 1 => Items(tailBlock)' = Items(tailBlock)
    <3>1. T >= 1 => tailBlock # b  BY <1>7
    <3> QED BY <1>2, <1>6, <1>8, <3>1
  <2>2. T >= 1 => Full(tailBlock)' = Full(tailBlock)
    <3>1. block'[tailBlock].size = block[tailBlock].size  BY <1>6, <1>8 DEF SizesKept
    <3> QED BY <1>2, <2>1, <3>1 DEF Full
  <2>3. NextIsTo(m, ring, T) => NextIsTo(m, ring, T)'  BY <1>2, <2>2 DEF NextIsTo
  <2>4. prod.at \in {"link", "advance"} => prod.to # b
    <3>1. CASE prod.at = "link"
      <4>1. prod.to = m + 1 /\ b \in 1..m  BY <1>3, <1>7, <3>1 DEF ProdInv
      <4> QED BY <4>1
    <3>2. CASE prod.at = "advance"
      <4>1. T + 1 <= m - 1 /\ prod.to = ring[T + 1]  BY <1>3, <3>2 DEF ProdInv, NextIsTo
      <4>2. T + 1 \in 0..(m - 1) /\ T + 1 # 0  BY <4>1
      <4> QED BY <1>7, <4>1, <4>2
    <3> QED BY <3>1, <3>2
  <2>5. prod.at \in {"link", "advance"} =>
          lo1[prod.to] = lo[prod.to] /\ Items(prod.to)' = Items(prod.to)
    BY <1>2, <1>6, <1>8, <1>13, <2>4
  <2>6. T \in Nat /\ T <= T /\ taken' \in Nat /\ taken' >= taken  BY <1>2, <1>8
  <2> QED BY <1>2, <1>3, <1>6, <2>1, <2>3, <2>5, <2>6, ProdStays
<1>17. ConsInv(T)'  BY <1>4 DEF ConsInv, ConsBusy
<1>18. Good(m, ring, T, lo1)'
  BY <1>6, <1>11, <1>12, <1>14, <1>15, <1>16, <1>17 DEF Good
<1>19. ASSUME NEW i \in 0..(m - 1)
       PROVE  lo1[ring[i]] = IF i = 0 THEN taken' ELSE lo[ring[i]]
  BY <1>2, <1>7, <1>13
<1> QED BY <1>10, <1>18, <1>19

----------------------------------------------------------------------------
(* size_approx, by either thread, and the destructor.                      *)

\* size_approx moves the calling thread and touches nothing else.
LEMMA SizeSteps ==
  ASSUME NEW m \in Nat, NEW ring \in [Nat -> Nat], NEW T \in 0..(m - 1), NEW lo \in [Nat -> Nat],
         TypeOK, Good(m, ring, T, lo), NEW t \in Threads,
         SizeApprox(t) \/ SizeStep(t) \/ SizeReturn(t)
  PROVE  TypeOK' /\ Good(m, ring, T, lo)'
<1>1. PICK from \in {"idle", "size", "sized"}, to \in {"idle", "size", "sized"} :
        /\ SizeGoes(t, from, to)
        /\ UNCHANGED <<made, indexVars, puts, taken, answer>>
  BY DEF SizeApprox, SizeStep, SizeReturn
<1>2. from \in Free /\ to \in Free /\ to # "gone" /\ from # "gone"  BY DEF Free
<1>3. \A at \in Free : at \notin Busy /\ at \notin ConsBusy  BY DEF Free, Busy, ConsBusy
<1>4. puts' = puts /\ taken' = taken /\ answer' = answer  BY <1>1
<1>5. CASE t = "producer"
  <2>1. ProdGoes(from, to) /\ cons' = cons  BY <1>1, <1>5 DEF SizeGoes
  <2>2. to \in Free \cup Busy  BY <1>2
  <2>3. /\ prod' \in ProdType /\ prod.at = from /\ prod'.at = to
        /\ to # "idle" => prod'.held = prod.held
        /\ to = "idle" => prod'.held = 0
    BY <2>1, <2>2, ProdGoesFacts
  <2>4. prod'.held = 0  BY <1>2, <2>3 DEF Good, ProdInv
  <2>5. ProdInv(m, ring, T, lo)'  BY <1>1, <2>3, <2>4 DEF ProdInv, Busy
  <2>6. /\ prod.at \notin {"advance", "publish", "link", "gone"}
        /\ prod'.at \notin {"advance", "publish", "link", "gone"}
    BY <1>1, <2>3
  <2> QED BY <1>1, <2>1, <2>3, <2>5, <2>6, ProducerMoves DEF indexVars
<1>6. CASE t = "consumer"
  <2>1. ConsGoes(from, to) /\ prod' = prod  BY <1>1, <1>6, <1>5 DEF SizeGoes
  <2>2. to \in Free \cup ConsBusy  BY <1>2
  <2>3. cons' \in ConsType /\ cons.at = from /\ cons'.at = to
    BY <2>1, <2>2, ConsGoesFacts
  <2>4. ConsInv(T)'  BY <1>1, <2>3 DEF ConsInv, ConsBusy
  <2>5. answer' \in Nat  BY <1>4 DEF TypeOK
  <2> QED BY <1>1, <2>1, <2>3, <2>4, <2>5, ConsumerMoves
<1> QED BY <1>5, <1>6 DEF Threads

\* The window from front to tail is as long as from the one to the other.
LEMMA WindowLength ==
  ASSUME NEW n \in Nat, n > 1, NEW x \in 0..(n - 1), NEW y \in 0..(n - 1)
  PROVE  (y + n - x) % n = Dist(x, y, n)
<1>1. \A a \in 0..(2 * n - 1) : a % n = IF a < n THEN a ELSE a - n  BY SMT
<1>2. y + n - x \in 0..(2 * n - 1)  OBVIOUS
<1>3. (y + n - x) % n = IF y + n - x < n THEN y + n - x ELSE y + n - x - n  BY <1>1, <1>2
<1> QED BY <1>3 DEF Dist

\* What lies outside the window from front to tail is empty already.
LEMMA WindowIsItems ==
  ASSUME NEW n \in Nat, n > 1, NEW x \in 0..(n - 1), NEW y \in 0..(n - 1), NEW i \in 0..(n - 1),
         Dist(x, i, n) < Dist(x, y, n)
  PROVE  \E k \in 1..((y + n - x) % n) : (x + (k - 1)) % n = i
<1>1. \A a \in 0..(2 * n - 1) : a % n = IF a < n THEN a ELSE a - n  BY SMT
<1>2. (y + n - x) % n = Dist(x, y, n)  BY WindowLength
<1>3. Dist(x, i, n) \in 0..(n - 1) /\ Dist(x, y, n) \in 0..(n - 1)  BY DistFacts
<1> DEFINE k == Dist(x, i, n) + 1
<1>4. k \in 1..Dist(x, y, n)  BY <1>3
<1>5. (x + (k - 1)) % n = i
  <2>1. x + (k - 1) = x + Dist(x, i, n)  BY <1>3
  <2>2. x + Dist(x, i, n) = IF i >= x THEN i ELSE i + n  BY DEF Dist
  <2>3. x + Dist(x, i, n) \in 0..(2 * n - 1)  BY <2>2
  <2> QED BY <1>1, <2>1, <2>2, <2>3
<1> QED BY <1>2, <1>4, <1>5

\* The destructor leaves every slot empty.
LEMMA DestroyStep ==
  ASSUME NEW m \in Nat, NEW ring \in [Nat -> Nat], NEW T \in 0..(m - 1), NEW lo \in [Nat -> Nat],
         TypeOK, Good(m, ring, T, lo), Destroy
  PROVE  /\ TypeOK' /\ Good(m, ring, T, lo)'
         /\ \A b \in Blocks : \A i \in 0..(block[b].size - 1) : block'[b].data[i] = 0
         /\ \A b \in Blocks : block'[b].data \in [0..(block[b].size - 1) -> Nat]
         /\ \A b \in Blocks : block[b].size \in Nat /\ block[b].size > 1
         /\ Blocks' = Blocks
<1>1. /\ prod.at = "idle" /\ cons.at = "idle"
      /\ prod' = [prod EXCEPT !.at = "gone"] /\ cons' = [cons EXCEPT !.at = "gone"]
      /\ block' = [b \in Blocks |-> [block[b] EXCEPT !.data = Emptied(b)]]
      /\ made' = made /\ frontBlock' = frontBlock /\ tailBlock' = tailBlock
      /\ largestBlockSize' = largestBlockSize
      /\ puts' = puts /\ taken' = taken /\ answer' = answer
  BY DEF Destroy, Blocks
<1>2. /\ Shape(m, ring, T) /\ Views /\ Filled(lo) /\ Room(m)
      /\ Chain(m, ring, T, lo) /\ ProdInv(m, ring, T, lo) /\ ConsInv(T)
  BY DEF Good
<1>3. Len(block) \in Nat  BY LengthNat
<1>4. \A b \in Blocks : block[b] \in BlockType /\ block[b].size \in Nat /\ block[b].size > 1
  BY <1>2, BlockFields, BlockFacts
<1>5. \A b \in Blocks : Emptied(b) \in [0..(block[b].size - 1) -> Nat] /\ Emptied(b) \in DataFns
  <2> SUFFICES ASSUME NEW b \in Blocks
               PROVE  Emptied(b) \in [0..(block[b].size - 1) -> Nat] /\ Emptied(b) \in DataFns
    OBVIOUS
  <2>1. block[b].data \in [0..(block[b].size - 1) -> Nat]  BY DEF TypeOK, BlocksOK
  <2>2. Emptied(b) \in [0..(block[b].size - 1) -> Nat]  BY <2>1 DEF Emptied
  <2> QED BY <1>4, <2>2 DEF DataFns
<1>6. \A b \in Blocks :
        /\ block'[b] \in BlockType /\ block'[b].data = Emptied(b)
        /\ block'[b].size = block[b].size /\ block'[b].front = block[b].front
        /\ block'[b].tail = block[b].tail /\ block'[b].localFront = block[b].localFront
        /\ block'[b].localTail = block[b].localTail /\ block'[b].next = block[b].next
  <2> SUFFICES ASSUME NEW b \in Blocks
               PROVE
        /\ block'[b] \in BlockType /\ block'[b].data = Emptied(b)
        /\ block'[b].size = block[b].size /\ block'[b].front = block[b].front
        /\ block'[b].tail = block[b].tail /\ block'[b].localFront = block[b].localFront
        /\ block'[b].localTail = block[b].localTail /\ block'[b].next = block[b].next
    OBVIOUS
  <2>1. block'[b] = [block[b] EXCEPT !.data = Emptied(b)]  BY <1>1
  <2>2. block[b] \in BlockType /\ Emptied(b) \in DataFns  BY <1>4, <1>5
  <2> QED BY <2>1, <2>2 DEF BlockType
<1>7. block' \in Seq(BlockType) /\ Len(block') = Len(block)
  <2>1. \A b \in Blocks : [block[b] EXCEPT !.data = Emptied(b)] \in BlockType
    BY <1>1, <1>6
  <2>2. block' \in [Blocks -> BlockType]  BY <1>1, <2>1
  <2>3. \A n \in Nat : \A f \in [1..n -> BlockType] : f \in Seq(BlockType) /\ Len(f) = n
    OBVIOUS
  <2> QED BY <1>3, <2>2, <2>3 DEF Blocks
<1>8. /\ SizesKept /\ FrontsKept /\ TailsKept /\ LocalFrontsKept /\ LocalTailsKept /\ NextsKept
  BY <1>6, <1>7 DEF SizesKept, FrontsKept, TailsKept, LocalFrontsKept, LocalTailsKept, NextsKept
<1>9. BlocksOK' /\ Blocks' = Blocks
  <2>1. \A c \in Blocks :
          /\ block'[c].data \in [0..(block[c].size - 1) -> Nat]
          /\ block'[c].front \in 0..(block[c].size - 1)
          /\ block'[c].tail \in 0..(block[c].size - 1)
          /\ block'[c].localFront \in 0..(block[c].size - 1)
          /\ block'[c].localTail \in 0..(block[c].size - 1)
    BY <1>5, <1>6 DEF TypeOK, BlocksOK
  <2> QED BY <1>7, <1>8, <2>1, BlocksOKStays DEF TypeOK
<1>10. /\ prod' \in ProdType /\ prod'.at = "gone" /\ prod'.held = prod.held
       /\ cons' \in ConsType /\ cons'.at = "gone"
  BY <1>1 DEF TypeOK, ProdType, ConsType, Free
<1>11. TypeOK'  BY <1>1, <1>9, <1>10 DEF TypeOK, ProdType
<1>12. Shape(m, ring, T)'  BY <1>1, <1>2, <1>8, <1>10, LengthNat, ShapeFrame DEF SizesKept
<1>13. Views'  BY <1>2, <1>8, ViewsFrame
<1>14. Filled(lo)'  BY <1>10 DEF Filled
<1>15. Room(m)'  BY <1>1, <1>2, <1>8, RoomFrame
<1>16. Chain(m, ring, T, lo)'  BY <1>1, <1>2, <1>8, ChainFrame
<1>17. ProdInv(m, ring, T, lo)'
  <2>1. prod'.held = 0  BY <1>1, <1>2, <1>10 DEF ProdInv, Free
  <2> QED BY <1>10, <2>1 DEF ProdInv, Busy
<1>18. ConsInv(T)'  BY <1>10 DEF ConsInv, ConsBusy
<1>19. ASSUME NEW b \in Blocks, NEW i \in 0..(block[b].size - 1)
       PROVE  block'[b].data[i] = 0
  <2>1. block'[b].data[i] =
          IF i \in Range(WindowOf(block[b])) THEN 0 ELSE block[b].data[i]
    BY <1>6 DEF Emptied
  <2>2. block[b].data[i] = Content(lo, b, FromFront(b, i))  BY <1>1, <1>2 DEF Filled
  <2>3. /\ block[b].size \in Nat /\ block[b].size > 1
        /\ block[b].front \in 0..(block[b].size - 1)
        /\ block[b].tail \in 0..(block[b].size - 1)
    BY <1>2, BlockFacts
  <2>4. CASE FromFront(b, i) < Items(b)
    <3>1. Dist(block[b].front, i, block[b].size) < Dist(block[b].front, block[b].tail, block[b].size)
      BY <2>4 DEF FromFront, Items
    <3>2. \E k \in 1..((block[b].tail + block[b].size - block[b].front) % block[b].size) :
            (block[b].front + (k - 1)) % block[b].size = i
      BY <2>3, <3>1, WindowIsItems
    <3>3. i \in Range(WindowOf(block[b]))  BY <3>2 DEF Range, WindowOf
    <3> QED BY <2>1, <3>3
  <2>5. CASE ~(FromFront(b, i) < Items(b))
    <3>1. block[b].data[i] = 0  BY <1>1, <2>2, <2>5 DEF Content
    <3> QED BY <2>1, <3>1
  <2> QED BY <2>4, <2>5
<1> QED BY <1>4, <1>5, <1>6, <1>9, <1>11, <1>12, <1>13, <1>14, <1>15, <1>16, <1>17, <1>18,
           <1>19 DEF Good

----------------------------------------------------------------------------
(* What size_approx returns.                                               *)

\* The numbers the walk compares.
LEMMA SizingNats ==
  ASSUME TypeOK, OneMeasures
  PROVE  /\ sizing.sum \in Nat /\ sizing.had \in Nat /\ puts \in Nat /\ taken \in Nat
         /\ InFlight \in {0, 1}
BY DEF TypeOK, OneMeasures, SizingType, InFlight

\* Steps of a thread that is not counting, and do not change the circle.
ProducerMoved ==
  /\ prod.at \notin Measuring /\ prod'.at \notin Measuring
  /\ cons' = cons /\ sizing' = sizing /\ taken' = taken /\ frontBlock' = frontBlock
  /\ puts' \in Nat /\ puts' >= puts /\ puts' + InFlight' >= puts + InFlight
ConsumerMoved ==
  /\ cons.at \notin Measuring /\ cons'.at \notin Measuring
  /\ prod' = prod /\ sizing' = sizing /\ puts' = puts
  /\ taken' \in Nat /\ taken' >= taken

\* While the consumer counts, or nobody, the producer adds items to the tail
\* block or to the one after it; no count that was right becomes wrong.
LEMMA SizeProducer ==
  ASSUME NEW m \in Nat, NEW ring \in [Nat -> Nat], NEW T \in 0..(m - 1),
         NEW lo \in [Nat -> Nat], NEW lo1 \in [Nat -> Nat],
         TypeOK, SizeInv(m, ring, T, lo), ProducerMoved,
         \A i \in 0..T : lo1[ring[i]] = lo[ring[i]]
  PROVE  SizeInv(m, ring, T, lo1)'
<1> USE DEF ProducerMoved
<1>1. /\ sizing.sum \in Nat /\ sizing.had \in Nat /\ puts \in Nat /\ taken \in Nat
      /\ InFlight \in {0, 1} /\ InFlight' \in {0, 1}
  BY SizingNats DEF SizeInv, InFlight
<1>2. OneMeasures'  BY DEF SizeInv, OneMeasures
<1>3. SizeInRange'
  <2>1. cons.at = "sized" => sizing.sum \in sizing.had..(puts - taken + InFlight)
    BY DEF SizeInv, SizeInRange, Length
  <2>2. PICK s, h, a, b, k, f, g :
          /\ s = sizing.sum /\ h = sizing.had /\ a = puts /\ b = puts' /\ k = taken
          /\ f = InFlight /\ g = InFlight'
    OBVIOUS
  <2>3. s \in h..(a - k + f) => s \in h..(b - k + g)
    <3>1. /\ s \in Nat /\ h \in Nat /\ a \in Nat /\ b \in Nat /\ k \in Nat
          /\ f \in {0, 1} /\ g \in {0, 1} /\ b + g >= a + f
      BY <1>1, <2>2
    <3> QED BY ONLY <3>1
  <2>4. cons.at = "sized" => sizing.sum \in sizing.had..(puts' - taken + InFlight')
    BY <2>1, <2>2, <2>3
  <2> QED BY <2>4 DEF SizeInRange, Measuring, Length
<1>4. ConsWalks(m, ring, T, lo1)'
  <2> SUFFICES ASSUME cons.at = "size" PROVE \E p \in 0..(m - 1) : ConsWalk(ring, T, lo1, p)'
    BY DEF ConsWalks
  <2>1. PICK p \in 0..(m - 1) : ConsWalk(ring, T, lo, p)  BY DEF SizeInv, ConsWalks
  <2>2. p <= T => lo1[ring[p]] = lo[ring[p]]
    <3>1. p <= T => p \in 0..T  OBVIOUS
    <3> QED BY <3>1
  <2>3. sizing.had + taken <= puts'  BY <1>1, <2>1 DEF ConsWalk
  <2>4. PICK s, a, b, f, g :
          s = sizing.sum + taken /\ a = puts /\ b = puts' /\ f = InFlight /\ g = InFlight'
    OBVIOUS
  <2>5. /\ s <= a + 0 => s <= b + 0
        /\ s <= a + f => s <= b + g
    <3>1. /\ s \in Nat /\ a \in Nat /\ b \in Nat /\ f \in {0, 1} /\ g \in {0, 1}
          /\ b >= a /\ b + g >= a + f
      BY <1>1, <2>4
    <3> QED BY ONLY <3>1
  <2>6. ConsWalk(ring, T, lo1, p)'  BY <2>1, <2>2, <2>3, <2>4, <2>5 DEF ConsWalk
  <2> QED BY <2>6
<1>5. ProdWalks(m, ring, T, lo1)'  BY DEF ProdWalks, Measuring
<1> QED BY <1>2, <1>3, <1>4, <1>5 DEF SizeInv

\* While the producer counts, or nobody, the consumer takes an item of the front
\* block.
LEMMA SizeConsumer ==
  ASSUME NEW m \in Nat, NEW ring \in [Nat -> Nat], NEW T \in 0..(m - 1),
         NEW lo \in [Nat -> Nat], NEW lo1 \in [Nat -> Nat],
         TypeOK, SizeInv(m, ring, T, lo), lo[ring[0]] = taken, ConsumerMoved,
         \A i \in 0..(m - 1) : lo1[ring[i]] = IF i = 0 THEN taken' ELSE lo[ring[i]]
  PROVE  SizeInv(m, ring, T, lo1)'
<1> USE DEF ConsumerMoved
<1>1. /\ sizing.sum \in Nat /\ sizing.had \in Nat /\ puts \in Nat /\ taken \in Nat
  BY SizingNats DEF SizeInv
<1>2. OneMeasures'  BY DEF SizeInv, OneMeasures
<1>3. SizeInRange'
  <2>1. prod.at = "sized" => sizing.sum \in (puts - taken)..sizing.had
    BY DEF SizeInv, SizeInRange, Length
  <2>2. prod.at = "sized" => sizing.sum \in (puts - taken')..sizing.had
    BY <1>1, <2>1
  <2> QED BY <2>2 DEF SizeInRange, Measuring, Length
<1>4. ProdWalks(m, ring, T, lo1)'
  <2> SUFFICES ASSUME prod.at = "size"
               PROVE  \E p, r \in 0..(m - 1) : ProdWalk(ring, T, lo1, p, r)'
    BY DEF ProdWalks
  <2>1. PICK p \in 0..(m - 1), r \in 0..(m - 1) : ProdWalk(ring, T, lo, p, r)
    BY DEF SizeInv, ProdWalks
  <2>2. PICK x, y : x = lo[ring[p]] /\ y = lo1[ring[p]]  OBVIOUS
  <2>3. x \in Nat /\ (p = 0 => x = taken) /\ y = IF p = 0 THEN taken' ELSE x
    BY <2>2
  <2>4. puts <= taken' + sizing.had  BY <1>1, <2>1 DEF ProdWalk
  <2>5. p <= T => y <= sizing.sum + taken' /\ sizing.sum + puts <= y + sizing.had
    <3>1. p <= T => x <= sizing.sum + taken /\ sizing.sum + puts <= x + sizing.had
      BY <2>1, <2>2 DEF ProdWalk
    <3> QED BY <1>1, <2>3, <3>1
  <2>6. /\ sizing.sum + puts <= taken + sizing.had => sizing.sum + puts <= taken' + sizing.had
        /\ puts <= sizing.sum + taken => puts <= sizing.sum + taken'
    BY <1>1
  <2>7. ProdWalk(ring, T, lo1, p, r)'  BY <2>1, <2>2, <2>4, <2>5, <2>6 DEF ProdWalk
  <2> QED BY <2>7
<1>5. ConsWalks(m, ring, T, lo1)'  BY DEF ConsWalks, Measuring
<1> QED BY <1>2, <1>3, <1>4, <1>5 DEF SizeInv

\* The producer links a block behind the tail block: the blocks beyond move on by
\* one position.
LEMMA SizeLink ==
  ASSUME NEW m \in Nat, NEW ring \in [Nat -> Nat], NEW T \in 0..(m - 1),
         NEW lo \in [Nat -> Nat], NEW ring1 \in [Nat -> Nat],
         TypeOK, SizeInv(m, ring, T, lo),
         prod.at = "link", prod'.at = "advance", cons' = cons, sizing' = sizing,
         puts' = puts, taken' = taken, frontBlock' = frontBlock,
         \A i \in 0..(m - 1) : ring1[IF i <= T THEN i ELSE i + 1] = ring[i]
  PROVE  SizeInv(m + 1, ring1, T, lo)'
<1>1. /\ sizing.sum \in Nat /\ sizing.had \in Nat /\ puts \in Nat /\ taken \in Nat
      /\ InFlight = 0 /\ InFlight' = 1
  BY SizingNats DEF SizeInv, InFlight
<1>2. OneMeasures'  BY DEF SizeInv, OneMeasures, Measuring
<1>3. SizeInRange'
  <2>1. cons.at = "sized" => sizing.sum \in sizing.had..(puts - taken + InFlight)
    BY DEF SizeInv, SizeInRange, Length
  <2>2. cons.at = "sized" => sizing.sum \in sizing.had..(puts' - taken + InFlight')
    BY <1>1, <2>1
  <2> QED BY <2>2 DEF SizeInRange, Length
<1>4. ConsWalks(m + 1, ring1, T, lo)'
  <2> SUFFICES ASSUME cons.at = "size"
               PROVE  \E p \in 0..(m + 1 - 1) : ConsWalk(ring1, T, lo, p)'
    BY DEF ConsWalks
  <2>1. PICK p \in 0..(m - 1) : ConsWalk(ring, T, lo, p)  BY DEF SizeInv, ConsWalks
  <2> DEFINE q == IF p <= T THEN p ELSE p + 1
  <2>2. /\ q \in 0..(m + 1 - 1) /\ ring1[q] = ring[p]
        /\ q <= T => p <= T /\ q = p
        /\ q > T => p > T /\ q # T + 1
    OBVIOUS
  <2> HIDE DEF q
  <2>3. q > T => sizing.sum + taken <= puts + InFlight'
    <3>1. PICK s, a : s = sizing.sum + taken /\ a = puts  OBVIOUS
    <3>2. s \in Nat /\ a \in Nat  BY <1>1, <3>1
    <3>3. q > T => s <= a + 0  BY <1>1, <2>1, <2>2, <3>1 DEF ConsWalk
    <3>4. q > T => s <= a + 1  BY ONLY <3>2, <3>3
    <3> QED BY <1>1, <3>1, <3>4
  <2>4. ConsWalk(ring1, T, lo, q)'  BY <2>1, <2>2, <2>3 DEF ConsWalk
  <2> QED BY <2>2, <2>4
<1>5. ProdWalks(m + 1, ring1, T, lo)'  BY DEF ProdWalks
<1> QED BY <1>2, <1>3, <1>4, <1>5 DEF SizeInv

\* The producer advances to the next block, the item of which counts from now on.
LEMMA SizeAdvanceTail ==
  ASSUME NEW m \in Nat, NEW ring \in [Nat -> Nat], NEW T \in 0..(m - 1),
         NEW lo \in [Nat -> Nat], T + 1 \in 0..(m - 1), lo[ring[T + 1]] = puts,
         TypeOK, SizeInv(m, ring, T, lo),
         prod.at = "advance", prod'.at = "idle", cons' = cons, sizing' = sizing,
         puts' = puts + 1, taken' = taken, frontBlock' = frontBlock
  PROVE  SizeInv(m, ring, T + 1, lo)'
<1>1. /\ sizing.sum \in Nat /\ sizing.had \in Nat /\ puts \in Nat /\ taken \in Nat
      /\ InFlight = 1 /\ InFlight' = 0
  BY SizingNats DEF SizeInv, InFlight
<1>2. OneMeasures'  BY DEF SizeInv, OneMeasures, Measuring
<1>3. SizeInRange'
  <2>1. cons.at = "sized" => sizing.sum \in sizing.had..(puts - taken + InFlight)
    BY DEF SizeInv, SizeInRange, Length
  <2>2. cons.at = "sized" => sizing.sum \in sizing.had..(puts' - taken + InFlight')
    BY <1>1, <2>1
  <2> QED BY <2>2 DEF SizeInRange, Length
<1>4. ConsWalks(m, ring, T + 1, lo)'
  <2> SUFFICES ASSUME cons.at = "size"
               PROVE  \E p \in 0..(m - 1) : ConsWalk(ring, T + 1, lo, p)'
    BY DEF ConsWalks
  <2>1. PICK p \in 0..(m - 1) : ConsWalk(ring, T, lo, p)  BY DEF SizeInv, ConsWalks
  <2>2. PICK s, h, a, k, x :
          s = sizing.sum /\ h = sizing.had /\ a = puts /\ k = taken /\ x = lo[ring[p]]
    OBVIOUS
  <2>3. /\ s \in Nat /\ h \in Nat /\ a \in Nat /\ k \in Nat
        /\ p = T + 1 => x = a
        /\ h + k <= a
        /\ p <= T => s + k <= x /\ (s >= h \/ s + k = x)
        /\ p > T => s >= h /\ s + k <= a + IF p = T + 1 THEN 0 ELSE 1
    BY <1>1, <2>1, <2>2 DEF ConsWalk
  <2>4. /\ h + k <= a + 1
        /\ p <= T + 1 => s + k <= x /\ (s >= h \/ s + k = x)
        /\ p > T + 1 => s >= h /\ s + k <= a + 1 + IF p = T + 2 THEN 0 ELSE 0
    BY <2>3
  <2>5. ConsWalk(ring, T + 1, lo, p)'  BY <1>1, <2>1, <2>2, <2>4 DEF ConsWalk
  <2> QED BY <2>5
<1>5. ProdWalks(m, ring, T + 1, lo)'  BY DEF ProdWalks
<1> QED BY <1>2, <1>3, <1>4, <1>5 DEF SizeInv

\* The consumer moves on, the front block, which is empty, becomes the last of the
\* circle.
LEMMA SizeAdvanceFront ==
  ASSUME NEW m \in Nat, NEW ring \in [Nat -> Nat], NEW T \in 0..(m - 1),
         NEW lo \in [Nat -> Nat], NEW ring1 \in [Nat -> Nat], T >= 1, lo[ring[0]] = taken,
         TypeOK, SizeInv(m, ring, T, lo),
         cons.at = "advance", cons'.at = "take", prod' = prod, sizing' = sizing,
         puts' = puts, taken' = taken,
         \A i \in 0..(m - 1) : ring1[IF i = 0 THEN m - 1 ELSE i - 1] = ring[i]
  PROVE  SizeInv(m, ring1, T - 1, lo)'
<1>1. /\ sizing.sum \in Nat /\ sizing.had \in Nat /\ puts \in Nat /\ taken \in Nat
  BY SizingNats DEF SizeInv
<1>2. OneMeasures'  BY DEF SizeInv, OneMeasures, Measuring
<1>3. SizeInRange'  BY DEF SizeInv, SizeInRange, Length
<1>4. ProdWalks(m, ring1, T - 1, lo)'
  <2> SUFFICES ASSUME prod.at = "size"
               PROVE  \E p, r \in 0..(m - 1) : ProdWalk(ring1, T - 1, lo, p, r)'
    BY DEF ProdWalks
  <2>1. PICK p \in 0..(m - 1), r \in 0..(m - 1) : ProdWalk(ring, T, lo, p, r)
    BY DEF SizeInv, ProdWalks
  <2> DEFINE q == IF p = 0 THEN m - 1 ELSE p - 1
             u == IF r = 0 THEN m - 1 ELSE r - 1
  <2>2. /\ q \in 0..(m - 1) /\ ring1[q] = ring[p]
        /\ u \in 0..(m - 1) /\ ring1[u] = ring[r]
        /\ IF p = 0 THEN q = m - 1 ELSE q = p - 1
        /\ IF r = 0 THEN u = m - 1 ELSE u = r - 1
    OBVIOUS
  <2> HIDE DEF q, u
  <2>3. PICK s, h, a, k, x :
          s = sizing.sum /\ h = sizing.had /\ a = puts /\ k = taken /\ x = lo[ring[p]]
    OBVIOUS
  <2>4. /\ s \in Nat /\ h \in Nat /\ a \in Nat /\ k \in Nat
        /\ p = 0 => x = k
        /\ r = 0 \/ r > T
        /\ p <= T => x <= s + k /\ s + a <= x + h
        /\ p > T /\ 0 < r /\ r <= p => s + a <= k + h
        /\ p > T /\ (r = 0 \/ r > p) => s <= h /\ a <= s + k
    BY <1>1, <2>1, <2>3 DEF ProdWalk
  <2>5. u = 0 \/ u > T - 1  BY <2>2, <2>4
  <2>6. q <= T - 1 => x <= s + k /\ s + a <= x + h  BY <2>2, <2>4
  <2>7. q > T - 1 /\ 0 < u /\ u <= q => s + a <= k + h
    <3>1. CASE p = 0  BY <2>4, <3>1
    <3>2. CASE p # 0  BY <2>2, <2>4, <3>2
    <3> QED BY <3>1, <3>2
  <2>8. q > T - 1 /\ (u = 0 \/ u > q) => s <= h /\ a <= s + k  BY <2>2, <2>4
  <2>9. ProdWalk(ring1, T - 1, lo, q, u)'
    BY <2>1, <2>2, <2>3, <2>5, <2>6, <2>7, <2>8 DEF ProdWalk
  <2> QED BY <2>2, <2>9
<1>5. ConsWalks(m, ring1, T - 1, lo)'  BY DEF ConsWalks
<1> QED BY <1>2, <1>3, <1>4, <1>5 DEF SizeInv

\* The block after the one at position p, round the circle.
NextAt(m, p) == IF p = m - 1 THEN 0 ELSE p + 1

\* What the walk finds at position p: as many items as it counts there, and the
\* next block of the circle.
Position(m, ring, T, lo, p) ==
  /\ NextAt(m, p) \in 0..(m - 1) /\ block[ring[p]].next = ring[NextAt(m, p)]
  /\ ring[p] # 0 /\ ring[NextAt(m, p)] # 0
  /\ Len(WindowOf(block[ring[p]])) = Items(ring[p]) /\ Items(ring[p]) \in Nat
  /\ p < T => lo[ring[p + 1]] = lo[ring[p]] + Items(ring[p])
  /\ p = T => puts = lo[ring[p]] + Items(ring[p])
  /\ p > T => Items(ring[p]) <= IF p = T + 1 THEN InFlight ELSE 0

\* That is what it finds.
LEMMA WalkFacts ==
  ASSUME NEW m \in Nat, NEW ring \in [Nat -> Nat], NEW T \in 0..(m - 1),
         NEW lo \in [Nat -> Nat], TypeOK, Good(m, ring, T, lo), NEW p \in 0..(m - 1)
  PROVE  Position(m, ring, T, lo, p)
<1>1. /\ Shape(m, ring, T) /\ Room(m) /\ Chain(m, ring, T, lo) /\ ProdInv(m, ring, T, lo)
      /\ Circle(m, ring, T)
  BY DEF Good, Shape
<1>2. ring[p] \in Blocks /\ \A i \in 0..(m - 1) : ring[i] \in Blocks
  BY <1>1 DEF Circle
<1>3. NextAt(m, p) \in 0..(m - 1) /\ block[ring[p]].next = ring[NextAt(m, p)]
  <2>1. CASE p = m - 1  BY <1>1, <2>1 DEF Circle, NextAt
  <2>2. CASE p # m - 1
    <3>1. p + 1 \in 0..(m - 1) /\ NextAt(m, p) = p + 1  BY <2>2 DEF NextAt
    <3>2. \A i, j \in 0..(m - 1) : j = i + 1 => block[ring[i]].next = ring[j]
      BY <1>1 DEF Circle
    <3> QED BY <3>1, <3>2
  <2> QED BY <2>1, <2>2
<1>4. ring[p] # 0 /\ ring[NextAt(m, p)] # 0
  <2>1. Len(block) \in Nat  BY LengthNat
  <2>2. 0 \notin Blocks  BY <2>1 DEF Blocks
  <2> QED BY <1>2, <1>3, <2>2
<1>5. PICK b \in Blocks : b = ring[p]  BY <1>2
<1>6. /\ block[b].size \in Nat /\ block[b].size > 1
      /\ block[b].front \in 0..(block[b].size - 1)
      /\ block[b].tail \in 0..(block[b].size - 1)
      /\ Items(b) \in 0..(block[b].size - 1)
  BY <1>1, BlockFacts
<1>7. Len(WindowOf(block[b])) = Items(b) /\ Items(b) \in Nat
  <2>1. PICK n, x, y : n = block[b].size /\ x = block[b].front /\ y = block[b].tail  OBVIOUS
  <2>2. n \in Nat /\ n > 1 /\ x \in 0..(n - 1) /\ y \in 0..(n - 1)  BY <1>6, <2>1
  <2>3. (y + n - x) % n = Dist(x, y, n)  BY <2>2, WindowLength
  <2>4. Items(b) = Dist(x, y, n)  BY <2>1 DEF Items, FromFront
  <2>5. Dist(x, y, n) \in Nat  BY <1>6, <2>4
  <2>6. WindowOf(block[b]) = [k \in 1..Dist(x, y, n) |-> (x + (k - 1)) % n]
    BY <2>1, <2>3 DEF WindowOf
  <2> QED BY <2>4, <2>5, <2>6
<1>8. p < T => lo[ring[p + 1]] = lo[ring[p]] + Items(ring[p])
  <2>1. p < T => p \in 0..T /\ p + 1 \in 0..T  OBVIOUS
  <2> QED BY <1>1, <2>1 DEF Chain
<1>9. p = T => puts = lo[ring[p]] + Items(ring[p])  BY <1>1 DEF Chain
<1>10. ASSUME p > T PROVE Items(ring[p]) <= IF p = T + 1 THEN InFlight ELSE 0
  <2>1. p \in (T + 1)..(m - 1)  BY <1>10
  <2>2. (prod.at = "advance" /\ ring[p] = prod.to) \/ Items(ring[p]) = 0
    BY <1>1, <2>1 DEF Chain
  <2>3. CASE prod.at = "advance" /\ ring[p] = prod.to
    <3>1. T + 1 \in 0..(m - 1) /\ prod.to = ring[T + 1] /\ Items(prod.to) = 1
      BY <1>1, <2>1, <2>3 DEF ProdInv, NextIsTo
    <3>2. p = T + 1
      <4>1. \A i, j \in 0..(m - 1) : ring[i] = ring[j] => i = j  BY <1>1 DEF Circle
      <4> QED BY <2>3, <3>1, <4>1
    <3> QED BY <2>3, <3>1, <3>2 DEF InFlight
  <2>4. CASE Items(ring[p]) = 0  BY <2>4 DEF InFlight
  <2> QED BY <2>2, <2>3, <2>4
<1> QED BY <1>3, <1>4, <1>5, <1>7, <1>8, <1>9, <1>10 DEF Position

\* size_approx begins, at the front block.
LEMMA SizeStart ==
  ASSUME NEW m \in Nat, NEW ring \in [Nat -> Nat], NEW T \in 0..(m - 1),
         NEW lo \in [Nat -> Nat], TypeOK, Good(m, ring, T, lo), SizeInv(m, ring, T, lo),
         NEW t \in Threads, SizeApprox(t)
  PROVE  SizeInv(m, ring, T, lo)'
<1>1. /\ sizing = NotSizing /\ SizeGoes(t, "idle", "size")
      /\ sizing' = [block |-> frontBlock, start |-> frontBlock, sum |-> 0, had |-> puts - taken]
      /\ puts' = puts /\ taken' = taken /\ frontBlock' = frontBlock
  BY DEF SizeApprox, Length, indexVars
<1>2. prod.at \notin Measuring /\ cons.at \notin Measuring
  BY <1>1 DEF SizeInv, OneMeasures, NotSizing
<1>3. \/ t = "producer" /\ prod'.at = "size" /\ cons'.at \notin Measuring
      \/ t = "consumer" /\ cons'.at = "size" /\ prod'.at \notin Measuring
  <2>1. CASE t = "producer"
    <3>1. ProdGoes("idle", "size") /\ cons' = cons  BY <1>1, <2>1 DEF SizeGoes
    <3>2. prod'.at = "size"  BY <3>1, ProdGoesFacts DEF Free
    <3> QED BY <1>2, <2>1, <3>1, <3>2
  <2>2. CASE t = "consumer"
    <3>1. ConsGoes("idle", "size") /\ prod' = prod  BY <1>1, <2>2 DEF SizeGoes
    <3>2. cons'.at = "size"  BY <3>1, ConsGoesFacts DEF Free
    <3> QED BY <1>2, <2>2, <3>1, <3>2
  <2> QED BY <2>1, <2>2 DEF Threads
<1>4. /\ Shape(m, ring, T) /\ Room(m) /\ Chain(m, ring, T, lo) /\ Circle(m, ring, T)
  BY DEF Good, Shape
<1>5. /\ ring[0] = frontBlock /\ lo[ring[0]] = taken /\ 0 \in 0..(m - 1) /\ 0 <= T
      /\ frontBlock \in Nat /\ frontBlock # 0
  <2>1. frontBlock \in Nat /\ frontBlock # 0
    <3>1. Len(block) \in Nat /\ frontBlock \in Blocks  BY LengthNat DEF TypeOK
    <3> QED BY <3>1 DEF Blocks
  <2> QED BY <1>4, <2>1 DEF Circle, Chain
<1>6. puts \in Nat /\ taken \in Nat /\ taken <= puts /\ puts - taken \in Nat
  <2>1. taken <= puts /\ puts \in Nat /\ taken \in Nat  BY <1>4, ChainEnds DEF TypeOK
  <2> QED BY <2>1
<1>7. /\ sizing'.block = frontBlock /\ sizing'.start = frontBlock
      /\ sizing'.sum = 0 /\ sizing'.had = puts - taken
  BY <1>1
<1>8. OneMeasures'
  <2>1. sizing' \in SizingType  BY <1>1, <1>5, <1>6 DEF SizingType
  <2> QED BY <1>3, <1>5, <1>7, <2>1 DEF OneMeasures, Measuring
<1>9. SizeInRange'  BY <1>3 DEF SizeInRange, Measuring
<1>10. ConsWalk(ring, T, lo, 0)'
  <2>1. puts - taken + taken <= puts /\ 0 + taken <= taken /\ 0 + taken = taken /\ ~(0 > T)
    BY <1>5, <1>6
  <2> QED BY <1>1, <1>5, <1>7, <2>1 DEF ConsWalk
<1>11. ProdWalk(ring, T, lo, 0, 0)'
  <2>1. /\ puts <= taken + (puts - taken) /\ taken <= 0 + taken
        /\ 0 + puts <= taken + (puts - taken) /\ ~(0 > T)
    BY <1>5, <1>6
  <2> QED BY <1>1, <1>5, <1>7, <2>1 DEF ProdWalk
<1>12. ConsWalks(m, ring, T, lo)' /\ ProdWalks(m, ring, T, lo)'
  BY <1>5, <1>10, <1>11 DEF ConsWalks, ProdWalks
<1> QED BY <1>8, <1>9, <1>12 DEF SizeInv

\* The consumer counts the next block.
LEMMA SizeConsumerCounts ==
  ASSUME NEW m \in Nat, NEW ring \in [Nat -> Nat], NEW T \in 0..(m - 1),
         NEW lo \in [Nat -> Nat], TypeOK, Good(m, ring, T, lo), SizeInv(m, ring, T, lo),
         SizeStep("consumer")
  PROVE  SizeInv(m, ring, T, lo)'
<1>1. PICK b, next : b = sizing.block /\ next = block[sizing.block].next  OBVIOUS
<1>2. /\ ConsGoes("size", IF next = sizing.start THEN "sized" ELSE "size")
      /\ sizing' = [sizing EXCEPT !.sum = sizing.sum + Len(WindowOf(block[b])), !.block = next]
      /\ prod' = prod /\ puts' = puts /\ taken' = taken /\ frontBlock' = frontBlock
  BY <1>1 DEF SizeStep, SizeGoes, indexVars
<1>3. cons.at = "size" /\ cons'.at = IF next = sizing.start THEN "sized" ELSE "size"
  BY <1>2, ConsGoesFacts DEF Free
<1>4. sizing \in SizingType /\ prod.at \notin Measuring
  BY <1>3 DEF SizeInv, OneMeasures, Measuring
<1>5. PICK p \in 0..(m - 1) : ConsWalk(ring, T, lo, p)  BY <1>3 DEF SizeInv, ConsWalks
<1>6. PICK q, n : q = NextAt(m, p) /\ n = Items(ring[p])  OBVIOUS
<1>7. /\ q \in 0..(m - 1) /\ next = ring[q] /\ b = ring[p] /\ ring[q] # 0
      /\ Len(WindowOf(block[b])) = n /\ n \in Nat
      /\ p < T => lo[ring[p + 1]] = lo[ring[p]] + n
      /\ p = T => puts = lo[ring[p]] + n
      /\ p > T => n <= IF p = T + 1 THEN InFlight ELSE 0
  <2>1. b = ring[p]  BY <1>1, <1>5 DEF ConsWalk
  <2>2. next = block[ring[p]].next  BY <1>1, <2>1
  <2>3. Position(m, ring, T, lo, p)  BY WalkFacts
  <2>4. /\ q \in 0..(m - 1) /\ block[ring[p]].next = ring[q] /\ ring[q] # 0
        /\ Len(WindowOf(block[ring[p]])) = n /\ n \in Nat
    BY <1>6, <2>3 DEF Position
  <2>5. /\ p < T => lo[ring[p + 1]] = lo[ring[p]] + n
        /\ p = T => puts = lo[ring[p]] + n
        /\ p > T => n <= IF p = T + 1 THEN InFlight ELSE 0
    BY <1>6, <2>3 DEF Position
  <2> QED BY <2>1, <2>2, <2>4, <2>5
<1>8. /\ sizing'.sum = sizing.sum + n /\ sizing'.had = sizing.had
      /\ sizing'.start = sizing.start /\ sizing'.block = next
  BY <1>2, <1>4, <1>7 DEF SizingType
<1>9. OneMeasures'
  <2>1. sizing.sum + n \in Nat /\ next \in Nat /\ next # 0
    <3>1. ring[q] \in Nat /\ next = ring[q] /\ next # 0 /\ n \in Nat  BY <1>7
    <3>2. sizing.sum \in Nat  BY <1>4 DEF SizingType
    <3> QED BY <3>1, <3>2
  <2>2. sizing' \in SizingType  BY <1>2, <1>4, <1>7, <2>1 DEF SizingType
  <2> QED BY <1>2, <1>4, <1>8, <2>1, <2>2 DEF OneMeasures
<1>10. PICK s, h, a, k, x, y, f :
         /\ s = sizing.sum /\ h = sizing.had /\ a = puts /\ k = taken
         /\ x = lo[ring[p]] /\ y = lo[ring[p + 1]] /\ f = InFlight
  OBVIOUS
<1>11. /\ s \in Nat /\ h \in Nat /\ a \in Nat /\ k \in Nat /\ f \in {0, 1} /\ n \in Nat
       /\ x \in Nat /\ h + k <= a
       /\ p <= T => s + k <= x /\ (s >= h \/ s + k = x)
       /\ p > T => s >= h /\ s + k <= a + IF p = T + 1 THEN 0 ELSE f
       /\ p < T => y = x + n
       /\ p = T => a = x + n
       /\ p > T => n <= IF p = T + 1 THEN f ELSE 0
  <2>1. ring[p] \in Nat /\ lo[ring[p]] \in Nat  OBVIOUS
  <2> QED BY <1>5, <1>7, <1>10, <2>1, SizingNats DEF ConsWalk, SizeInv
<1>12. /\ p < T => s + n + k <= y /\ (s + n >= h \/ s + n + k = y)
       /\ p >= T => s + n >= h /\ s + n + k <= a + f
       /\ p = T => s + n + k <= a + 0
  BY ONLY <1>11, p \in Nat, T \in Nat
<1>13. CASE next = sizing.start
  <2>1. p = m - 1
    <3>1. ring[q] = ring[0] /\ q \in 0..(m - 1) /\ 0 \in 0..(m - 1)
      BY <1>5, <1>7, <1>13 DEF ConsWalk, Good, Shape, Circle
    <3>2. q = 0  BY <3>1 DEF Good, Shape, Circle
    <3> QED BY <1>6, <3>2 DEF NextAt
  <2>2. p >= T  BY <2>1
  <2>3. s + n \in h..(a - k + f)  BY <1>11, <1>12, <2>2
  <2>4. InFlight' = f  BY <1>2, <1>10 DEF InFlight
  <2>5. sizing'.sum \in sizing'.had..(puts' - taken' + InFlight')
    BY <1>2, <1>8, <1>10, <2>3, <2>4
  <2>6. SizeInRange'  BY <1>2, <1>4, <2>5 DEF SizeInRange, Length, Measuring
  <2> QED BY <1>2, <1>3, <1>4, <1>9, <1>13, <2>6
          DEF SizeInv, ConsWalks, ProdWalks, Measuring
<1>14. CASE next # sizing.start
  <2>1. p # m - 1 /\ q = p + 1
    <3>1. sizing.start = ring[0]  BY <1>5 DEF ConsWalk, Good, Shape, Circle
    <3> QED BY <1>6, <1>7, <1>14, <3>1 DEF NextAt
  <2>2. InFlight' = f  BY <1>2, <1>10 DEF InFlight
  <2>3. /\ q <= T => s + n + k <= y /\ (s + n >= h \/ s + n + k = y)
        /\ q > T => s + n >= h /\ s + n + k <= a + IF q = T + 1 THEN 0 ELSE f
    <3>1. q <= T => p < T  BY <2>1
    <3>2. q > T => p >= T /\ (q = T + 1 => p = T)  BY <2>1
    <3> QED BY <1>12, <3>1, <3>2
  <2>4. lo[ring[q]] = y  BY <1>10, <2>1
  <2>5. ConsWalk(ring, T, lo, q)'
    BY <1>2, <1>5, <1>7, <1>8, <1>10, <1>11, <2>2, <2>3, <2>4 DEF ConsWalk
  <2>6. ConsWalks(m, ring, T, lo)'  BY <1>7, <2>5 DEF ConsWalks
  <2>7. SizeInRange' /\ ProdWalks(m, ring, T, lo)'
    BY <1>2, <1>3, <1>4, <1>14 DEF SizeInRange, ProdWalks, Measuring
  <2> QED BY <1>9, <2>6, <2>7 DEF SizeInv
<1> QED BY <1>13, <1>14

\* The producer counts the next block.
LEMMA SizeProducerCounts ==
  ASSUME NEW m \in Nat, NEW ring \in [Nat -> Nat], NEW T \in 0..(m - 1),
         NEW lo \in [Nat -> Nat], TypeOK, Good(m, ring, T, lo), SizeInv(m, ring, T, lo),
         SizeStep("producer")
  PROVE  SizeInv(m, ring, T, lo)'
<1>1. PICK b, next : b = sizing.block /\ next = block[sizing.block].next  OBVIOUS
<1>2. /\ ProdGoes("size", IF next = sizing.start THEN "sized" ELSE "size")
      /\ sizing' = [sizing EXCEPT !.sum = sizing.sum + Len(WindowOf(block[b])), !.block = next]
      /\ cons' = cons /\ puts' = puts /\ taken' = taken
  BY <1>1 DEF SizeStep, SizeGoes, indexVars
<1>3. prod.at = "size" /\ prod'.at = IF next = sizing.start THEN "sized" ELSE "size"
  BY <1>2, ProdGoesFacts DEF Free
<1>4. sizing \in SizingType /\ cons.at \notin Measuring
  BY <1>3 DEF SizeInv, OneMeasures, Measuring
<1>5. PICK p \in 0..(m - 1), r \in 0..(m - 1) : ProdWalk(ring, T, lo, p, r)
  BY <1>3 DEF SizeInv, ProdWalks
<1>6. PICK q, n : q = NextAt(m, p) /\ n = Items(ring[p])  OBVIOUS
<1>7. /\ q \in 0..(m - 1) /\ next = ring[q] /\ b = ring[p] /\ ring[q] # 0
      /\ Len(WindowOf(block[b])) = n /\ n \in Nat
      /\ p < T => lo[ring[p + 1]] = lo[ring[p]] + n
      /\ p = T => puts = lo[ring[p]] + n
      /\ p > T => n = 0
  <2>1. b = ring[p]  BY <1>1, <1>5 DEF ProdWalk
  <2>2. next = block[ring[p]].next  BY <1>1, <2>1
  <2>3. Position(m, ring, T, lo, p)  BY WalkFacts
  <2>4. (IF p = T + 1 THEN InFlight ELSE 0) = 0  BY <1>3 DEF InFlight
  <2>5. p > T => n <= 0 /\ n \in Nat  BY <1>6, <2>3, <2>4 DEF Position
  <2>6. p > T => n = 0  BY <2>5
  <2>7. /\ q \in 0..(m - 1) /\ block[ring[p]].next = ring[q] /\ ring[q] # 0
        /\ Len(WindowOf(block[ring[p]])) = n /\ n \in Nat
    BY <1>6, <2>3 DEF Position
  <2>8. /\ p < T => lo[ring[p + 1]] = lo[ring[p]] + n
        /\ p = T => puts = lo[ring[p]] + n
    BY <1>6, <2>3 DEF Position
  <2> QED BY <2>1, <2>2, <2>6, <2>7, <2>8
<1>8. /\ sizing'.sum = sizing.sum + n /\ sizing'.had = sizing.had
      /\ sizing'.start = sizing.start /\ sizing'.block = next
  BY <1>2, <1>4, <1>7 DEF SizingType
<1>9. OneMeasures'
  <2>1. sizing.sum + n \in Nat /\ next \in Nat /\ next # 0
    <3>1. ring[q] \in Nat /\ next = ring[q] /\ next # 0 /\ n \in Nat  BY <1>7
    <3>2. sizing.sum \in Nat  BY <1>4 DEF SizingType
    <3> QED BY <3>1, <3>2
  <2>2. sizing' \in SizingType  BY <1>2, <1>4, <1>7, <2>1 DEF SizingType
  <2> QED BY <1>2, <1>4, <1>8, <2>1, <2>2 DEF OneMeasures
<1>10. PICK s, h, a, k, x, y :
         /\ s = sizing.sum /\ h = sizing.had /\ a = puts /\ k = taken
         /\ x = lo[ring[p]] /\ y = lo[ring[q]]
  OBVIOUS
<1>11. /\ s \in Nat /\ h \in Nat /\ a \in Nat /\ k \in Nat /\ n \in Nat /\ x \in Nat
       /\ r = 0 \/ r > T
       /\ a <= k + h
       /\ p <= T => x <= s + k /\ s + a <= x + h
       /\ p > T /\ 0 < r /\ r <= p => s + a <= k + h
       /\ p > T /\ (r = 0 \/ r > p) => s <= h /\ a <= s + k
       /\ p < T => q = p + 1 /\ y = x + n
       /\ p = T => a = x + n
       /\ p > T => n = 0
       /\ q = 0 => y = k
       /\ IF p = m - 1 THEN q = 0 ELSE q = p + 1
  <2>1. ring[p] \in Nat /\ lo[ring[p]] \in Nat  OBVIOUS
  <2>2. IF p = m - 1 THEN q = 0 ELSE q = p + 1  BY <1>6 DEF NextAt
  <2>3. p < T => q = p + 1  BY <2>2
  <2>4. lo[ring[0]] = taken  BY DEF Good, Chain
  <2>5. /\ s \in Nat /\ h \in Nat /\ a \in Nat /\ k \in Nat
    BY <1>10, SizingNats DEF SizeInv
  <2>6. p < T => y = x + n  BY <1>7, <1>10, <2>3
  <2> QED BY <1>5, <1>7, <1>10, <2>1, <2>2, <2>3, <2>4, <2>5, <2>6 DEF ProdWalk
<1>12. q = r <=> next = sizing.start
  <2>1. next = ring[q] /\ sizing.start = ring[r]  BY <1>5, <1>7 DEF ProdWalk
  <2>2. ring[q] = ring[r] => q = r  BY <1>5, <1>7 DEF Good, Shape, Circle
  <2> QED BY <2>1, <2>2
<1>13. CASE next = sizing.start
  <2>1. a - k <= s + n /\ s + n <= h
    <3>1. p >= T /\ (r = 0 \/ r > p)  BY <1>11, <1>12, <1>13
    <3>2. CASE p = T  BY <1>11, <3>2
    <3>3. CASE p > T  BY <1>11, <3>1, <3>3
    <3> QED BY <3>1, <3>2, <3>3
  <2>2. s + n \in (a - k)..h  BY <1>11, <2>1
  <2>3. sizing'.sum \in (puts' - taken')..sizing'.had  BY <1>2, <1>8, <1>10, <2>2
  <2>4. SizeInRange'  BY <1>2, <1>4, <2>3 DEF SizeInRange, Length, Measuring
  <2> QED BY <1>2, <1>3, <1>4, <1>9, <1>13, <2>4
          DEF SizeInv, ConsWalks, ProdWalks, Measuring
<1>14. CASE next # sizing.start
  <2>1. q <= T => y <= s + n + k /\ s + n + a <= y + h
    <3>1. CASE p < T  BY <1>11, <3>1
    <3>2. CASE p >= T
      <4>1. q <= T => q = 0 /\ p = m - 1  BY <1>11, <3>2
      <4>2. q <= T => r # 0 /\ r > T /\ r <= p /\ p > T
        BY <1>11, <1>12, <1>14, <3>2, <4>1
      <4> QED BY <1>11, <4>1, <4>2
    <3> QED BY <3>1, <3>2
  <2>2. q > T /\ 0 < r /\ r <= q => s + n + a <= k + h
    <3>1. q > T => q = p + 1 /\ p >= T  BY <1>11
    <3>2. q > T /\ 0 < r /\ r <= q => r <= p /\ p > T  BY <1>11, <1>12, <1>14, <3>1
    <3> QED BY <1>11, <3>2
  <2>3. q > T /\ (r = 0 \/ r > q) => s + n <= h /\ a <= s + n + k
    <3>1. q > T => q = p + 1 /\ p >= T  BY <1>11
    <3>2. CASE p = T  BY <1>11, <3>2
    <3>3. CASE p # T  BY <1>11, <3>1, <3>3
    <3> QED BY <3>2, <3>3
  <2>4. ProdWalk(ring, T, lo, q, r)'
    BY <1>2, <1>5, <1>7, <1>8, <1>10, <1>11, <2>1, <2>2, <2>3 DEF ProdWalk
  <2>5. ProdWalks(m, ring, T, lo)'  BY <1>5, <1>7, <2>4 DEF ProdWalks
  <2>6. SizeInRange' /\ ConsWalks(m, ring, T, lo)'
    BY <1>2, <1>3, <1>4, <1>14 DEF SizeInRange, ConsWalks, Measuring
  <2> QED BY <1>9, <2>5, <2>6 DEF SizeInv
<1> QED BY <1>13, <1>14

\* size_approx ends.
LEMMA SizeEnds ==
  ASSUME NEW m \in Nat, NEW ring \in [Nat -> Nat], NEW T \in 0..(m - 1),
         NEW lo \in [Nat -> Nat], TypeOK, SizeInv(m, ring, T, lo),
         NEW t \in Threads, SizeReturn(t)
  PROVE  SizeInv(m, ring, T, lo)'
<1>1. SizeGoes(t, "sized", "idle") /\ sizing' = NotSizing  BY DEF SizeReturn
<1>2. prod'.at \notin Measuring /\ cons'.at \notin Measuring
  <2>1. CASE t = "producer"
    <3>1. ProdGoes("sized", "idle") /\ cons' = cons  BY <1>1, <2>1 DEF SizeGoes
    <3>2. prod.at = "sized" /\ prod'.at = "idle"  BY <3>1, ProdGoesFacts DEF Free
    <3> QED BY <3>1, <3>2 DEF SizeInv, OneMeasures, Measuring
  <2>2. CASE t = "consumer"
    <3>1. ConsGoes("sized", "idle") /\ prod' = prod  BY <1>1, <2>2 DEF SizeGoes
    <3>2. cons.at = "sized" /\ cons'.at = "idle"  BY <3>1, ConsGoesFacts DEF Free
    <3> QED BY <3>1, <3>2 DEF SizeInv, OneMeasures, Measuring
  <2> QED BY <2>1, <2>2 DEF Threads
<1>3. sizing' \in SizingType  BY <1>1 DEF NotSizing, SizingType
<1> QED BY <1>2, <1>3
        DEF SizeInv, OneMeasures, SizeInRange, ConsWalks, ProdWalks, Measuring

\* The destructor is not called while a thread counts.
LEMMA SizeDestroyed ==
  ASSUME NEW m \in Nat, NEW ring \in [Nat -> Nat], NEW T \in 0..(m - 1),
         NEW lo \in [Nat -> Nat], TypeOK, SizeInv(m, ring, T, lo), Destroy
  PROVE  SizeInv(m, ring, T, lo)'
<1>1. prod' = [prod EXCEPT !.at = "gone"] /\ cons' = [cons EXCEPT !.at = "gone"]
      /\ sizing' = sizing
  BY DEF Destroy
<1>2. prod'.at = "gone" /\ cons'.at = "gone"  BY <1>1 DEF TypeOK, ProdType, ConsType
<1> QED BY <1>1, <1>2
        DEF SizeInv, OneMeasures, SizeInRange, ConsWalks, ProdWalks, Measuring

\* Those steps of the producer.
LEMMA ProducerQuiet ==
  ASSUME TypeOK,
         \/ \E alloc \in BOOLEAN : Enqueue(alloc)
         \/ RefreshFront \/ WriteSlot \/ PublishTail \/ TailBlockFull \/ UseNextBlock
         \/ OutOfMemory \/ AllocateBlock
  PROVE  ProducerMoved
<1>1. puts \in Nat /\ puts + 1 \in Nat /\ puts + 1 >= puts  BY DEF TypeOK
<1>2. /\ cons' = cons /\ sizing' = sizing /\ taken' = taken /\ frontBlock' = frontBlock
      /\ puts' \in {puts, puts + 1}
  BY DEF Enqueue, RefreshFront, WriteSlot, PublishTail, TailBlockFull, UseNextBlock,
         OutOfMemory, AllocateBlock, ProducerOnly, indexVars
<1>3. /\ prod.at \in {"idle", "refresh", "write", "publish", "full", "ahead", "alloc"}
      /\ prod'.at \in {"write", "refresh", "full", "publish", "idle", "advance", "ahead",
                       "alloc", "link"}
  <2>1. ASSUME NEW from, NEW to \in {"write", "full", "publish", "idle", "advance", "alloc"},
               ProdGoes(from, to)
        PROVE  prod.at = from /\ prod'.at = to
    BY <2>1, ProdGoesFacts DEF Free, Busy
  <2>2. ASSUME NEW at, NEW to, prod' = [prod EXCEPT !.at = at, !.to = to]
        PROVE  prod'.at = at
    BY <2>2 DEF TypeOK, ProdType
  <2>3. CASE \E alloc \in BOOLEAN : Enqueue(alloc)  BY <2>3 DEF Enqueue
  <2>4. CASE RefreshFront  BY <2>1, <2>4 DEF RefreshFront
  <2>5. CASE WriteSlot \/ UseNextBlock \/ OutOfMemory
    BY <2>1, <2>5 DEF WriteSlot, UseNextBlock, OutOfMemory
  <2>6. CASE PublishTail  BY <2>1, <2>6 DEF PublishTail
  <2>7. CASE TailBlockFull
    <3>1. CASE NextFree  BY <2>2, <2>7, <3>1 DEF TailBlockFull
    <3>2. CASE ~NextFree  BY <2>1, <2>7, <3>2 DEF TailBlockFull
    <3> QED BY <3>1, <3>2
  <2>8. CASE AllocateBlock  BY <2>2, <2>8 DEF AllocateBlock
  <2> QED BY <2>3, <2>4, <2>5, <2>6, <2>7, <2>8
<1>4. prod.at \notin Measuring /\ prod'.at \notin Measuring  BY <1>3 DEF Measuring
<1>5. InFlight = 0 /\ InFlight' \in {0, 1}  BY <1>3 DEF InFlight
<1>6. puts' \in Nat /\ puts' >= puts /\ puts' + InFlight' >= puts + InFlight
  <2>1. PICK a, b, f, g : a = puts /\ b = puts' /\ f = InFlight /\ g = InFlight'  OBVIOUS
  <2>2. a \in Nat /\ b \in {a, a + 1} /\ f = 0 /\ g \in {0, 1}  BY <1>1, <1>2, <1>5, <2>1
  <2>3. b \in Nat /\ b >= a /\ b + g >= a + f  BY ONLY <2>2
  <2> QED BY <2>1, <2>3
<1> QED BY <1>2, <1>4, <1>6 DEF ProducerMoved

\* And those of the consumer; one of them gives up a slot.
LEMMA ConsumerQuiet ==
  ASSUME TypeOK,
         \/ \E op \in Ops : Get(op)
         \/ LookAtTail \/ LookAtTailBlock \/ Recheck \/ LookAtNext \/ TakeSlot \/ GiveUpSlot
  PROVE  ConsumerMoved /\ (GiveUpSlot \/ taken' = taken)
<1>1. taken \in Nat /\ taken + 1 \in Nat /\ taken + 1 >= taken /\ taken >= taken
  BY DEF TypeOK
<1>2. /\ prod' = prod /\ sizing' = sizing /\ puts' = puts
      /\ GiveUpSlot \/ taken' = taken
      /\ taken' \in {taken, taken + 1}
  BY DEF Get, LookAtTail, LookAtTailBlock, Recheck, LookAtNext, TakeSlot, GiveUpSlot,
         RefreshTail, ConsumerOnly
<1>3. cons.at \notin Measuring /\ cons'.at \notin Measuring
  <2>1. ASSUME NEW from \in ConsBusy, NEW to \in ConsBusy \cup {"idle"}, ConsGoes(from, to)
        PROVE  cons.at \notin Measuring /\ cons'.at \notin Measuring
    <3>1. cons.at = from /\ cons'.at = to  BY <2>1, ConsGoesFacts DEF Free
    <3> QED BY <3>1 DEF ConsBusy, Measuring
  <2>2. CASE \E op \in Ops : Get(op)  BY <2>2 DEF Get, Measuring
  <2>3. CASE LookAtTail \/ LookAtTailBlock \/ Recheck \/ LookAtNext \/ TakeSlot \/ GiveUpSlot
    <3>1. \E from \in ConsBusy, to \in ConsBusy \cup {"idle"} : ConsGoes(from, to)
      BY <2>3 DEF LookAtTail, LookAtTailBlock, Recheck, LookAtNext, TakeSlot, GiveUpSlot,
                  RefreshTail, ConsBusy
    <3> QED BY <2>1, <3>1
  <2> QED BY <2>2, <2>3
<1> QED BY <1>1, <1>2, <1>3 DEF ConsumerMoved

----------------------------------------------------------------------------
(* Construction.                                                           *)

\* A set of numbers with 0 and, of each number in it, the next, is Nat.
LEMMA Induction ==
  ASSUME NEW S, 0 \in S, \A n \in Nat : n \in S => n + 1 \in S
  PROVE  Nat \subseteq S
<1> SUFFICES ASSUME Nat \ S # {} PROVE FALSE  OBVIOUS
<1>1. PICK x \in Nat \ S : \A y \in Nat \ S : ~(y < x)
  <2>1. IsWellFoundedOn(OpToRel(<, Nat), Nat)  BY NatLessThanWellFounded
  <2>2. \E x \in Nat \ S : \A y \in Nat \ S : ~(<<y, x>> \in OpToRel(<, Nat))
    BY <2>1, WFMin
  <2> QED BY <2>2 DEF OpToRel
<1>2. x - 1 \in Nat /\ x - 1 < x  BY <1>1
<1>3. x - 1 \in S  BY <1>1, <1>2
<1> QED BY <1>1, <1>2, <1>3

\* A set of numbers has a least one.
LEMMA LeastNumber ==
  ASSUME NEW S \in SUBSET Nat, S # {}
  PROVE  \E x \in S : \A y \in S : x <= y
<1>1. IsWellFoundedOn(OpToRel(<, Nat), Nat)  BY NatLessThanWellFounded
<1>2. \E x \in S : \A y \in S : ~(<<y, x>> \in OpToRel(<, Nat))  BY <1>1, WFMin
<1>3. PICK x \in S : \A y \in S : ~(y < x)  BY <1>2 DEF OpToRel
<1>4. \A y \in S : x <= y
  <2>1. \A y \in S : y \in Nat /\ x \in Nat  OBVIOUS
  <2> QED BY <1>3, <2>1
<1> QED BY <1>4

\* Division leaves a rest smaller than the divisor.
LEMMA Division ==
  ASSUME NEW n \in Nat, n > 0, NEW a \in Nat
  PROVE  /\ a \div n \in Nat /\ a % n \in 0..(n - 1)
         /\ a = n * (a \div n) + (a % n)
BY SMT

\* A multiple of a divisor leaves no rest.
LEMMA Multiple ==
  ASSUME NEW d \in Nat, d > 0, NEW r \in Nat, NEW n \in Nat, n = d * r
  PROVE  n % d = 0
<1> DEFINE q == n \div d
           e == n % d
<1>1. q \in Nat /\ e \in 0..(d - 1) /\ n = d * q + e  BY Division
<1> HIDE DEF q, e
<1>2. e = d * (r - q)
  <2>1. \A x, y, z \in Nat : z * (x - y) = z * x - z * y  BY SMT
  <2>2. d * q \in Nat /\ d * r \in Nat  BY <1>1
  <2> QED BY <1>1, <2>1, <2>2
<1>3. CASE r - q = 0
  BY <1>2, <1>3 DEF e
<1>4. CASE r - q >= 1
  <2>1. \A x, y \in Nat : y >= 1 => x * y >= x  BY SMT
  <2> QED BY <1>1, <1>2, <1>4, <2>1
<1>5. CASE r - q <= -1
  <2>1. \A x \in Nat, y \in Int : x > 0 /\ y <= -1 => x * y < 0  BY SMT
  <2> QED BY <1>1, <1>2, <1>5, <2>1
<1> QED BY <1>1, <1>3, <1>4, <1>5

\* Twice a power of 2 is one.
LEMMA DoublePower ==
  ASSUME NEW n \in Nat, IsPowerOf2(n)
  PROVE  IsPowerOf2(2 * n)
<1>1. n > 0 /\ 2 * n > 0  BY DEF IsPowerOf2
<1>2. ASSUME NEW d \in 1..(2 * n), (2 * n) % d = 0, d % 2 # 0
      PROVE  d = 1
  <2>1. d \in Nat /\ d > 0  OBVIOUS
  <2>2. PICK q \in Nat : 2 * n = d * q
    <3>1. /\ (2 * n) \div d \in Nat /\ 2 * n = d * ((2 * n) \div d) + ((2 * n) % d)
      BY <1>1, <2>1, Division
    <3>2. 2 * n = d * ((2 * n) \div d)
      <4>1. d * ((2 * n) \div d) \in Nat  BY <2>1, <3>1
      <4> QED BY <1>2, <3>1, <4>1
    <3> QED BY <3>1, <3>2
  <2>3. PICK a \in Nat : d = 2 * a + 1
    <3>1. d \div 2 \in Nat /\ d % 2 \in 0..1 /\ d = 2 * (d \div 2) + (d % 2)
      BY <2>1, Division
    <3>2. d % 2 = 1  BY <1>2, <3>1
    <3> QED BY <3>1, <3>2
  <2>4. PICK r \in Int : q = 2 * r /\ n = d * r
    <3> DEFINE r == n - a * q
    <3>1. a * q \in Nat  BY <2>2, <2>3
    <3>2. d * q = 2 * (a * q) + q
      <4>1. \A x, y \in Nat : (2 * x + 1) * y = 2 * (x * y) + y  BY SMT
      <4> QED BY <2>2, <2>3, <4>1
    <3>3. q = 2 * r /\ r \in Int  BY <2>2, <3>1, <3>2
    <3>4. 2 * n = d * (2 * r)  BY <2>2, <3>3
    <3> HIDE DEF r
    <3>5. n = d * r
      <4>1. \A x \in Nat, y \in Int : x * (2 * y) = 2 * (x * y) /\ x * y \in Int  BY SMT
      <4> QED BY <2>1, <3>3, <3>4, <4>1
    <3> QED BY <3>3, <3>5
  <2>5. r \in Nat /\ r >= 1
    <3>1. \A x \in Nat, y \in Int : y < 1 => x * y <= 0  BY SMT
    <3> QED BY <1>1, <2>1, <2>4, <3>1
  <2>6. n % d = 0  BY <2>1, <2>4, <2>5, Multiple
  <2>7. d \in 1..n
    <3>1. \A x, y \in Nat : y >= 1 => x * y >= x  BY SMT
    <3> QED BY <2>1, <2>4, <2>5, <3>1
  <2> QED BY <1>2, <2>6, <2>7 DEF IsPowerOf2
<1> QED BY <1>1, <1>2 DEF IsPowerOf2

\* The size of a block is at least what was asked for.
LEMMA CeilFacts ==
  ASSUME NEW x \in Nat \ {0}
  PROVE  ceilToPow2(x) \in Nat /\ ceilToPow2(x) >= x
<1> DEFINE P(n) == {y \in n..(2 * n) : IsPowerOf2(y)}
           S == {n \in Nat : n = 0 \/ P(n) # {}}
<1>1. Nat \subseteq S
  <2>1. 0 \in S  OBVIOUS
  <2>2. ASSUME NEW n \in Nat, n \in S PROVE n + 1 \in S
    <3>1. CASE n = 0
      <4>1. IsPowerOf2(1)
        <5>1. \A d \in 1..1 : d = 1  OBVIOUS
        <5> QED BY <5>1 DEF IsPowerOf2
      <4>2. 1 \in P(n + 1)  BY <3>1, <4>1
      <4> QED BY <4>2
    <3>2. CASE n # 0
      <4>1. PICK y \in n..(2 * n) : IsPowerOf2(y)  BY <2>2, <3>2
      <4>2. CASE y = n
        <5>1. IsPowerOf2(2 * n)  BY <4>1, <4>2, DoublePower
        <5>2. 2 * n \in (n + 1)..(2 * (n + 1))  BY <3>2
        <5>3. 2 * n \in P(n + 1)  BY <5>1, <5>2
        <5> QED BY <5>3
      <4>3. CASE y # n
        <5>1. y \in (n + 1)..(2 * (n + 1))  BY <4>3
        <5>2. y \in P(n + 1)  BY <4>1, <5>1
        <5> QED BY <5>2
      <4> QED BY <4>2, <4>3
    <3> QED BY <3>1, <3>2
  <2> HIDE DEF S
  <2> QED BY <2>1, <2>2, Induction
<1>2. P(x) # {} /\ P(x) \in SUBSET Nat  BY <1>1
<1>3. \A y \in P(x) : y >= x  OBVIOUS
<1> HIDE DEF P
<1>4. \E z \in P(x) : \A y \in P(x) : z <= y  BY <1>2, LeastNumber
<1>5. Min(P(x)) \in P(x)  BY <1>4 DEF Min
<1>6. ceilToPow2(x) = Min(P(x))  BY DEF ceilToPow2, P
<1> QED BY <1>2, <1>3, <1>5, <1>6

MadeBlock(n, link) ==
  /\ make_block(n, link) \in BlockType
  /\ make_block(n, link).data \in [0..(n - 1) -> Nat]
  /\ \A i \in 0..(n - 1) : make_block(n, link).data[i] = 0
  /\ make_block(n, link).size = n /\ make_block(n, link).next = link
  /\ make_block(n, link).front = 0 /\ make_block(n, link).localFront = 0
  /\ make_block(n, link).tail = 0 /\ make_block(n, link).localTail = 0

\* A new block, field by field.
LEMMA MakeBlock ==
  ASSUME NEW n \in Nat, n > 1, NEW link \in Nat
  PROVE  MadeBlock(n, link)
<1> DEFINE d == [i \in 0..(n - 1) |-> 0]
<1>1. d \in [0..(n - 1) -> Nat] /\ \A i \in 0..(n - 1) : d[i] = 0  OBVIOUS
<1>2. d \in DataFns  BY <1>1 DEF DataFns
<1>3. make_block(n, link).data = d  BY DEF make_block
<1> HIDE DEF d
<1>4. make_block(n, link) =
        [front |-> 0, localTail |-> 0, tail |-> 0, localFront |-> 0,
         next |-> link, size |-> n, data |-> d]
  BY <1>3 DEF make_block
<1>5. make_block(n, link) \in BlockType  BY <1>2, <1>4 DEF BlockType
<1>6. /\ make_block(n, link).size = n /\ make_block(n, link).next = link
      /\ make_block(n, link).front = 0 /\ make_block(n, link).localFront = 0
      /\ make_block(n, link).tail = 0 /\ make_block(n, link).localTail = 0
  BY <1>4
<1> QED BY <1>1, <1>3, <1>5, <1>6 DEF MadeBlock

\* How many blocks the constructor makes, and how large.
FirstBlocks(N, s) ==
  /\ block = [i \in 1..N |-> make_block(s, (i % N) + 1)]
  /\ IF N = 1 THEN s - 1 >= made.maxSize ELSE (N - 1) * (s - 1) >= made.maxSize

\* The constructor makes one block or a circle, with room for maxSize items.
LEMMA InitialSizes ==
  ASSUME Init
  PROVE  \E N \in Nat \ {0}, s \in Nat \ {0, 1} : FirstBlocks(N, s)
<1> DEFINE M == made.MAX_BLOCK_SIZE
           x == made.maxSize
           size == ceilToPow2(x + 1)
           count == (x + M * 2 - 3) \div (M - 1)
<1>1. M \in Nat \ {0, 1} /\ x \in Nat \ {0}
  BY QueuesAssumption DEF Init, QueueKind
<1>2. block = IF size > M * 2
              THEN [i \in 1..count |-> make_block(M, (i % count) + 1)]
              ELSE <<make_block(size, 1)>>
  BY DEF Init, InitialBlocks
<1>3. size \in Nat /\ size >= x + 1
  <2>1. x + 1 \in Nat \ {0}  BY <1>1
  <2> QED BY <2>1, CeilFacts
<1>4. CASE size > M * 2
  <2>1. /\ count \in Nat
        /\ x <= (count - 1) * (M - 1)
    <3> DEFINE n == M - 1
               a == x + M * 2 - 3
    <3>1. n \in Nat /\ n > 0 /\ a \in Nat /\ a = x + 2 * n - 1  BY <1>1
    <3>2. /\ a \div n \in Nat /\ a % n \in 0..(n - 1)
          /\ a = n * (a \div n) + (a % n)
      BY <3>1, Division
    <3>3. count = a \div n  OBVIOUS
    <3> HIDE DEF n, a, M, x, count
    <3>4. (count - 1) * n = n * count - n /\ n * count \in Nat
      <4>1. \A u, v \in Nat : (u - 1) * v = v * u - v /\ v * u \in Nat  BY SMT
      <4> QED BY <3>1, <3>2, <3>3, <4>1
    <3>5. x <= (count - 1) * n  BY <1>1, <3>1, <3>2, <3>3, <3>4
    <3> QED BY <3>2, <3>3, <3>5 DEF n
  <2> HIDE DEF count
  <2>2. count \in Nat \ {0} /\ count # 1
    <3>1. CASE count = 0
      <4>1. (count - 1) * (M - 1) < 0
        <5>1. \A u \in Nat : u > 0 => (0 - 1) * u < 0  BY SMT
        <5> QED BY <1>1, <3>1, <5>1
      <4> QED BY <1>1, <2>1, <4>1
    <3>2. CASE count = 1
      <4>1. (count - 1) * (M - 1) = 0
        <5>1. \A u \in Nat : 0 * u = 0  BY SMT
        <5>2. count - 1 = 0 /\ M - 1 \in Nat  BY <1>1, <3>2
        <5> QED BY <5>1, <5>2
      <4> QED BY <1>1, <2>1, <4>1
    <3> QED BY <2>1, <3>1, <3>2
  <2>3. FirstBlocks(count, M)  BY <1>1, <1>2, <1>4, <2>1, <2>2 DEF FirstBlocks
  <2> QED BY <1>1, <2>2, <2>3
<1>5. CASE ~(size > M * 2)
  <2>1. \A i \in 1..1 : (i % 1) + 1 = 1
    <3>1. 1 % 1 = 0  BY SMT
    <3> QED BY <3>1
  <2>2. <<make_block(size, 1)>> = [i \in 1..1 |-> make_block(size, (i % 1) + 1)]
    <3>1. <<make_block(size, 1)>> = [i \in 1..1 |-> make_block(size, 1)]  OBVIOUS
    <3> QED BY <2>1, <3>1
  <2>3. FirstBlocks(1, size)  BY <1>1, <1>2, <1>3, <1>5, <2>2 DEF FirstBlocks
  <2>4. size \in Nat \ {0, 1}  BY <1>1, <1>3
  <2> HIDE DEF size
  <2> QED BY <2>3, <2>4
<1> QED BY <1>4, <1>5

\* The constructor establishes the invariant.
LEMMA InitGood == Init => IInv
<1> SUFFICES ASSUME Init PROVE IInv  OBVIOUS
<1>1. PICK N \in Nat \ {0}, s \in Nat \ {0, 1} : FirstBlocks(N, s)  BY InitialSizes
<1>2. block = [i \in 1..N |-> make_block(s, (i % N) + 1)]  BY <1>1 DEF FirstBlocks
<1>3. /\ made \in Queues /\ frontBlock = 1 /\ tailBlock = 1
      /\ largestBlockSize = block[1].size
      /\ prod = IdleProd /\ cons = IdleCons
      /\ puts = 0 /\ taken = 0 /\ answer = 0
  BY DEF Init
<1>4. \A i \in 1..N : (i % N) + 1 = IF i = N THEN 1 ELSE i + 1
  <2>1. \A i \in 1..N : i % N = IF i = N THEN 0 ELSE i  BY SMT
  <2> QED BY <2>1
<1>5. /\ N > 0 /\ s > 1 /\ 1 \in 1..N /\ 0 \in 0..(s - 1)  OBVIOUS
<1>6. \A i \in 1..N : /\ block[i] = make_block(s, (i % N) + 1)
                      /\ (i % N) + 1 \in 1..N
  BY <1>2, <1>4
<1>7. \A i \in 1..N : /\ block[i] \in BlockType
                      /\ block[i].data \in [0..(s - 1) -> Nat]
                      /\ \A k \in 0..(s - 1) : block[i].data[k] = 0
                      /\ block[i].size = s /\ block[i].next = (i % N) + 1
                      /\ block[i].front = 0 /\ block[i].localFront = 0
                      /\ block[i].tail = 0 /\ block[i].localTail = 0
  <2>1. \A i \in 1..N : MadeBlock(s, (i % N) + 1)
    <3>1. \A i \in 1..N : (i % N) + 1 \in Nat  BY <1>6
    <3> QED BY <1>5, <3>1, MakeBlock
  <2> QED BY <1>6, <2>1 DEF MadeBlock
<1>8. \A i \in 1..N : /\ block[i].size = s /\ block[i].front = 0 /\ block[i].tail = 0
                      /\ block[i].localFront = 0 /\ block[i].localTail = 0
                      /\ block[i].next = (i % N) + 1
  BY <1>7
<1>9. block \in Seq(BlockType) /\ Len(block) = N
  <2>1. block \in [1..N -> BlockType]  BY <1>2, <1>7
  <2>2. \A n \in Nat : \A f \in [1..n -> BlockType] : f \in Seq(BlockType) /\ Len(f) = n
    OBVIOUS
  <2> QED BY <2>1, <2>2
<1>10. Blocks = 1..N  BY <1>9 DEF Blocks
<1>11. BlocksOK  BY <1>5, <1>7, <1>8, <1>9, <1>10 DEF BlocksOK
<1>12. TypeOK
  <2>1. prod \in ProdType /\ cons \in ConsType
    BY <1>3, <1>5, <1>10 DEF IdleProd, IdleCons, ProdType, ConsType, Free, Ops
  <2>2. largestBlockSize \in Nat  BY <1>3, <1>5, <1>8
  <2> QED BY <1>3, <1>5, <1>10, <1>11, <2>1, <2>2 DEF TypeOK, IdleProd, IdleCons
<1>13. \A b \in Blocks : /\ Items(b) = 0
                         /\ FromFront(b, block[b].localTail) = 0
                         /\ Dist(block[b].localFront, block[b].tail, block[b].size) = 0
  BY <1>8, <1>10 DEF Items, FromFront, Dist
<1>14. PICK ring \in [Nat -> Nat] : \A i \in Nat : ring[i] = i + 1
  <2> DEFINE r == [i \in Nat |-> i + 1]
  <2> r \in [Nat -> Nat]  OBVIOUS
  <2> WITNESS r \in [Nat -> Nat]
  <2> QED OBVIOUS
<1>15. PICK lo \in [Nat -> Nat] : \A i \in Nat : lo[i] = 0
  <2> DEFINE l == [i \in Nat |-> 0]
  <2> l \in [Nat -> Nat]  OBVIOUS
  <2> WITNESS l \in [Nat -> Nat]
  <2> QED OBVIOUS
<1>16. /\ prod.at = "idle" /\ prod.held = 0 /\ cons.at = "idle"
  BY <1>3 DEF IdleProd, IdleCons
<1>17. \A i \in 0..(N - 1) : ring[i] \in 1..N /\ ring[i] = i + 1  BY <1>14
<1>18. Shape(N, ring, 0)
  <2>1. /\ 0 \in 0..(N - 1) /\ N - 1 \in 0..(N - 1) /\ (N - 1) + 1 = N /\ 0 + 1 = 1  OBVIOUS
  <2>2. ring[0] = 1 /\ ring[N - 1] = N  BY <1>17, <2>1
  <2>3. ASSUME NEW i \in 0..(N - 1), NEW j \in 0..(N - 1), j = i + 1
        PROVE  block[ring[i]].next = ring[j]
    <3>1. ring[i] = i + 1 /\ i + 1 \in 1..N /\ i + 1 # N /\ ring[j] = (i + 1) + 1
      BY <1>17, <2>3
    <3>2. block[i + 1].next = (i + 1) + 1  BY <1>4, <1>8, <3>1
    <3> QED BY <3>1, <3>2
  <2>4. block[ring[N - 1]].next = ring[0]
    <3>1. N \in 1..N  OBVIOUS
    <3> QED BY <1>4, <1>8, <2>2, <3>1
  <2>5. \A i, j \in 0..(N - 1) : ring[i] = ring[j] => i = j  BY <1>17
  <2>6. Circle(N, ring, 0)  BY <1>3, <1>10, <1>17, <2>1, <2>2, <2>3, <2>4, <2>5 DEF Circle
  <2> QED BY <1>9, <1>16, <1>17, <2>6 DEF Shape
<1>19. Views  BY <1>13 DEF Views
<1>20. Filled(lo)
  <2> SUFFICES ASSUME NEW b \in Blocks, NEW i \in 0..(block[b].size - 1)
               PROVE  block[b].data[i] = Content(lo, b, FromFront(b, i))
    BY DEF Filled
  <2>1. block[b].data[i] = 0 /\ i \in 0..(s - 1)  BY <1>7, <1>8, <1>10
  <2>2. FromFront(b, i) \in Nat
    <3>1. block[b].size = s /\ block[b].front = 0  BY <1>8, <1>10
    <3> QED BY <2>1, <3>1 DEF FromFront, Dist
  <2>3. ~(FromFront(b, i) < Items(b))  BY <1>13, <2>2
  <2> QED BY <1>16, <2>1, <2>3 DEF Content
<1>21. Room(N)
  <2>1. IF N = 1 THEN s - 1 >= made.maxSize ELSE (N - 1) * (s - 1) >= made.maxSize
    BY <1>1 DEF FirstBlocks
  <2>2. block[1].size = s /\ \A b \in Blocks : block[b].size = s  BY <1>5, <1>8, <1>10
  <2>3. s >= 2 /\ largestBlockSize = s /\ s >= s  BY <1>3, <1>5, <2>2
  <2> QED BY <2>1, <2>2, <2>3 DEF Room
<1>22. Chain(N, ring, 0, lo)
  <2>1. ring[0] \in Blocks /\ lo[ring[0]] = 0 /\ Items(ring[0]) = 0
    <3>1. 0 \in 0..(N - 1)  OBVIOUS
    <3> QED BY <1>10, <1>13, <1>15, <1>17, <3>1
  <2>2. \A i \in 0..(N - 1) : Items(ring[i]) = 0  BY <1>10, <1>13, <1>17
  <2>3. \A i \in 1..0 : FALSE  OBVIOUS
  <2>4. \A i, j \in 0..0 : j # i + 1  OBVIOUS
  <2>5. Counted(ring, 0, lo)  BY <2>3 DEF Counted
  <2>6. \A i \in (0 + 1)..(N - 1) : i \in 0..(N - 1)  OBVIOUS
  <2> QED BY <1>3, <2>1, <2>2, <2>3, <2>4, <2>5, <2>6 DEF Chain
<1>23. ProdInv(N, ring, 0, lo)  BY <1>16 DEF ProdInv, Free, Busy
<1>24. ConsInv(0)  BY <1>16 DEF ConsInv, ConsBusy
<1>25. Good(N, ring, 0, lo)  BY <1>18, <1>19, <1>20, <1>21, <1>22, <1>23, <1>24 DEF Good
<1>26. SizeInv(N, ring, 0, lo)
  <2>1. sizing \in SizingType  BY DEF Init, NotSizing, SizingType
  <2>2. prod.at \notin Measuring /\ cons.at \notin Measuring
    BY <1>3 DEF IdleProd, IdleCons, Measuring
  <2> QED BY <2>1, <2>2
          DEF SizeInv, OneMeasures, SizeInRange, ConsWalks, ProdWalks, Measuring
<1>27. 0 \in 0..(N - 1)  OBVIOUS
<1> QED BY <1>12, <1>25, <1>26, <1>27 DEF IInv

----------------------------------------------------------------------------
(* The invariant.                                                          *)

\* An operation that has ended left no history behind.
Rested == cons.at \in Free => cons.wasEmpty = FALSE

Inv == IInv /\ NothingLeaks /\ Rested

\* Every step of either thread keeps it.
LEMMA NextGood ==
  ASSUME IInv, Next
  PROVE  IInv'
<1>1. PICK m \in Nat : \E T \in 0..(m - 1) : \E ring \in [Nat -> Nat], lo \in [Nat -> Nat] :
        Good(m, ring, T, lo) /\ SizeInv(m, ring, T, lo)
  BY DEF IInv
<1>2. PICK T \in 0..(m - 1) : \E ring \in [Nat -> Nat], lo \in [Nat -> Nat] :
        Good(m, ring, T, lo) /\ SizeInv(m, ring, T, lo)
  BY <1>1
<1>3. PICK ring \in [Nat -> Nat], lo \in [Nat -> Nat] :
        Good(m, ring, T, lo) /\ SizeInv(m, ring, T, lo)
  BY <1>2
<1>4. TypeOK /\ lo[ring[0]] = taken  BY <1>3 DEF IInv, Good, Chain
<1>5. ASSUME NEW n \in Nat, NEW U \in 0..(n - 1), NEW r \in [Nat -> Nat], NEW l \in [Nat -> Nat],
             TypeOK', Good(n, r, U, l)', SizeInv(n, r, U, l)'
      PROVE  IInv'
  BY <1>5 DEF IInv
<1>6. TypeOK' /\ Good(m, ring, T, lo)' /\ SizeInv(m, ring, T, lo)' => IInv'  BY <1>5
<1>7. CASE \/ \E alloc \in BOOLEAN : Enqueue(alloc)
           \/ RefreshFront \/ WriteSlot \/ TailBlockFull \/ UseNextBlock \/ OutOfMemory
  <2>1. TypeOK' /\ Good(m, ring, T, lo)'
    BY <1>3, <1>4, <1>7, EnqueueStep, RefreshFrontStep, WriteSlotStep, TailBlockFullStep,
       UseNextBlockStep, OutOfMemoryStep
  <2>2. ProducerMoved  BY <1>4, <1>7, ProducerQuiet
  <2>3. SizeInv(m, ring, T, lo)'  BY <1>3, <1>4, <2>2, SizeProducer
  <2> QED BY <1>6, <2>1, <2>3
<1>8. CASE PublishTail \/ AllocateBlock
  <2>1. TypeOK' /\ \E lo1 \in [Nat -> Nat] :
          (\A i \in 0..T : lo1[ring[i]] = lo[ring[i]]) /\ Good(m, ring, T, lo1)'
    BY <1>3, <1>4, <1>8, PublishTailStep, AllocateBlockStep
  <2>2. PICK lo1 \in [Nat -> Nat] :
          (\A i \in 0..T : lo1[ring[i]] = lo[ring[i]]) /\ Good(m, ring, T, lo1)'
    BY <2>1
  <2>3. ProducerMoved  BY <1>4, <1>8, ProducerQuiet
  <2>4. SizeInv(m, ring, T, lo1)'  BY <1>3, <1>4, <2>2, <2>3, SizeProducer
  <2> QED BY <1>5, <2>1, <2>2, <2>4
<1>9. CASE LinkBlock
  <2>1. TypeOK' /\ \E ring1 \in [Nat -> Nat] :
          /\ \A i \in 0..(m - 1) : ring1[IF i <= T THEN i ELSE i + 1] = ring[i]
          /\ Good(m + 1, ring1, T, lo)'
    BY <1>3, <1>4, <1>9, LinkBlockStep
  <2>2. PICK ring1 \in [Nat -> Nat] :
          /\ \A i \in 0..(m - 1) : ring1[IF i <= T THEN i ELSE i + 1] = ring[i]
          /\ Good(m + 1, ring1, T, lo)'
    BY <2>1
  <2>3. /\ ProdGoes("link", "advance") /\ cons' = cons /\ sizing' = sizing
        /\ puts' = puts /\ taken' = taken /\ frontBlock' = frontBlock
    BY <1>9 DEF LinkBlock, ProducerOnly
  <2>4. prod.at = "link" /\ prod'.at = "advance"  BY <1>4, <2>3, ProdGoesFacts DEF Busy
  <2>5. SizeInv(m + 1, ring1, T, lo)'  BY <1>3, <1>4, <2>2, <2>3, <2>4, SizeLink
  <2>6. m + 1 \in Nat /\ T \in 0..((m + 1) - 1)  OBVIOUS
  <2> QED BY <1>5, <2>1, <2>2, <2>5, <2>6
<1>10. CASE AdvanceTail
  <2>1. TypeOK' /\ T + 1 \in 0..(m - 1) /\ Good(m, ring, T + 1, lo)'
    BY <1>3, <1>4, <1>10, AdvanceTailStep
  <2>2. /\ ProdGoes("advance", "idle") /\ cons' = cons /\ sizing' = sizing
        /\ puts' = puts + 1 /\ taken' = taken /\ frontBlock' = frontBlock
    BY <1>10 DEF AdvanceTail, ProducerOnly
  <2>3. prod.at = "advance" /\ prod'.at = "idle"  BY <1>4, <2>2, ProdGoesFacts DEF Free
  <2>4. lo[ring[T + 1]] = puts
    <3>1. ProdInv(m, ring, T, lo)  BY <1>3 DEF Good
    <3>2. prod.to = ring[T + 1] /\ lo[prod.to] = puts  BY <2>3, <3>1 DEF ProdInv, NextIsTo
    <3> QED BY <3>2
  <2>5. SizeInv(m, ring, T + 1, lo)'
    BY <1>3, <1>4, <2>1, <2>2, <2>3, <2>4, SizeAdvanceTail
  <2> QED BY <1>5, <2>1, <2>5
<1>11. CASE \/ \E op \in Ops : Get(op)
            \/ LookAtTail \/ Recheck \/ LookAtTailBlock \/ LookAtNext \/ TakeSlot
  <2>1. TypeOK' /\ Good(m, ring, T, lo)'
    BY <1>3, <1>4, <1>11, GetStep, RefreshTailStep, LookAtTailBlockStep, LookAtNextStep,
       TakeSlotStep
  <2>2. ConsumerMoved /\ taken' = taken
    <3>1. ConsumerMoved  BY <1>4, <1>11, ConsumerQuiet
    <3>2. taken' = taken
      BY <1>11 DEF Get, LookAtTail, Recheck, LookAtTailBlock, LookAtNext, TakeSlot, RefreshTail
    <3> QED BY <3>1, <3>2
  <2>3. \A i \in 0..(m - 1) : lo[ring[i]] = IF i = 0 THEN taken' ELSE lo[ring[i]]
    BY <1>4, <2>2
  <2>4. SizeInv(m, ring, T, lo)'  BY <1>3, <1>4, <2>2, <2>3, SizeConsumer
  <2> QED BY <1>6, <2>1, <2>4
<1>12. CASE GiveUpSlot
  <2>1. TypeOK' /\ \E lo1 \in [Nat -> Nat] :
          /\ \A i \in 0..(m - 1) : lo1[ring[i]] = IF i = 0 THEN taken' ELSE lo[ring[i]]
          /\ Good(m, ring, T, lo1)'
    BY <1>3, <1>4, <1>12, GiveUpSlotStep
  <2>2. PICK lo1 \in [Nat -> Nat] :
          /\ \A i \in 0..(m - 1) : lo1[ring[i]] = IF i = 0 THEN taken' ELSE lo[ring[i]]
          /\ Good(m, ring, T, lo1)'
    BY <2>1
  <2>3. ConsumerMoved  BY <1>4, <1>12, ConsumerQuiet
  <2>4. SizeInv(m, ring, T, lo1)'  BY <1>3, <1>4, <2>2, <2>3, SizeConsumer
  <2> QED BY <1>5, <2>1, <2>2, <2>4
<1>13. CASE AdvanceFront
  <2>1. /\ TypeOK' /\ T - 1 \in 0..(m - 1)
        /\ \E ring1 \in [Nat -> Nat] :
             /\ \A i \in 0..(m - 1) : ring1[IF i = 0 THEN m - 1 ELSE i - 1] = ring[i]
             /\ Good(m, ring1, T - 1, lo)'
    BY <1>3, <1>4, <1>13, AdvanceFrontStep
  <2>2. PICK ring1 \in [Nat -> Nat] :
          /\ \A i \in 0..(m - 1) : ring1[IF i = 0 THEN m - 1 ELSE i - 1] = ring[i]
          /\ Good(m, ring1, T - 1, lo)'
    BY <2>1
  <2>3. /\ ConsGoes("advance", "take") /\ prod' = prod /\ sizing' = sizing
        /\ puts' = puts /\ taken' = taken
    BY <1>13 DEF AdvanceFront, ConsumerOnly
  <2>4. cons.at = "advance" /\ cons'.at = "take"  BY <1>4, <2>3, ConsGoesFacts DEF ConsBusy
  <2>5. T >= 1  BY <1>3, <2>4 DEF Good, ConsInv
  <2>6. SizeInv(m, ring1, T - 1, lo)'
    BY <1>3, <1>4, <2>2, <2>3, <2>4, <2>5, SizeAdvanceFront
  <2> QED BY <1>5, <2>1, <2>2, <2>6
<1>14. CASE \E t \in Threads : SizeApprox(t) \/ SizeStep(t) \/ SizeReturn(t)
  <2>1. TypeOK' /\ Good(m, ring, T, lo)'  BY <1>3, <1>4, <1>14, SizeSteps
  <2>2. PICK t \in Threads : SizeApprox(t) \/ SizeStep(t) \/ SizeReturn(t)  BY <1>14
  <2>3. SizeInv(m, ring, T, lo)'
    <3>1. CASE SizeApprox(t)  BY <1>3, <1>4, <3>1, SizeStart
    <3>2. CASE SizeReturn(t)  BY <1>3, <1>4, <3>2, SizeEnds
    <3>3. CASE SizeStep(t)
      <4>1. SizeStep("producer") \/ SizeStep("consumer")  BY <3>3 DEF Threads
      <4> QED BY <1>3, <1>4, <4>1, SizeProducerCounts, SizeConsumerCounts
    <3> QED BY <2>2, <3>1, <3>2, <3>3
  <2> QED BY <1>6, <2>1, <2>3
<1>15. CASE Destroy
  <2>1. TypeOK' /\ Good(m, ring, T, lo)'  BY <1>3, <1>4, <1>15, DestroyStep
  <2>2. SizeInv(m, ring, T, lo)'  BY <1>3, <1>4, <1>15, SizeDestroyed
  <2> QED BY <1>6, <2>1, <2>2
<1> QED
  BY <1>7, <1>8, <1>9, <1>10, <1>11, <1>12, <1>13, <1>14, <1>15
  DEF Next, Calls, ProducerStep, ConsumerStep, Threads

\* Each step is one thread's, or destroys the queue.
ProducersTurn == cons' = cons /\ prod.at # "gone" /\ prod'.at # "gone"
ConsumersTurn == prod' = prod /\ cons.at # "gone" /\ Rested'

\* Steps of the producer leave the consumer alone, those of the consumer
\* leave the producer alone, and neither destroys the queue.
LEMMA Turns ==
  ASSUME TypeOK, Rested, Next
  PROVE  ProducersTurn \/ ConsumersTurn \/ Destroy
<1>1. ASSUME NEW from \in (Free \cup Busy) \ {"gone"}, NEW to \in (Free \cup Busy) \ {"gone"},
             ProdGoes(from, to), cons' = cons
      PROVE  ProducersTurn
  <2>1. prod.at = from /\ prod'.at = to  BY <1>1, ProdGoesFacts
  <2> QED BY <1>1, <2>1 DEF ProducersTurn
<1>2. ASSUME NEW from \in (Free \cup ConsBusy) \ {"gone"}, NEW to \in (Free \cup ConsBusy) \ {"gone"},
             ConsGoes(from, to), prod' = prod,
             to \in Free => to = "idle" \/ from \in Free
      PROVE  ConsumersTurn
  <2>1. /\ cons.at = from /\ cons'.at = to
        /\ to # "idle" => cons'.wasEmpty = cons.wasEmpty
    BY <1>2, ConsGoesFacts
  <2>2. to = "idle" => cons'.wasEmpty = FALSE  BY <1>2 DEF ConsGoes, IdleCons
  <2> QED BY <1>2, <2>1, <2>2 DEF ConsumersTurn, Rested
<1>3. /\ Free = {"idle", "size", "sized", "gone"}
      /\ Busy = {"refresh", "write", "publish", "full", "ahead", "alloc", "link", "advance"}
      /\ ConsBusy = {"take", "refresh", "tailblock", "recheck", "next", "advance", "front"}
  BY DEF Free, Busy, ConsBusy
<1>4. CASE \E alloc \in BOOLEAN : Enqueue(alloc)
  BY <1>4 DEF Enqueue, ProducerOnly, ProducersTurn
<1>5. CASE \E op \in Ops : Get(op)
  <2>1. PICK op \in Ops : Get(op)  BY <1>5
  <2>2. cons'.at \in {"take", "refresh"} /\ cons.at = "idle" /\ prod' = prod
    BY <2>1 DEF Get, ConsumerOnly
  <2> QED BY <1>3, <2>2 DEF ConsumersTurn, Rested
<1>6. CASE \E t \in Threads : SizeApprox(t) \/ SizeStep(t) \/ SizeReturn(t)
  <2>1. PICK t \in Threads : SizeApprox(t) \/ SizeStep(t) \/ SizeReturn(t)  BY <1>6
  <2>2. PICK from \in {"idle", "size", "sized"}, to \in {"idle", "size", "sized"} :
          SizeGoes(t, from, to)
    BY <2>1 DEF SizeApprox, SizeStep, SizeReturn
  <2>3. /\ from \in (Free \cup Busy) \ {"gone"} /\ to \in (Free \cup Busy) \ {"gone"}
        /\ from \in (Free \cup ConsBusy) \ {"gone"} /\ to \in (Free \cup ConsBusy) \ {"gone"}
        /\ from \in Free
    BY <1>3
  <2>4. (ProdGoes(from, to) /\ cons' = cons) \/ (ConsGoes(from, to) /\ prod' = prod)
    BY <2>2 DEF SizeGoes
  <2> QED BY <1>1, <1>2, <2>3, <2>4
<1>7. CASE \/ RefreshFront \/ WriteSlot \/ PublishTail \/ UseNextBlock
           \/ OutOfMemory \/ LinkBlock \/ AdvanceTail
  <2>1. \E from, to \in Busy \cup {"idle"} : ProdGoes(from, to) /\ cons' = cons
    BY <1>3, <1>7 DEF RefreshFront, WriteSlot, PublishTail, UseNextBlock, OutOfMemory,
                      LinkBlock, AdvanceTail, ProducerOnly
  <2>2. Busy \cup {"idle"} \subseteq (Free \cup Busy) \ {"gone"}  BY <1>3
  <2> QED BY <1>1, <2>1, <2>2
<1>8. CASE TailBlockFull
  <2>1. CASE NextFree
    BY <1>8, <2>1 DEF TailBlockFull, ProducerOnly, ProducersTurn, TypeOK, ProdType
  <2>2. CASE ~NextFree
    <3>1. \E to \in {"alloc", "idle"} : ProdGoes("full", to) /\ cons' = cons
      BY <1>8, <2>2 DEF TailBlockFull, ProducerOnly
    <3> QED BY <1>1, <1>3, <3>1
  <2> QED BY <2>1, <2>2
<1>9. CASE AllocateBlock
  <2>1. /\ prod.at = "alloc" /\ cons' = cons
        /\ prod' = [prod EXCEPT !.at = "link", !.to = Len(block) + 1]
    BY <1>9 DEF AllocateBlock, ProducerOnly
  <2> QED BY <2>1 DEF ProducersTurn, TypeOK, ProdType
<1>10. CASE \/ LookAtTail \/ LookAtTailBlock \/ Recheck \/ LookAtNext \/ AdvanceFront
            \/ TakeSlot \/ GiveUpSlot
  <2>1. \E from, to \in ConsBusy \cup {"idle"} : ConsGoes(from, to) /\ prod' = prod
    BY <1>3, <1>10 DEF LookAtTail, LookAtTailBlock, Recheck, LookAtNext, AdvanceFront,
                       TakeSlot, GiveUpSlot, RefreshTail, ConsumerOnly
  <2>2. /\ ConsBusy \cup {"idle"} \subseteq (Free \cup ConsBusy) \ {"gone"}
        /\ \A to \in ConsBusy \cup {"idle"} : to \in Free => to = "idle"
    BY <1>3
  <2> QED BY <1>2, <2>1, <2>2
<1> QED
  BY <1>4, <1>5, <1>6, <1>7, <1>8, <1>9, <1>10
  DEF Next, Calls, ProducerStep, ConsumerStep, Threads

\* Every step keeps it all.
LEMMA NextInv ==
  ASSUME Inv, [Next]_vars
  PROVE  Inv'
<1>1. IInv /\ TypeOK /\ NothingLeaks /\ Rested  BY DEF Inv, IInv
<1>2. CASE UNCHANGED vars
  <2>1. /\ block' = block /\ made' = made /\ frontBlock' = frontBlock /\ tailBlock' = tailBlock
        /\ largestBlockSize' = largestBlockSize /\ prod' = prod /\ cons' = cons
        /\ sizing' = sizing /\ puts' = puts /\ taken' = taken /\ answer' = answer
    BY <1>2 DEF vars, indexVars
  <2>2. TypeOK'  BY <1>1, <2>1 DEF TypeOK, BlocksOK, Blocks, ProdType
  <2>3. \A b : Items(b)' = Items(b) /\ Full(b)' = Full(b) /\ \A i : FromFront(b, i)' = FromFront(b, i)
    BY <2>1 DEF Items, Full, FromFront
  <2>4. ASSUME NEW m, NEW ring, NEW T, NEW lo, Good(m, ring, T, lo)
        PROVE  Good(m, ring, T, lo)'
    <3>1. /\ Shape(m, ring, T) /\ Views /\ Filled(lo) /\ Room(m)
          /\ Chain(m, ring, T, lo) /\ ProdInv(m, ring, T, lo) /\ ConsInv(T)
      BY <2>4 DEF Good
    <3>2. Shape(m, ring, T)'  BY <2>1, <3>1 DEF Shape, Circle, Blocks
    <3>3. Views'  BY <2>1, <2>3, <3>1 DEF Views, Blocks
    <3>4. Filled(lo)'  BY <2>1, <2>3, <3>1 DEF Filled, Content, Blocks
    <3>5. Room(m)'  BY <2>1, <3>1 DEF Room, Blocks
    <3>6. Chain(m, ring, T, lo)'  BY <2>1, <2>3, <3>1 DEF Chain, Counted
    <3>7. ProdInv(m, ring, T, lo)'  BY <2>1, <2>3, <3>1 DEF ProdInv, NextIsTo, Full, Items, FromFront, After
    <3>8. ConsInv(T)'  BY <2>1, <3>1 DEF ConsInv, NextOfFront, Items, FromFront
    <3> QED BY <3>2, <3>3, <3>4, <3>5, <3>6, <3>7, <3>8 DEF Good
  <2>5. ASSUME NEW m, NEW ring, NEW T, NEW lo, SizeInv(m, ring, T, lo)
        PROVE  SizeInv(m, ring, T, lo)'
    BY <2>1, <2>5 DEF SizeInv, OneMeasures, SizeInRange, ConsWalks, ProdWalks, ConsWalk,
                      ProdWalk, Length, InFlight
  <2>6. IInv'  BY <1>1, <2>2, <2>4, <2>5 DEF IInv
  <2>7. NothingLeaks' /\ Rested'  BY <1>1, <2>1 DEF NothingLeaks, Rested
  <2> QED BY <2>6, <2>7 DEF Inv
<1>3. CASE Next
  <2>1. IInv'  BY <1>1, <1>3, NextGood
  <2>2. CASE ProducersTurn
    BY <1>1, <2>1, <2>2 DEF ProducersTurn, Inv, NothingLeaks, Rested
  <2>3. CASE ConsumersTurn
    <3>1. prod'.at # "gone"  BY <1>1, <2>3 DEF ConsumersTurn, TypeOK
    <3> QED BY <2>1, <2>3, <3>1 DEF ConsumersTurn, Inv, NothingLeaks
  <2>4. CASE Destroy
    <3>1. PICK m \in Nat : \E T \in 0..(m - 1) :
            \E ring \in [Nat -> Nat], lo \in [Nat -> Nat] : Good(m, ring, T, lo)
      BY <1>1 DEF IInv
    <3>2. /\ \A b \in Blocks : \A i \in 0..(block[b].size - 1) : block'[b].data[i] = 0
          /\ \A b \in Blocks : block'[b].data \in [0..(block[b].size - 1) -> Nat]
          /\ \A b \in Blocks : block[b].size \in Nat /\ block[b].size > 1
          /\ Blocks' = Blocks
      BY <1>1, <2>4, <3>1, DestroyStep
    <3>3. ASSUME NEW b \in Blocks PROVE Range(block'[b].data) = {0}
      <4>1. 0 \in 0..(block[b].size - 1)  BY <3>2
      <4>2. DOMAIN block'[b].data = 0..(block[b].size - 1)  BY <3>2
      <4> QED BY <3>2, <4>1, <4>2 DEF Range
    <3>4. NothingLeaks'
      <4>1. \A b \in Blocks' : Range(block'[b].data) = {0}  BY <3>2, <3>3
      <4> QED BY <4>1 DEF NothingLeaks, Blocks
    <3>5. Rested'
      <4>1. cons.at = "idle" /\ cons' = [cons EXCEPT !.at = "gone"]  BY <2>4 DEF Destroy
      <4>2. cons.wasEmpty = FALSE  BY <1>1, <4>1 DEF Rested, Free
      <4>3. cons'.wasEmpty = FALSE  BY <1>1, <4>1, <4>2 DEF TypeOK, ConsType
      <4> QED BY <4>3 DEF Rested
    <3> QED BY <2>1, <3>4, <3>5 DEF Inv
  <2> QED BY <1>1, <1>3, <2>2, <2>3, <2>4, Turns
<1> QED BY <1>2, <1>3

\* It holds when the queue has been made.
LEMMA InitInv == Init => Inv
<1>1. Init => NothingLeaks /\ Rested  BY DEF Init, NothingLeaks, Rested, IdleProd, IdleCons
<1> QED BY <1>1, InitGood DEF Inv

\* In every reachable state, whatever the two threads have done, the blocks
\* and indices are consistent with each other and with the numbers of the items
\* put and taken (readerwriterqueue.h 67-528).
THEOREM Invariance == Spec => []Inv
<1> QED BY InitInv, NextInv, PTL DEF Spec

\* The destructor destroys every element that was enqueued and not dequeued,
\* for queues of any size and any number of items (readerwriterqueue.h 139-165).
THEOREM LeaksNothing == Spec => []NothingLeaks
<1>1. Inv => NothingLeaks  BY DEF Inv
<1> QED BY <1>1, Invariance, PTL

\* size_approx may be called from either thread while the other goes on: what it
\* returns lies between what the queue held when it was called and what it holds
\* when it returns, give or take the one item on its way into a new block, for
\* queues of any size and any number of blocks, walked while blocks are linked,
\* filled, emptied and passed (readerwriterqueue.h 412-427).
THEOREM SizeStaysInRange == Spec => []SizeInRange
<1>1. Inv => SizeInRange  BY DEF Inv, IInv, SizeInv
<1> QED BY <1>1, Invariance, PTL

\* Neither thread uses a slot that is the other's: the asserts of the queue hold,
\* the producer constructs only where nothing is and the consumer reads only what
\* was constructed, for queues of any size and any number of items
\* (readerwriterqueue.h 234-235, 272, 280-282, 337, 388, 460, 479, 486).
THEOREM OwnsSlots == Spec => []SlotsOwned
<1>1. ASSUME Inv PROVE SlotsOwned
  <2>1. TypeOK  BY <1>1 DEF Inv, IInv
  <2>2. PICK m \in Nat : \E T \in 0..(m - 1) :
          \E ring \in [Nat -> Nat], lo \in [Nat -> Nat] : Good(m, ring, T, lo)
    BY <1>1 DEF Inv, IInv
  <2>3. PICK T \in 0..(m - 1) :
          \E ring \in [Nat -> Nat], lo \in [Nat -> Nat] : Good(m, ring, T, lo)
    BY <2>2
  <2>4. PICK ring \in [Nat -> Nat], lo \in [Nat -> Nat] : Good(m, ring, T, lo)  BY <2>3
  <2>5. /\ Shape(m, ring, T) /\ Views /\ Filled(lo) /\ Room(m)
        /\ Chain(m, ring, T, lo) /\ ProdInv(m, ring, T, lo) /\ ConsInv(T)
    BY <2>4 DEF Good
  <2>6. \A b \in Blocks : Items(b) = 0 <=> block[b].front = block[b].tail
    BY <2>1, <2>5, BlockFacts
  <2>7. prod.to \in Blocks /\ frontBlock \in Blocks /\ taken \in Nat  BY <2>1 DEF TypeOK, ProdType
  <2>8. cons.at = "next" => block[NextOfFront].front # block[NextOfFront].tail
    <3> SUFFICES ASSUME cons.at = "next"
                 PROVE  block[NextOfFront].front # block[NextOfFront].tail
      OBVIOUS
    <3>1. T >= 1  BY <2>5 DEF ConsInv
    <3>2. NextOfFront \in Blocks /\ NextOfFront = ring[1] /\ Items(ring[1]) > 0
      BY <2>1, <2>5, <3>1, ChainEnds
    <3>3. Items(NextOfFront) # 0  BY <3>2
    <3> QED BY <2>6, <3>2, <3>3
  <2>9. prod.at = "ahead" => block[prod.to].front = block[prod.to].tail
    <3> SUFFICES ASSUME prod.at = "ahead" PROVE block[prod.to].front = block[prod.to].tail
      OBVIOUS
    <3>1. T + 1 <= m - 1 /\ prod.to = ring[T + 1]  BY <2>5 DEF ProdInv, NextIsTo
    <3>2. T + 1 \in (T + 1)..(m - 1)  BY <3>1
    <3>3. Items(ring[T + 1]) = 0  BY <2>5, <3>2 DEF Chain
    <3> QED BY <2>6, <2>7, <3>1, <3>3
  <2>10. prod.at = "write" => block[prod.to].data[block[prod.to].tail] = 0
    <3> SUFFICES ASSUME prod.at = "write" PROVE block[prod.to].data[block[prod.to].tail] = 0
      OBVIOUS
    <3>1. PICK b \in Blocks : b = prod.to  BY <2>7
    <3>2. block[b].tail \in 0..(block[b].size - 1) /\ Items(b) \in Nat
      BY <2>1, <2>5, BlockFacts, BlockNats
    <3>3. block[b].data[block[b].tail] = Content(lo, b, FromFront(b, block[b].tail))
      BY <2>5, <3>2 DEF Filled
    <3>4. FromFront(b, block[b].tail) = Items(b)  BY DEF Items
    <3>5. Content(lo, b, Items(b)) = 0  BY <3>2 DEF Content
    <3> QED BY <3>1, <3>3, <3>4, <3>5
  <2>11. cons.at = "take" => First(frontBlock) # 0
    <3>1. cons.at = "take" => First(frontBlock) = taken + 1  BY <2>1, <2>4, FirstItem
    <3> QED BY <2>7, <3>1
  <2> QED BY <2>8, <2>9, <2>10, <2>11 DEF SlotsOwned
<1> QED BY <1>1, Invariance, PTL

----------------------------------------------------------------------------
(* The queue the blocks amount to.                                         *)

\* The n numbers after a.
Segment(a, n) == [k \in 1..n |-> a + k]

\* Putting one number at the end, taking one from the front.
LEMMA SegmentFacts ==
  ASSUME NEW a \in Nat, NEW n \in Nat
  PROVE  /\ Segment(a, n) \in Seq(Nat) /\ Len(Segment(a, n)) = n
         /\ Segment(a, n) = <<>> <=> n = 0
         /\ Append(Segment(a, n), a + n + 1) = Segment(a, n + 1)
         /\ n > 0 => /\ Head(Segment(a, n)) = a + 1
                     /\ Tail(Segment(a, n)) = Segment(a + 1, n - 1)
<1>1. Segment(a, n) \in Seq(Nat) /\ Len(Segment(a, n)) = n  BY DEF Segment
<1>2. Segment(a, n) = <<>> <=> n = 0
  BY <1>1, EmptySeq DEF Segment
<1>3. Append(Segment(a, n), a + n + 1) = Segment(a, n + 1)
  <2>1. Segment(a, n + 1) \in Seq(Nat) /\ Len(Segment(a, n + 1)) = n + 1  BY DEF Segment
  <2>2. /\ Append(Segment(a, n), a + n + 1) \in Seq(Nat)
        /\ Len(Append(Segment(a, n), a + n + 1)) = n + 1
    BY <1>1
  <2>3. ASSUME NEW k \in 1..(n + 1)
        PROVE  Append(Segment(a, n), a + n + 1)[k] = Segment(a, n + 1)[k]
    <3>1. Segment(a, n + 1)[k] = a + k  BY DEF Segment
    <3>2. k <= n => Segment(a, n)[k] = a + k  BY DEF Segment
    <3> QED BY <1>1, <3>1, <3>2
  <2> QED BY <2>1, <2>2, <2>3, SeqEqual
<1>4. ASSUME n > 0
      PROVE  /\ Head(Segment(a, n)) = a + 1
             /\ Tail(Segment(a, n)) = Segment(a + 1, n - 1)
  <2>1. Head(Segment(a, n)) = a + 1  BY <1>1, <1>4 DEF Segment
  <2>2. /\ Segment(a + 1, n - 1) \in Seq(Nat) /\ Len(Segment(a + 1, n - 1)) = n - 1
    BY <1>4 DEF Segment
  <2>3. Tail(Segment(a, n)) \in Seq(Nat) /\ Len(Tail(Segment(a, n))) = n - 1
    BY <1>1, <1>2, <1>4, HeadTailProperties
  <2>4. ASSUME NEW k \in 1..(n - 1)
        PROVE  Tail(Segment(a, n))[k] = Segment(a + 1, n - 1)[k]
    <3>1. Segment(a + 1, n - 1)[k] = a + 1 + k /\ Segment(a, n)[k + 1] = a + (k + 1)
      BY DEF Segment
    <3>2. Tail(Segment(a, n))[k] = Segment(a, n)[k + 1]  BY <1>1, <1>2, <1>4, <2>3, HeadTailProperties
    <3>3. a + 1 + k = a + (k + 1)  OBVIOUS
    <3> QED BY <3>1, <3>2, <3>3
  <2> QED BY <2>1, <2>2, <2>3, <2>4, SeqEqual
<1> QED BY <1>1, <1>2, <1>3, <1>4

\* The abstract queue's variables that are not the detailed queue's own.
Held == IF cons.at = "gone" THEN <<>> ELSE [k \in 1..Length |-> taken + k]
Putting == prod.at \notin Free
Getting == IF cons.at \in Free THEN "no" ELSE IF cons.op = "peek" THEN "look" ELSE "take"
Shown == IF cons.at = "front" THEN 0 ELSE answer

\* What the consumer's side of it depends on, and what the producer's.
SameGet == Getting' = Getting /\ cons'.wasEmpty = cons.wasEmpty /\ Shown' = Shown
SamePut == Putting' = Putting /\ prod'.held = prod.held
SameHeld == made' = made /\ Held' = Held /\ puts' = puts

\* What each step of the abstract queue is in these terms.
LEMMA QueueStutters ==
  ASSUME SameGet, SamePut, SameHeld
  PROVE  UNCHANGED Queue!vars
BY DEF SameGet, SamePut, SameHeld, Queue!vars, Held, Putting, Getting, Shown

\* A put is called.
LEMMA QueueCallsPut ==
  ASSUME ~Putting, Putting', prod'.held = Len(Held), SameGet, SameHeld
  PROVE  Queue!CallPut
BY DEF SameGet, SameHeld, Queue!CallPut, Held, Putting, Getting, Shown

\* It ends with the item in the queue.
LEMMA QueuePuts ==
  ASSUME Putting, ~Putting', Held' = Append(Held, puts + 1), puts' = puts + 1,
         prod'.held = 0, made' = made, SameGet
  PROVE  Queue!Put
BY DEF SameGet, Queue!Put, Held, Putting, Getting, Shown

\* It ends without.
LEMMA QueueRefuses ==
  ASSUME Putting, ~Putting', prod.held >= made.maxSize, prod'.held = 0, SameGet, SameHeld
  PROVE  Queue!Refuse
BY DEF SameGet, SameHeld, Queue!Refuse, Held, Putting, Getting, Shown

\* A get is called.
LEMMA QueueCallsGet ==
  ASSUME Getting = "no", Getting' \in {"take", "look"}, cons'.wasEmpty = (Held = <<>>),
         Shown' = 0, SamePut, SameHeld
  PROVE  \E op \in {"take", "look"} : Queue!CallGet(op)
BY DEF SamePut, SameHeld, Queue!CallGet, Held, Putting, Getting, Shown

\* It takes the oldest item.
LEMMA QueueTakes ==
  ASSUME Getting = "take", Getting' = "no", cons'.wasEmpty = FALSE, Held # <<>>,
         Shown' = Head(Held), Held' = Tail(Held), made' = made, puts' = puts, SamePut
  PROVE  Queue!Take
BY DEF SamePut, Queue!Take, Held, Putting, Getting, Shown

\* It looks at the oldest item.
LEMMA QueueLooks ==
  ASSUME Getting = "look", Getting' = "no", cons'.wasEmpty = FALSE, Held # <<>>,
         Shown' = Head(Held), SamePut, SameHeld
  PROVE  Queue!Look
BY DEF SamePut, SameHeld, Queue!Look, Held, Putting, Getting, Shown

\* It finds none.
LEMMA QueueSaysEmpty ==
  ASSUME Getting # "no", Getting' = "no", cons'.wasEmpty = FALSE, cons.wasEmpty,
         Shown' = Shown, SamePut, SameHeld
  PROVE  Queue!SayEmpty
BY DEF SamePut, SameHeld, Queue!SayEmpty, Held, Putting, Getting, Shown

\* The queue is destroyed.
LEMMA QueueEnds ==
  ASSUME ~Putting, Held' = <<>>, Getting = "no", made' = made, puts' = puts,
         SameGet, SamePut
  PROVE  Queue!Destroy
BY DEF SameGet, SamePut, Queue!Destroy, Held, Putting, Getting, Shown

\* The queue is not empty, or its items are these.
\* As long as there is a queue, it holds the items after those taken.
LEMMA HeldItems ==
  ASSUME Inv, cons.at # "gone"
  PROVE  /\ taken \in Nat /\ puts \in Nat /\ puts - taken \in Nat
         /\ Held = Segment(taken, puts - taken)
         /\ Len(Held) = puts - taken
         /\ Held = <<>> <=> puts = taken
<1>1. TypeOK  BY DEF Inv, IInv
<1>2. taken <= puts
  <2>1. PICK m \in Nat : \E T \in 0..(m - 1) :
          \E ring \in [Nat -> Nat], lo \in [Nat -> Nat] : Good(m, ring, T, lo)
    BY DEF Inv, IInv
  <2> QED BY <1>1, <2>1, ChainEnds DEF Good
<1>3. taken <= puts  BY <1>2
<1>4. taken \in Nat /\ puts \in Nat /\ puts - taken \in Nat  BY <1>1, <1>3 DEF TypeOK
<1>5. Held = Segment(taken, puts - taken)  BY DEF Held, Segment, Length
<1>6. PICK n \in Nat : n = puts - taken  BY <1>4
<1>7. Held = Segment(taken, n)  BY <1>5, <1>6
<1>8. Len(Segment(taken, n)) = n /\ (Segment(taken, n) = <<>> <=> n = 0)
  BY <1>4, SegmentFacts
<1>9. n = 0 <=> puts = taken  BY <1>4, <1>6
<1> QED BY <1>4, <1>5, <1>6, <1>7, <1>8, <1>9

\* What a step of the producer leaves of the consumer's side, and the reverse.
LEMMA ProducerSame ==
  ASSUME ProducerOnly
  PROVE  /\ SameGet /\ made' = made /\ cons' = cons /\ taken' = taken
         /\ puts' = puts => SameHeld
BY DEF ProducerOnly, SameGet, SameHeld, Getting, Shown, Held, Length

\* The same for a step of the consumer.
LEMMA ConsumerSame ==
  ASSUME ConsumerOnly, cons.at # "gone", cons'.at # "gone"
  PROVE  /\ SamePut /\ made' = made /\ prod' = prod /\ puts' = puts
         /\ taken' = taken => SameHeld
BY DEF ConsumerOnly, SamePut, SameHeld, Putting, Held, Length

\* A call of enqueue or try_enqueue is the call of a put.
LEMMA EnqueueMaps ==
  ASSUME Inv, Inv', NEW alloc \in BOOLEAN, Enqueue(alloc)
  PROVE  Queue!CallPut
<1>1. /\ ProducerOnly /\ puts' = puts
      /\ prod.at = "idle" /\ prod'.at \in {"write", "refresh"} /\ prod'.held = puts - taken
  BY DEF Enqueue, Length
<1>2. cons.at # "gone"  BY <1>1 DEF Inv, IInv, TypeOK
<1>3. prod'.held = Len(Held)  BY <1>1, <1>2, HeldItems
<1>4. ~Putting /\ Putting'  BY <1>1 DEF Putting, Free
<1> QED BY <1>1, <1>3, <1>4, ProducerSame, QueueCallsPut

\* The producer's other steps, by where they lead.
LEMMA ProducerWorks ==
  ASSUME ProducerOnly, puts' = puts, prod.at \in Busy, prod'.at \in Busy,
         prod'.held = prod.held
  PROVE  UNCHANGED Queue!vars
<1>1. SamePut  BY DEF SamePut, Putting, Free, Busy
<1> QED BY <1>1, ProducerSame, QueueStutters

\* The step that makes the item visible is the put.
LEMMA ProducerPuts ==
  ASSUME Inv, ProducerOnly, puts' = puts + 1, prod.at \in Busy, prod' = IdleProd
  PROVE  Queue!Put
<1>1. cons.at # "gone" /\ cons'.at # "gone"
  <2>1. prod.at # "gone"  BY DEF Busy
  <2> QED BY <2>1, ProducerSame DEF Inv, IInv, TypeOK
<1>2. PICK n \in Nat : n = puts - taken  BY <1>1, HeldItems
<1>3. Held = Segment(taken, n) /\ taken \in Nat /\ puts \in Nat  BY <1>1, <1>2, HeldItems
<1>4. puts' - taken' = n + 1 /\ taken' = taken /\ taken + n + 1 = puts + 1
  BY <1>2, <1>3, ProducerSame
<1>5. Held' = Segment(taken, n + 1)  BY <1>1, <1>4 DEF Held, Segment, Length
<1>6. Held' = Append(Held, puts + 1)
  <2>1. Append(Segment(taken, n), taken + n + 1) = Segment(taken, n + 1)  BY <1>3, SegmentFacts
  <2>2. taken + n + 1 = puts + 1  BY <1>4
  <2> QED BY <1>3, <1>5, <2>1, <2>2
<1>7. Putting /\ ~Putting' /\ prod'.held = 0  BY DEF Putting, Free, Busy, IdleProd
<1> QED BY <1>6, <1>7, ProducerSame, QueuePuts

\* The step that gives up is a refusal.
LEMMA ProducerRefused ==
  ASSUME ProducerOnly, puts' = puts, prod.at \in Busy, prod' = IdleProd,
         prod.held >= made.maxSize
  PROVE  Queue!Refuse
<1>1. Putting /\ ~Putting' /\ prod'.held = 0  BY DEF Putting, Free, Busy, IdleProd
<1> QED BY <1>1, ProducerSame, QueueRefuses

\* A block the producer cannot move on from is the last of the circle.
LEMMA NoneFree ==
  ASSUME NEW m \in Nat, NEW ring \in [Nat -> Nat], NEW T \in 0..(m - 1), NEW lo \in [Nat -> Nat],
         Good(m, ring, T, lo), ~NextFree
  PROVE  T = m - 1
<1>1. T # m - 1 => T + 1 \in 0..(m - 1) /\ 0 \in 0..(m - 1)  OBVIOUS
<1>2. /\ \A i, j \in 0..(m - 1) : j = i + 1 => block[ring[i]].next = ring[j]
      /\ \A i, j \in 0..(m - 1) : ring[i] = ring[j] => i = j
      /\ ring[0] = frontBlock /\ ring[T] = tailBlock
  BY DEF Good, Shape, Circle
<1> QED BY <1>1, <1>2 DEF NextFree

\* All the steps of a put.
LEMMA ProducerMaps ==
  ASSUME Inv,
         \/ RefreshFront \/ WriteSlot \/ PublishTail \/ TailBlockFull \/ UseNextBlock
         \/ OutOfMemory \/ AllocateBlock \/ LinkBlock \/ AdvanceTail
  PROVE  Queue!Put \/ Queue!Refuse \/ UNCHANGED Queue!vars
<1>1. prod \in ProdType  BY DEF Inv, IInv, TypeOK
<1>2. ASSUME NEW from \in Busy, NEW to \in Busy, ProdGoes(from, to)
      PROVE  prod.at = from /\ prod'.at = to /\ prod'.held = prod.held
  BY <1>1, <1>2 DEF ProdGoes, ProdType, Busy
<1>3. ASSUME NEW from \in Busy, ProdGoes(from, "idle")
      PROVE  prod.at = from /\ prod' = IdleProd
  BY <1>3 DEF ProdGoes
<1>4. {"refresh", "write", "publish", "full", "ahead", "alloc", "link", "advance"} \subseteq Busy
  BY DEF Busy
<1>5. CASE RefreshFront \/ WriteSlot \/ UseNextBlock \/ LinkBlock
  <2>1. /\ \E from, to \in Busy : ProdGoes(from, to)
        /\ ProducerOnly /\ puts' = puts
    BY <1>4, <1>5 DEF RefreshFront, WriteSlot, UseNextBlock, LinkBlock
  <2> QED BY <1>2, <2>1, ProducerWorks
<1>6. CASE AllocateBlock
  <2>1. /\ prod.at = "alloc" /\ prod'.at = "link" /\ prod'.held = prod.held
        /\ ProducerOnly /\ puts' = puts
    BY <1>1, <1>6 DEF AllocateBlock, ProdType
  <2> QED BY <1>4, <2>1, ProducerWorks
<1>7. CASE PublishTail
  <2>1. CASE prod.to = tailBlock
    <3>1. ProdGoes("publish", "idle") /\ puts' = puts + 1 /\ ProducerOnly
      BY <1>7, <2>1 DEF PublishTail
    <3> QED BY <1>3, <1>4, <3>1, ProducerPuts
  <2>2. CASE prod.to # tailBlock
    <3>1. ProdGoes("publish", "advance") /\ puts' = puts /\ ProducerOnly
      BY <1>7, <2>2 DEF PublishTail
    <3> QED BY <1>2, <1>4, <3>1, ProducerWorks
  <2> QED BY <2>1, <2>2
<1>8. CASE AdvanceTail
  <2>1. ProdGoes("advance", "idle") /\ puts' = puts + 1 /\ ProducerOnly  BY <1>8 DEF AdvanceTail
  <2> QED BY <1>3, <1>4, <2>1, ProducerPuts
<1>9. PICK m \in Nat : \E T \in 0..(m - 1) :
        \E ring \in [Nat -> Nat], lo \in [Nat -> Nat] : Good(m, ring, T, lo)
  BY DEF Inv, IInv
<1>10. PICK T \in 0..(m - 1) :
        \E ring \in [Nat -> Nat], lo \in [Nat -> Nat] : Good(m, ring, T, lo)
  BY <1>9
<1>11. PICK ring \in [Nat -> Nat], lo \in [Nat -> Nat] : Good(m, ring, T, lo)  BY <1>10
<1>12. CASE OutOfMemory
  <2>1. ProdGoes("alloc", "idle") /\ puts' = puts /\ ProducerOnly  BY <1>12 DEF OutOfMemory
  <2>2. prod.at = "alloc" /\ prod' = IdleProd  BY <1>3, <1>4, <2>1
  <2>3. prod.held >= made.maxSize  BY <1>11, <2>2 DEF Good, ProdInv
  <2> QED BY <1>4, <2>1, <2>2, <2>3, ProducerRefused
<1>13. CASE TailBlockFull
  <2>1. puts' = puts /\ ProducerOnly  BY <1>13 DEF TailBlockFull
  <2>2. CASE NextFree
    <3>1. prod.at = "full" /\ prod'.at = "ahead" /\ prod'.held = prod.held
      BY <1>1, <1>13, <2>2 DEF TailBlockFull, ProdType
    <3> QED BY <1>4, <2>1, <3>1, ProducerWorks
  <2>3. CASE ~NextFree /\ prod.alloc
    <3>1. ProdGoes("full", "alloc")  BY <1>13, <2>3 DEF TailBlockFull
    <3> QED BY <1>2, <1>4, <2>1, <3>1, ProducerWorks
  <2>4. CASE ~NextFree /\ ~prod.alloc
    <3>1. ProdGoes("full", "idle")  BY <1>13, <2>4 DEF TailBlockFull
    <3>2. prod.at = "full" /\ prod' = IdleProd  BY <1>3, <1>4, <3>1
    <3>3. T = m - 1  BY <1>11, <2>4, NoneFree
    <3>4. prod.held >= made.maxSize  BY <1>11, <3>2, <3>3 DEF Good, ProdInv
    <3> QED BY <1>4, <2>1, <3>2, <3>4, ProducerRefused
  <2> QED BY <2>2, <2>3, <2>4
<1> QED BY <1>5, <1>6, <1>7, <1>8, <1>12, <1>13

\* A call of try_dequeue, peek or pop is the call of a get.
LEMMA GetMaps ==
  ASSUME Inv, NEW op \in Ops, Get(op)
  PROVE  \E what \in {"take", "look"} : Queue!CallGet(what)
<1>1. /\ ConsumerOnly /\ taken' = taken /\ answer' = 0
      /\ cons.at = "idle" /\ cons'.at \in {"take", "refresh"}
      /\ cons'.wasEmpty = (puts - taken = 0)
  BY DEF Get, Length
<1>2. cons.at # "gone" /\ cons'.at # "gone"  BY <1>1
<1>3. cons'.wasEmpty = (Held = <<>>)  BY <1>1, <1>2, HeldItems
<1>4. /\ Getting = "no" /\ Getting' \in {"take", "look"} /\ Shown' = 0
  BY <1>1 DEF Getting, Shown, Free
<1> QED BY <1>1, <1>2, <1>3, <1>4, ConsumerSame, QueueCallsGet

\* Steps of a get that do not end it.
LEMMA ConsumerWorks ==
  ASSUME ConsumerOnly, taken' = taken, Shown' = Shown,
         cons.at \in ConsBusy, cons'.at \in ConsBusy,
         cons'.op = cons.op, cons'.wasEmpty = cons.wasEmpty
  PROVE  UNCHANGED Queue!vars
<1>1. cons.at # "gone" /\ cons'.at # "gone"  BY DEF ConsBusy
<1>2. SameGet  BY DEF SameGet, Getting, Free, ConsBusy
<1> QED BY <1>1, <1>2, ConsumerSame, QueueStutters

\* The oldest item is the one after those taken.
LEMMA HeldOldest ==
  ASSUME Inv, cons.at # "gone", puts > taken
  PROVE  Held # <<>> /\ Head(Held) = taken + 1
<1>1. PICK n \in Nat : n = puts - taken  BY HeldItems
<1>2. Held = Segment(taken, n) /\ taken \in Nat /\ puts \in Nat /\ n > 0
  BY <1>1, HeldItems
<1>3. Head(Segment(taken, n)) = taken + 1  BY <1>2, SegmentFacts
<1>4. Held # <<>>  BY <1>2, HeldItems
<1> QED BY <1>2, <1>3, <1>4

\* The end of a peek that found an item,
LEMMA ConsumerLooked ==
  ASSUME Inv, ConsumerOnly, taken' = taken, cons.at \in ConsBusy, cons.op = "peek",
         cons' = IdleCons, answer' = taken + 1, puts > taken
  PROVE  Queue!Look
<1>1. cons.at # "gone" /\ cons'.at # "gone"  BY DEF ConsBusy, IdleCons
<1>2. /\ Getting = "look" /\ Getting' = "no" /\ cons'.wasEmpty = FALSE
      /\ Shown' = taken + 1
  BY DEF Getting, Free, ConsBusy, IdleCons, Shown
<1> QED BY <1>1, <1>2, HeldOldest, ConsumerSame, QueueLooks

\* the end of a dequeue that found one,
LEMMA ConsumerTook ==
  ASSUME Inv, ConsumerOnly, taken' = taken + 1, answer' = answer, cons.at = "front",
         cons.op # "peek", cons' = IdleCons, answer = taken + 1, puts > taken
  PROVE  Queue!Take
<1>1. cons.at # "gone" /\ cons'.at # "gone"  BY DEF IdleCons
<1>2. /\ Getting = "take" /\ Getting' = "no" /\ cons'.wasEmpty = FALSE
      /\ Shown' = taken + 1
  BY DEF Getting, Free, IdleCons, Shown
<1>3. PICK n \in Nat : n = puts - taken  BY <1>1, HeldItems
<1>4. Held = Segment(taken, n) /\ taken \in Nat /\ puts \in Nat /\ n > 0
  BY <1>1, <1>3, HeldItems
<1>5. puts' - taken' = n - 1 /\ puts' = puts
  BY <1>1, <1>3, <1>4, ConsumerSame
<1>6. Held' = Segment(taken + 1, n - 1)  BY <1>1, <1>5 DEF Held, Segment, Length
<1>7. Held' = Tail(Held)
  <2>1. Tail(Segment(taken, n)) = Segment(taken + 1, n - 1)  BY <1>4, SegmentFacts
  <2> QED BY <1>4, <1>6, <2>1
<1> QED BY <1>1, <1>2, <1>7, HeldOldest, ConsumerSame, QueueTakes

\* and the end of a get that found none.
LEMMA ConsumerFoundNone ==
  ASSUME ConsumerOnly, taken' = taken, answer' = answer, cons.at \in ConsBusy \ {"front"},
         cons' = IdleCons, cons.wasEmpty
  PROVE  Queue!SayEmpty
<1>1. cons.at # "gone" /\ cons'.at # "gone"  BY DEF ConsBusy, IdleCons
<1>2. /\ Getting # "no" /\ Getting' = "no" /\ cons'.wasEmpty = FALSE
      /\ Shown' = Shown
  BY DEF Getting, Free, ConsBusy, IdleCons, Shown
<1> QED BY <1>1, <1>2, ConsumerSame, QueueSaysEmpty

\* The first item of the next block, when the front block is empty.
LEMMA NextItem ==
  ASSUME NEW m \in Nat, NEW ring \in [Nat -> Nat], NEW T \in 0..(m - 1), NEW lo \in [Nat -> Nat],
         TypeOK, Good(m, ring, T, lo), cons.at = "next"
  PROVE  First(NextOfFront) = taken + 1 /\ puts > taken
<1>1. /\ Views /\ Filled(lo) /\ Room(m) /\ ConsInv(T)
      /\ Shape(m, ring, T) /\ Chain(m, ring, T, lo)
  BY DEF Good
<1>2. T >= 1 /\ Items(frontBlock) = 0  BY <1>1 DEF ConsInv
<1>3. /\ NextOfFront \in Blocks /\ NextOfFront = ring[1]
      /\ lo[ring[1]] = taken + Items(frontBlock) /\ Items(ring[1]) > 0
      /\ puts > taken + Items(frontBlock)
  BY <1>1, <1>2, ChainEnds
<1>4. PICK b \in Blocks : b = NextOfFront  BY <1>3
<1>5. taken \in Nat /\ puts \in Nat /\ prod.at # "gone"  BY DEF TypeOK
<1>6. lo[b] = taken /\ Items(b) > 0 /\ puts > taken  BY <1>2, <1>3, <1>4, <1>5
<1>7. /\ block[b].front \in 0..(block[b].size - 1)
      /\ block[b].size \in Nat /\ block[b].size > 1
  BY <1>1, BlockFacts
<1>8. FromFront(b, block[b].front) = 0  BY <1>7 DEF FromFront, Dist
<1>9. block[b].data[block[b].front] = Content(lo, b, 0)
  BY <1>1, <1>5, <1>7, <1>8 DEF Filled
<1>10. Content(lo, b, 0) = taken + 0 + 1  BY <1>6 DEF Content
<1> QED BY <1>4, <1>5, <1>6, <1>9, <1>10 DEF First

\* All the steps of a get.
LEMMA ConsumerMaps ==
  ASSUME Inv,
         \/ LookAtTail \/ LookAtTailBlock \/ Recheck \/ LookAtNext \/ AdvanceFront
         \/ TakeSlot \/ GiveUpSlot
  PROVE  Queue!Take \/ Queue!Look \/ Queue!SayEmpty \/ UNCHANGED Queue!vars
<1>1. TypeOK /\ cons \in ConsType  BY DEF Inv, IInv, TypeOK
<1>2. ASSUME NEW from \in ConsBusy, NEW to \in ConsBusy, ConsGoes(from, to)
      PROVE  /\ cons.at = from /\ cons'.at = to
             /\ cons'.op = cons.op /\ cons'.wasEmpty = cons.wasEmpty
  BY <1>1, <1>2 DEF ConsGoes, ConsType, ConsBusy
<1>3. ASSUME NEW from \in ConsBusy, ConsGoes(from, "idle")
      PROVE  cons.at = from /\ cons' = IdleCons
  BY <1>3 DEF ConsGoes
<1>4. {"take", "refresh", "tailblock", "recheck", "next", "advance", "front"} \subseteq ConsBusy
  BY DEF ConsBusy
<1>5. PICK m \in Nat : \E T \in 0..(m - 1) :
        \E ring \in [Nat -> Nat], lo \in [Nat -> Nat] : Good(m, ring, T, lo)
  BY DEF Inv, IInv
<1>6. PICK T \in 0..(m - 1) :
        \E ring \in [Nat -> Nat], lo \in [Nat -> Nat] : Good(m, ring, T, lo)
  BY <1>5
<1>7. PICK ring \in [Nat -> Nat], lo \in [Nat -> Nat] : Good(m, ring, T, lo)  BY <1>6
<1>8. /\ Views /\ Filled(lo) /\ Room(m) /\ ConsInv(T)
      /\ Shape(m, ring, T) /\ Chain(m, ring, T, lo)
  BY <1>7 DEF Good
<1>9. taken \in Nat /\ puts \in Nat  BY <1>1 DEF TypeOK
<1>10. cons.at \in {"take", "front"} => puts > taken
  <2>1. cons.at \in {"take", "front"} => Items(frontBlock) > 0  BY <1>1, <1>8, FrontHasItem
  <2>2. taken + Items(frontBlock) <= puts  BY <1>1, <1>8, ChainEnds
  <2>3. Items(frontBlock) \in Nat
    <3>1. PICK b \in Blocks : b = frontBlock  BY <1>1 DEF TypeOK
    <3> QED BY <1>1, <1>8, <3>1, BlockNats
  <2> QED BY <1>9, <2>1, <2>2, <2>3
<1>11. CASE LookAtTail \/ Recheck \/ AdvanceFront
  <2>1. /\ \E from, to \in ConsBusy \ {"front"} : ConsGoes(from, to)
        /\ ConsumerOnly /\ taken' = taken /\ answer' = answer
    BY <1>4, <1>11 DEF LookAtTail, Recheck, RefreshTail, AdvanceFront
  <2>2. Shown' = Shown  BY <1>2, <2>1 DEF Shown
  <2> QED BY <1>2, <2>1, <2>2, ConsumerWorks
<1>12. CASE LookAtTailBlock
  <2>1. /\ ConsumerOnly /\ taken' = taken /\ answer' = answer
        /\ ConsGoes("tailblock", IF frontBlock = tailBlock THEN "idle" ELSE "recheck")
    BY <1>12 DEF LookAtTailBlock
  <2>2. CASE frontBlock = tailBlock
    <3>1. cons.at = "tailblock" /\ cons' = IdleCons  BY <1>3, <1>4, <2>1, <2>2
    <3>2. T = 0  BY <1>1, <1>8, <2>2, ChainEnds
    <3>3. cons.wasEmpty  BY <1>8, <3>1, <3>2 DEF ConsInv
    <3> QED BY <1>4, <2>1, <3>1, <3>3, ConsumerFoundNone
  <2>3. CASE frontBlock # tailBlock
    <3>1. /\ cons.at = "tailblock" /\ cons'.at = "recheck"
          /\ cons'.op = cons.op /\ cons'.wasEmpty = cons.wasEmpty
      BY <1>2, <1>4, <2>1, <2>3
    <3>2. Shown' = Shown  BY <2>1, <3>1 DEF Shown
    <3> QED BY <1>4, <2>1, <3>1, <3>2, ConsumerWorks
  <2> QED BY <2>2, <2>3
<1>13. CASE LookAtNext
  <2>1. /\ ConsumerOnly /\ taken' = taken
        /\ ConsGoes("next", IF cons.op = "peek" THEN "idle" ELSE "advance")
        /\ cons.op = "peek" => answer' = First(NextOfFront)
        /\ cons.op # "peek" => answer' = answer
    BY <1>13 DEF LookAtNext
  <2>2. CASE cons.op = "peek"
    <3>1. cons.at = "next" /\ cons' = IdleCons  BY <1>3, <1>4, <2>1, <2>2
    <3>2. answer' = taken + 1 /\ puts > taken  BY <1>1, <1>7, <2>1, <2>2, <3>1, NextItem
    <3> QED BY <1>4, <2>1, <2>2, <3>1, <3>2, ConsumerLooked
  <2>3. CASE cons.op # "peek"
    <3>1. /\ cons.at = "next" /\ cons'.at = "advance"
          /\ cons'.op = cons.op /\ cons'.wasEmpty = cons.wasEmpty
      BY <1>2, <1>4, <2>1, <2>3
    <3>2. Shown' = Shown  BY <2>1, <2>3, <3>1 DEF Shown
    <3> QED BY <1>4, <2>1, <3>1, <3>2, ConsumerWorks
  <2> QED BY <2>2, <2>3
<1>14. CASE TakeSlot
  <2>1. /\ ConsumerOnly /\ taken' = taken /\ answer' = First(frontBlock)
        /\ ConsGoes("take", IF cons.op = "peek" THEN "idle" ELSE "front")
    BY <1>14 DEF TakeSlot
  <2>2. CASE cons.op = "peek"
    <3>1. cons.at = "take" /\ cons' = IdleCons  BY <1>3, <1>4, <2>1, <2>2
    <3>2. answer' = taken + 1  BY <1>1, <1>7, <2>1, <3>1, FirstItem
    <3> QED BY <1>4, <1>10, <2>1, <2>2, <3>1, <3>2, ConsumerLooked
  <2>3. CASE cons.op # "peek"
    <3>1. /\ cons.at = "take" /\ cons'.at = "front"
          /\ cons'.op = cons.op /\ cons'.wasEmpty = cons.wasEmpty
      BY <1>2, <1>4, <2>1, <2>3
    <3>2. answer = 0  BY <1>8, <3>1 DEF ConsInv, ConsBusy
    <3>3. Shown' = Shown  BY <3>1, <3>2 DEF Shown
    <3> QED BY <1>4, <2>1, <3>1, <3>3, ConsumerWorks
  <2> QED BY <2>2, <2>3
<1>15. CASE GiveUpSlot
  <2>1. /\ ConsumerOnly /\ taken' = taken + 1 /\ answer' = answer
        /\ ConsGoes("front", "idle")
    BY <1>15 DEF GiveUpSlot
  <2>2. cons.at = "front" /\ cons' = IdleCons  BY <1>3, <1>4, <2>1
  <2>3. cons.op # "peek" /\ answer = taken + 1  BY <1>8, <2>2 DEF ConsInv
  <2> QED BY <1>10, <2>1, <2>2, <2>3, ConsumerTook
<1> QED BY <1>11, <1>12, <1>13, <1>14, <1>15

\* size_approx changes nothing.
LEMMA SizeMaps ==
  ASSUME Inv, Inv', NEW t \in Threads, SizeApprox(t) \/ SizeStep(t) \/ SizeReturn(t)
  PROVE  UNCHANGED Queue!vars
<1>1. PICK from \in {"idle", "size", "sized"}, to \in {"idle", "size", "sized"} :
        SizeGoes(t, from, to)
  BY DEF SizeApprox, SizeStep, SizeReturn
<1>2. made' = made /\ puts' = puts /\ taken' = taken /\ answer' = answer
  BY DEF SizeApprox, SizeStep, SizeReturn
<1>3. /\ prod.at \in Free => prod.held = 0
      /\ prod'.at \in Free => prod'.held = 0
  BY DEF Inv, IInv, Good, ProdInv
<1>4. /\ prod \in ProdType /\ cons \in ConsType
      /\ cons.at \in Free => cons.wasEmpty = FALSE
      /\ cons'.at \in Free => cons'.wasEmpty = FALSE
      /\ prod.at = "gone" <=> cons.at = "gone"
  BY DEF Inv, IInv, TypeOK, Rested
<1>5. {"idle", "size", "sized"} \subseteq Free  BY DEF Free
<1>6. CASE t = "producer"
  <2>1. ProdGoes(from, to) /\ cons' = cons  BY <1>1, <1>6 DEF SizeGoes
  <2>2. prod.at = from /\ prod'.at = to  BY <1>4, <2>1 DEF ProdGoes, IdleProd, ProdType
  <2>3. SamePut  BY <1>3, <1>5, <2>2 DEF SamePut, Putting
  <2>4. SameGet /\ SameHeld
    BY <1>2, <2>1 DEF SameGet, SameHeld, Getting, Shown, Held, Length
  <2> QED BY <2>3, <2>4, QueueStutters
<1>7. CASE t # "producer"
  <2>1. ConsGoes(from, to) /\ prod' = prod  BY <1>1, <1>7 DEF SizeGoes
  <2>2. cons.at = from /\ cons'.at = to  BY <1>4, <2>1 DEF ConsGoes, IdleCons, ConsType
  <2>3. SameGet  BY <1>2, <1>4, <1>5, <2>2 DEF SameGet, Getting, Shown
  <2>4. SamePut /\ SameHeld
    BY <1>2, <2>1, <2>2 DEF SamePut, SameHeld, Putting, Held, Length
  <2> QED BY <2>3, <2>4, QueueStutters
<1> QED BY <1>6, <1>7

\* The destructor destroys the abstract queue.
LEMMA DestroyMaps ==
  ASSUME Inv, Destroy
  PROVE  Queue!Destroy
<1>1. /\ prod.at = "idle" /\ cons.at = "idle"
      /\ prod' = [prod EXCEPT !.at = "gone"] /\ cons' = [cons EXCEPT !.at = "gone"]
      /\ made' = made /\ puts' = puts /\ answer' = answer
  BY DEF Destroy
<1>2. /\ prod'.at = "gone" /\ prod'.held = prod.held
      /\ cons'.at = "gone" /\ cons'.wasEmpty = cons.wasEmpty
  BY <1>1 DEF Inv, IInv, TypeOK, ProdType, ConsType
<1>3. SamePut /\ ~Putting  BY <1>1, <1>2 DEF SamePut, Putting, Free
<1>4. SameGet /\ Getting = "no"  BY <1>1, <1>2 DEF SameGet, Getting, Shown, Free
<1>5. Held' = <<>>  BY <1>2 DEF Held
<1> QED BY <1>1, <1>3, <1>4, <1>5, QueueEnds

\* Each step of either thread is a step of the abstract queue, or none.
LEMMA NextMaps ==
  ASSUME Inv, Inv', [Next]_vars
  PROVE  [Queue!Next]_(Queue!vars)
<1>1. CASE UNCHANGED vars
  <2>1. SameGet /\ SamePut /\ SameHeld
    BY <1>1 DEF vars, SameGet, SamePut, SameHeld, Getting, Putting, Held, Shown, Length
  <2> QED BY <2>1, QueueStutters
<1>2. CASE \E alloc \in BOOLEAN : Enqueue(alloc)  BY <1>2, EnqueueMaps DEF Queue!Next
<1>3. CASE \E op \in Ops : Get(op)
  <2>1. \E what \in {"take", "look"} : Queue!CallGet(what)  BY <1>3, GetMaps
  <2> QED BY <2>1 DEF Queue!Next
<1>4. CASE \E t \in Threads : SizeApprox(t) \/ SizeStep(t) \/ SizeReturn(t)
  BY <1>4, SizeMaps
<1>5. CASE \/ RefreshFront \/ WriteSlot \/ PublishTail \/ TailBlockFull \/ UseNextBlock
           \/ OutOfMemory \/ AllocateBlock \/ LinkBlock \/ AdvanceTail
  BY <1>5, ProducerMaps DEF Queue!Next
<1>6. CASE \/ LookAtTail \/ LookAtTailBlock \/ Recheck \/ LookAtNext \/ AdvanceFront
           \/ TakeSlot \/ GiveUpSlot
  BY <1>6, ConsumerMaps DEF Queue!Next
<1>7. CASE Destroy  BY <1>7, DestroyMaps DEF Queue!Next
<1> QED BY <1>1, <1>2, <1>3, <1>4, <1>5, <1>6, <1>7
        DEF Next, Calls, ProducerStep, ConsumerStep, Threads

\* A queue that has been made is empty.
LEMMA InitMaps == Init => Queue!Init
<1> SUFFICES ASSUME Init PROVE Queue!Init
  OBVIOUS
<1>1. /\ made \in Queues /\ puts = 0 /\ taken = 0 /\ answer = 0
      /\ prod.at = "idle" /\ prod.held = 0 /\ cons.at = "idle" /\ cons.wasEmpty = FALSE
  BY DEF Init, IdleProd, IdleCons
<1>2. made.maxSize \in Nat  BY <1>1, QueuesAssumption DEF QueueKind
<1>3. Held = <<>>
  <2>1. Held = Segment(0, 0)  BY <1>1 DEF Held, Segment, Length
  <2> QED BY <2>1, SegmentFacts
<1>4. ~Putting /\ Getting = "no" /\ Shown = 0  BY <1>1 DEF Putting, Getting, Shown, Free
<1> QED BY <1>1, <1>2, <1>3, <1>4 DEF Queue!Init, Held, Putting, Getting, Shown

\* The lock-free queue implements a first-in first-out queue, for every initial
\* size, block size and number of items and every interleaving of the two threads:
\* no item is lost, doubled or overtaken, a get says that there is none only if
\* there was none when it was called, and a put is refused only if the queue held
\* maxSize items (readerwriterqueue.h 67-528).
THEOREM QueueIsFifo == Spec => RefinesFifo
<1>1. Inv /\ Inv' /\ [Next]_vars => [Queue!Next]_(Queue!vars)  BY NextMaps
<1> QED BY <1>1, InitMaps, Invariance, PTL DEF Spec, RefinesFifo, Queue!Spec
=============================================================================
