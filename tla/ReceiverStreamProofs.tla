------------------------ MODULE ReceiverStreamProofs ------------------------
(***************************************************************************)
(* Proofs about what a receiver reads, makes and delivers: for every set   *)
(* of clients, workers, ids and sizes, wherever the bytes are cut and      *)
(* whenever clients close or are reset.                                    *)
(*                                                                         *)
(* First the bytes: the unread pieces of a client are a stretch of the     *)
(* frames it sent, which sends lengthen, reads shorten from the front and  *)
(* a client that leaves cuts at the end.  Then the places of a socket: the *)
(* backlog, the acceptor's hand, a queue, a worker's hand or an EPoll, and *)
(* never two of them, so that one worker reads it.  Then, for a registered *)
(* socket, that the first unread piece is the one its reader expects, and  *)
(* that the messages of all frames before it were delivered.               *)
(* Last, on its own, that the hand-over of a socket to a worker loses no   *)
(* wake-up.                                                                *)
(***************************************************************************)
EXTENDS Receiver, SequenceTheorems, TLAPS

----------------------------------------------------------------------------
(* The bytes of one client.                                                *)

Frames == Seq([id : Ids, size : Sizes])

\* Frame 0 is the socket id.
FrameEnd(fr, f) == IF f = 0 THEN 1 ELSE 2 * FieldLen + fr[f].size

\* q comes d pieces after p, as far as the end of p's frame and the first
\* piece of the next one.
Leads(fr, p, d, q) ==
  LET room == FrameEnd(fr, p[1]) - p[2]
  IN /\ d <= room => q = <<p[1], p[2] + d>>
     /\ d = room + 1 => q = <<p[1] + 1, 1>>

\* u is a piece of the stream of the frames fr; it may end in its end.
IsStream(fr, u) ==
  \A i \in 1..Len(u) :
    /\ u[i][1] \in 0..Len(fr) /\ u[i][2] \in 1..FrameEnd(fr, u[i][1])
    /\ \A j \in i..Len(u) : Leads(fr, u[i], j - i, u[j])
Complete(fr, u) ==
  u # <<>> => u[Len(u)] = <<Len(fr), FrameEnd(fr, Len(fr))>>

LEMMA FrameEndType ==
  ASSUME NEW fr \in Frames, NEW f \in 0..Len(fr)
  PROVE  /\ FrameEnd(fr, f) \in Nat \ {0}
         /\ f > 0 => fr[f].size \in Nat /\ FrameEnd(fr, f) = 4 + fr[f].size
<1>1. CASE f = 0  BY <1>1 DEF FrameEnd
<1>2. CASE f # 0
  <2>1. f \in 1..Len(fr)  BY <1>2, LenProperties DEF Frames
  <2>2. fr[f] \in [id : Ids, size : Sizes]  BY <2>1, ElementOfSeq DEF Frames
  <2>3. fr[f].size \in Nat  BY <2>2, FramesAssumption
  <2> QED BY <1>2, <2>3 DEF FrameEnd, FieldLen
<1> QED BY <1>1, <1>2

\* The end of the bytes may be cut off ...
LEMMA StreamPrefix ==
  ASSUME NEW fr, NEW u \in Seq(Piece), NEW t \in Seq(Piece), IsStream(fr, u),
         Len(t) <= Len(u), \A i \in 1..Len(t) : t[i] = u[i]
  PROVE  IsStream(fr, t)
<1>1. Len(u) \in Nat /\ Len(t) \in Nat  BY LenProperties
<1>2. \A i \in 1..Len(t) : i \in 1..Len(u) /\ \A j \in i..Len(t) : j \in i..Len(u) /\ j \in 1..Len(t)
  BY <1>1
<1> QED BY <1>2 DEF IsStream

\* ... some taken off the front ...
Took(u, n, t) ==
  t \in Seq(Piece) /\ Len(t) = Len(u) - n /\ \A i \in 1..Len(t) : t[i] = u[n + i]

LEMMA StreamDrop ==
  ASSUME NEW fr, NEW u \in Seq(Piece), IsStream(fr, u),
         NEW n \in 0..Len(u), NEW t, Took(u, n, t)
  PROVE  /\ IsStream(fr, t)
         /\ Complete(fr, u) => Complete(fr, t)
<1>t. t \in Seq(Piece) /\ Len(t) = Len(u) - n /\ \A i \in 1..Len(t) : t[i] = u[n + i]
  BY DEF Took
<1>1. Len(u) \in Nat /\ Len(t) \in Nat /\ n \in Nat  BY <1>t, LenProperties
<1>2. ASSUME NEW i \in 1..Len(t)
      PROVE  /\ t[i][1] \in 0..Len(fr) /\ t[i][2] \in 1..FrameEnd(fr, t[i][1])
             /\ \A j \in i..Len(t) : Leads(fr, t[i], j - i, t[j])
  <2>1. n + i \in 1..Len(u) /\ t[i] = u[n + i]  BY <1>t, <1>1
  <2>2. ASSUME NEW j \in i..Len(t) PROVE Leads(fr, t[i], j - i, t[j])
    <3>1. n + j \in (n + i)..Len(u) /\ t[j] = u[n + j] /\ (n + j) - (n + i) = j - i
      BY <1>t, <1>1
    <3>2. Leads(fr, u[n + i], (n + j) - (n + i), u[n + j])  BY <2>1, <3>1 DEF IsStream
    <3> QED BY <2>1, <3>1, <3>2
  <2> QED BY <2>1, <2>2 DEF IsStream
<1>3. ASSUME Complete(fr, u), t # <<>>
      PROVE  t[Len(t)] = <<Len(fr), FrameEnd(fr, Len(fr))>>
  <2>1. Len(t) \in 1..Len(t) /\ n + Len(t) = Len(u) /\ u # <<>>
    BY <1>t, <1>1, <1>3, EmptySeq
  <2>2. t[Len(t)] = u[n + Len(t)]  BY <1>t, <2>1
  <2> QED BY <1>3, <2>1, <2>2 DEF Complete
<1> QED BY <1>2, <1>3 DEF IsStream, Complete

\* What is unread is what has arrived, then what is on its way.
LEMMA UnreadParts ==
  ASSUME NEW r \in Seq(Piece), NEW f \in Seq(Piece)
  PROVE  /\ r \o f \in Seq(Piece) /\ Len(r \o f) = Len(r) + Len(f)
         /\ \A i \in 1..Len(r) : (r \o f)[i] = r[i]
         /\ \A i \in 1..Len(f) : (r \o f)[Len(r) + i] = f[i]
<1>1. Len(r) \in Nat /\ Len(f) \in Nat  BY LenProperties
<1>2. /\ r \o f \in Seq(Piece) /\ Len(r \o f) = Len(r) + Len(f)
      /\ \A i \in 1..(Len(r) + Len(f)) :
           (r \o f)[i] = IF i <= Len(r) THEN r[i] ELSE f[i - Len(r)]
  BY ConcatProperties, Zenon
<1>3. ASSUME NEW i \in 1..Len(f) PROVE (r \o f)[Len(r) + i] = f[i]
  <2>1. /\ Len(r) + i \in 1..(Len(r) + Len(f)) /\ ~(Len(r) + i <= Len(r))
        /\ (Len(r) + i) - Len(r) = i
    BY <1>1
  <2> QED BY <1>2, <2>1, Zenon
<1>4. ASSUME NEW i \in 1..Len(r) PROVE (r \o f)[i] = r[i]
  <2>1. i \in 1..(Len(r) + Len(f)) /\ i <= Len(r)  BY <1>1
  <2> QED BY <1>2, <2>1, Zenon
<1> QED BY <1>2, <1>3, <1>4

LEMMA UnreadLonger ==
  ASSUME NEW r \in Seq(Piece), NEW f \in Seq(Piece), NEW n \in 1..Len(r)
  PROVE  n \in 1..Len(r \o f) /\ r \o f # <<>>
<1>1. Len(r \o f) = Len(r) + Len(f) /\ Len(r) \in Nat /\ Len(f) \in Nat
  BY UnreadParts, LenProperties
<1>2. n \in 1..Len(r \o f) /\ Len(r \o f) # 0  BY <1>1
<1> QED BY <1>2, EmptySeq

\* What a sequence is with a frame put at its end.
LEMMA FramePut ==
  ASSUME NEW u \in Seq(Piece), NEW g \in Nat, NEW n \in Nat
  PROVE  /\ FramePieces(g, n) \in Seq(Piece)
         /\ u \o FramePieces(g, n) \in Seq(Piece)
         /\ Len(u \o FramePieces(g, n)) = Len(u) + (4 + n)
         /\ \A i \in 1..Len(u) : (u \o FramePieces(g, n))[i] = u[i]
         /\ \A k \in 1..(4 + n) : (u \o FramePieces(g, n))[Len(u) + k] = <<g, k>>
<1> DEFINE e == FramePieces(g, n)
           m == 4 + n
<1>1. e = [k \in 1..m |-> <<g, k>>] /\ m \in Nat  BY DEF FramePieces, FieldLen
<1> HIDE DEF e, m
<1>2. \A k \in 1..m : <<g, k>> \in Piece  BY <1>1 DEF Piece
<1>3. e \in Seq(Piece) /\ Len(e) = m /\ \A k \in 1..m : e[k] = <<g, k>>
  BY <1>1, <1>2, IsASeq
<1>4. /\ u \o e \in Seq(Piece) /\ Len(u \o e) = Len(u) + Len(e)
      /\ \A i \in 1..Len(u) : (u \o e)[i] = u[i]
      /\ \A i \in 1..Len(e) : (u \o e)[Len(u) + i] = e[i]
  BY <1>3, UnreadParts, Zenon
<1> QED BY <1>3, <1>4, Zenon DEF e, m

\* ... and a new frame of m pieces put at the end.
OneMore(fr, gr, u, t, m) ==
  /\ Len(gr) = Len(fr) + 1 /\ \A f \in 1..Len(fr) : gr[f] = fr[f]
  /\ m = 4 + gr[Len(fr) + 1].size
  /\ Len(t) = Len(u) + m /\ \A i \in 1..Len(u) : t[i] = u[i]
  /\ \A k \in 1..m : t[Len(u) + k] = <<Len(fr) + 1, k>>

LEMMA StreamAppend ==
  ASSUME NEW fr \in Frames, NEW gr \in Frames, NEW u \in Seq(Piece), NEW t \in Seq(Piece),
         NEW m \in Nat \ {0}, OneMore(fr, gr, u, t, m),
         IsStream(fr, u), Complete(fr, u)
  PROVE  /\ t # <<>> /\ IsStream(gr, t) /\ Complete(gr, t)
         /\ t[1] = IF u = <<>> THEN <<Len(fr) + 1, 1>> ELSE u[1]
<1> DEFINE F == Len(fr)
           G == F + 1
<1>1. F \in Nat /\ m \in Nat /\ m >= 1 /\ Len(u) \in Nat /\ G \in Nat /\ G = F + 1
  BY LenProperties DEF Frames
<1>3. Len(gr) = G /\ \A f \in 1..F : gr[f] = fr[f]  BY DEF OneMore
<1>4. FrameEnd(gr, G) = m /\ \A f \in 0..F : FrameEnd(gr, f) = FrameEnd(fr, f)
  <2>1. G # 0 /\ \A f \in 0..F : f # 0 => f \in 1..F  BY <1>1
  <2>2. 2 * FieldLen = 4  BY DEF FieldLen
  <2>3. FrameEnd(gr, G) = m  BY <2>1, <2>2 DEF FrameEnd, OneMore
  <2>4. \A f \in 0..F : FrameEnd(gr, f) = FrameEnd(fr, f)  BY <1>3, <2>1 DEF FrameEnd
  <2> QED BY <2>3, <2>4
<1>5. /\ Len(t) = Len(u) + m
      /\ \A i \in 1..Len(u) : t[i] = u[i]
      /\ \A k \in 1..m : t[Len(u) + k] = <<G, k>>
  BY DEF OneMore
<1> HIDE DEF F, G
<1>6. t # <<>> /\ t[Len(t)] = <<G, m>>  BY <1>1, <1>5
<1>7. t[1] = IF u = <<>> THEN <<G, 1>> ELSE u[1]
  <2>1. CASE u = <<>>
    <3>1. Len(u) = 0  BY <2>1, EmptySeq
    <3>2. t[0 + 1] = <<G, 1>>  BY <1>1, <1>5, <3>1
    <3> QED BY <2>1, <3>2
  <2>2. CASE u # <<>>
    <3>1. 1 \in 1..Len(u)  BY <2>2, EmptySeq
    <3> QED BY <2>2, <3>1, <1>5
  <2> QED BY <2>1, <2>2
<1>8. ASSUME NEW i \in 1..Len(t)
      PROVE  t[i][1] \in 0..G /\ t[i][2] \in 1..FrameEnd(gr, t[i][1])
  <2>1. CASE i > Len(u)
    <3>1. i - Len(u) \in 1..m /\ i = Len(u) + (i - Len(u))  BY <1>1, <1>5, <2>1
    <3>2. t[i] = <<G, i - Len(u)>>  BY <1>5, <3>1
    <3> QED BY <1>1, <1>4, <3>1, <3>2
  <2>2. CASE i <= Len(u)
    <3>1. i \in 1..Len(u) /\ t[i] = u[i]  BY <1>1, <1>5, <2>2
    <3>2. u[i][1] \in 0..F /\ u[i][2] \in 1..FrameEnd(fr, u[i][1])
      BY <3>1 DEF IsStream, F
    <3> QED BY <1>1, <1>4, <3>1, <3>2
  <2> QED BY <1>1, <2>1, <2>2
<1>9. ASSUME NEW i \in 1..Len(t), NEW j \in i..Len(t)
      PROVE  Leads(gr, t[i], j - i, t[j])
  <2>1. CASE i > Len(u)
    <3>1. /\ i - Len(u) \in 1..m /\ i = Len(u) + (i - Len(u))
          /\ j - Len(u) \in 1..m /\ j = Len(u) + (j - Len(u))
      BY <1>1, <1>5, <2>1
    <3>2. t[i] = <<G, i - Len(u)>> /\ t[j] = <<G, j - Len(u)>>  BY <1>5, <3>1
    <3>3. j - Len(u) = (i - Len(u)) + (j - i) /\ j - i # m - (i - Len(u)) + 1
      BY <1>1, <3>1
    <3> QED BY <1>4, <3>2, <3>3 DEF Leads
  <2>2. CASE i <= Len(u)
    <3>1. i \in 1..Len(u) /\ t[i] = u[i] /\ u # <<>>  BY <1>1, <1>5, <2>2, EmptySeq
    <3> DEFINE a == u[i][2]
               z == FrameEnd(fr, u[i][1])
    <3>2. /\ u[i][1] \in 0..F /\ a \in 1..z /\ z \in Nat /\ FrameEnd(gr, u[i][1]) = z
      <4>1. u[i][1] \in 0..F /\ a \in 1..z  BY <3>1 DEF IsStream, F
      <4>2. z \in Nat  BY <4>1, FrameEndType DEF F
      <4> QED BY <1>4, <4>1, <4>2
    <3>3. CASE j <= Len(u)
      <4>1. j \in i..Len(u) /\ j \in 1..Len(u)  BY <1>1, <3>1, <3>3
      <4>2. Leads(fr, u[i], j - i, u[j]) /\ t[j] = u[j]  BY <1>5, <3>1, <4>1 DEF IsStream
      <4> QED BY <3>1, <3>2, <4>2 DEF Leads
    <3>4. CASE j > Len(u)
      <4> DEFINE d == Len(u) - i
                 k == j - Len(u)
      <4>1. k \in 1..m /\ j = Len(u) + k /\ d \in Nat /\ j - i = d + k
        <5>1. j \in Nat /\ i \in Nat /\ i <= Len(u) /\ j <= Len(u) + m
          BY <1>1, <1>5, <3>1
        <5> QED BY <1>1, <3>4, <5>1
      <4>2. t[j] = <<G, k>>  BY <1>5, <4>1
      <4>3. Leads(fr, u[i], d, u[Len(u)])  BY <1>1, <3>1 DEF IsStream
      <4>4. u[Len(u)] = <<F, FrameEnd(fr, F)>>  BY <3>1 DEF Complete, F
      <4> HIDE DEF d, k
      <4>5. d <= z - a => u[i][1] = F /\ a + d = FrameEnd(fr, F)
        BY <4>3, <4>4 DEF Leads
      <4> HIDE DEF a, z
      <4>6. ~(d + k <= z - a)  BY <3>2, <4>1, <4>5 DEF z
      <4>7. d + k = z - a + 1 => k = 1 /\ u[i][1] = F  BY <3>2, <4>1, <4>5 DEF z
      <4>8. d + k = z - a + 1 => t[j] = <<u[i][1] + 1, 1>>  BY <4>2, <4>7, <1>1
      <4> QED BY <3>1, <3>2, <4>1, <4>6, <4>8 DEF Leads, a, z
    <3> QED BY <1>1, <3>1, <3>3, <3>4
  <2> QED BY <1>1, <2>1, <2>2
<1>10. IsStream(gr, t)  BY <1>3, <1>8, <1>9 DEF IsStream
<1>11. Complete(gr, t)  BY <1>3, <1>4, <1>6 DEF Complete
<1> QED BY <1>6, <1>7, <1>10, <1>11 DEF G, F

\* An arrival only moves pieces, ...
LEMMA ArrivalKeeps ==
  ASSUME NEW r \in Seq(Piece), NEW f \in Seq(Piece), NEW n \in 0..Len(f)
  PROVE  (r \o SubSeq(f, 1, n)) \o SubSeq(f, n + 1, Len(f)) = r \o f
<1>1. Len(f) \in Nat /\ n \in Nat  BY LenProperties
<1> DEFINE a == SubSeq(f, 1, n)
           b == SubSeq(f, n + 1, Len(f))
<1>2. a \o b = SubSeq(f, 1, Len(f))
  <2>1. 1 \in 1..(Len(f) + 1) /\ n \in (1 - 1)..Len(f) /\ Len(f) \in n..Len(f)
    BY <1>1
  <2> QED BY <2>1, ConcatAdjacentSubSeq, Zenon
<1>3. a \o b = f  BY <1>2, SubSeqFull
<1>4. a \in Seq(Piece) /\ b \in Seq(Piece)  BY <1>1
<1> HIDE DEF a, b
<1>5. (r \o a) \o b = r \o (a \o b)
  <2>1. \A x, y, z \in Seq(Piece) : (x \o y) \o z = x \o (y \o z)
    BY ConcatAssociative, SMTT(30)
  <2> QED BY <1>4, <2>1, Zenon
<1> QED BY <1>3, <1>5 DEF a, b

\* ... a read takes them off the front, ...
LEMMA ReadDrops ==
  ASSUME NEW r \in Seq(Piece), NEW f \in Seq(Piece), NEW n \in 0..Len(r)
  PROVE  Took(r \o f, n, SubSeq(r, n + 1, Len(r)) \o f)
<1> PICK t : t = SubSeq(r, n + 1, Len(r)) \o f  OBVIOUS
<1>1. Len(f) \in Nat /\ Len(r) \in Nat /\ n \in Nat  BY LenProperties
<1> DEFINE a == SubSeq(r, n + 1, Len(r))
<1>2. /\ a \in Seq(Piece) /\ Len(a) = Len(r) - n
      /\ \A i \in 1..(Len(r) - n) : a[i] = r[n + i]
  BY <1>1
<1> HIDE DEF a
<1>3. t = a \o f  BY DEF a
<1>4. /\ t \in Seq(Piece) /\ Len(t) = Len(a) + Len(f)
      /\ \A i \in 1..Len(a) : t[i] = a[i]
      /\ \A i \in 1..Len(f) : t[Len(a) + i] = f[i]
  <2>1. /\ a \o f \in Seq(Piece) /\ Len(a \o f) = Len(a) + Len(f)
        /\ \A i \in 1..Len(a) : (a \o f)[i] = a[i]
        /\ \A i \in 1..Len(f) : (a \o f)[Len(a) + i] = f[i]
    BY <1>2, UnreadParts, Zenon
  <2> QED BY <1>3, <2>1, Zenon
<1>5. ASSUME NEW i \in 1..Len(t) PROVE t[i] = (r \o f)[n + i]
  <2>1. CASE i <= Len(a)
    <3>1. i \in 1..Len(a) /\ n + i \in 1..Len(r) /\ i \in 1..(Len(r) - n)
      BY <1>1, <1>2, <2>1
    <3> QED BY <1>2, <1>4, <3>1, UnreadParts
  <2>2. CASE i > Len(a)
    <3>1. /\ i - Len(a) \in 1..Len(f) /\ i = Len(a) + (i - Len(a))
          /\ n + i = Len(r) + (i - Len(a))
      BY <1>1, <1>2, <1>4, <2>2
    <3>2. t[i] = f[i - Len(a)]  BY <1>4, <3>1
    <3>3. (r \o f)[n + i] = f[i - Len(a)]  BY <3>1, UnreadParts
    <3> QED BY <3>2, <3>3
  <2> QED BY <1>1, <1>2, <2>1, <2>2
<1>6. Len(r \o f) = Len(r) + Len(f)  BY UnreadParts
<1>7. Len(t) = Len(r \o f) - n  BY <1>1, <1>2, <1>4, <1>6
<1> QED BY <1>4, <1>5, <1>7 DEF Took

\* ... and a client that leaves cuts some off the end.
LEMMA LeaveCuts ==
  ASSUME NEW r \in Seq(Piece), NEW f \in Seq(Piece), NEW n \in 0..Len(f),
         NEW t, t = r \o SubSeq(f, 1, n)
  PROVE  /\ t \in Seq(Piece) /\ Len(t) <= Len(r \o f)
         /\ \A i \in 1..Len(t) : t[i] = (r \o f)[i]
<1>1. Len(f) \in Nat /\ Len(r) \in Nat /\ n \in Nat  BY LenProperties
<1> DEFINE a == SubSeq(f, 1, n)
<1>2. a \in Seq(Piece) /\ Len(a) = n /\ \A i \in 1..n : a[i] = f[i]
  BY <1>1
<1> HIDE DEF a
<1>3. t = r \o a  BY DEF a
<1>4. /\ t \in Seq(Piece) /\ Len(t) = Len(r) + Len(a)
      /\ \A i \in 1..Len(r) : t[i] = r[i]
      /\ \A i \in 1..Len(a) : t[Len(r) + i] = a[i]
  <2>1. /\ r \o a \in Seq(Piece) /\ Len(r \o a) = Len(r) + Len(a)
        /\ \A i \in 1..Len(r) : (r \o a)[i] = r[i]
        /\ \A i \in 1..Len(a) : (r \o a)[Len(r) + i] = a[i]
    BY <1>2, UnreadParts, Zenon
  <2> QED BY <1>3, <2>1, Zenon
<1>5. ASSUME NEW i \in 1..Len(t) PROVE t[i] = (r \o f)[i]
  <2>1. CASE i <= Len(r)
    <3>1. i \in 1..Len(r)  BY <1>1, <2>1
    <3> QED BY <1>4, <3>1, UnreadParts
  <2>2. CASE i > Len(r)
    <3>1. /\ i - Len(r) \in 1..n /\ i - Len(r) \in 1..Len(f) /\ i = Len(r) + (i - Len(r))
      BY <1>1, <1>2, <1>4, <2>2
    <3>2. t[i] = a[i - Len(r)]  BY <1>2, <1>4, <3>1
    <3>3. (r \o f)[i] = f[i - Len(r)]  BY <3>1, UnreadParts
    <3> QED BY <1>2, <3>1, <3>2, <3>3
  <2> QED BY <1>1, <2>1, <2>2
<1>6. Len(r \o f) = Len(r) + Len(f)  BY UnreadParts
<1> QED BY <1>1, <1>2, <1>4, <1>5, <1>6

\* What comes after the next n pieces: more of their frame, or the next one.
LEMMA AfterField ==
  ASSUME NEW fr \in Frames, NEW u \in Seq(Piece), IsStream(fr, u), u # <<>>,
         NEW f, NEW k, u[1] = <<f, k>>,
         NEW n \in 1..Len(u), n <= FrameEnd(fr, f) - k + 1, NEW t, Took(u, n, t)
  PROVE  /\ f \in 0..Len(fr)
         /\ n <= FrameEnd(fr, f) - k =>
              /\ t # <<>> => t[1] = <<f, k + n>>
              /\ Complete(fr, u) => t # <<>>
         /\ n = FrameEnd(fr, f) - k + 1 =>
              /\ t # <<>> => t[1] = <<f + 1, 1>>
              /\ Complete(fr, u) /\ t = <<>> => f = Len(fr)
<1>t. t \in Seq(Piece) /\ Len(t) = Len(u) - n /\ \A i \in 1..Len(t) : t[i] = u[n + i]
  BY DEF Took
<1>1. Len(u) \in Nat /\ Len(t) \in Nat /\ 1 \in 1..Len(u) /\ n \in Nat
  BY <1>t, LenProperties, EmptySeq
<1>2. f \in 0..Len(fr) /\ k \in 1..FrameEnd(fr, f)
  BY <1>1 DEF IsStream
<1> DEFINE z == FrameEnd(fr, f)
<1>3. z \in Nat /\ k \in Nat  BY <1>2, FrameEndType
<1>4. ASSUME t # <<>> PROVE Leads(fr, u[1], n, t[1])
  <2>1. 1 \in 1..Len(t) /\ n + 1 \in 1..Len(u)  BY <1>t, <1>1, <1>4, EmptySeq
  <2>2. Leads(fr, u[1], (n + 1) - 1, u[n + 1])  BY <1>1, <2>1 DEF IsStream
  <2> QED BY <1>t, <1>1, <2>1, <2>2
<1>5. ASSUME Complete(fr, u), t = <<>>
      PROVE  n = z - k + 1 /\ f = Len(fr)
  <2>1. n = Len(u)
    <3>1. Len(t) = 0  BY <1>5, EmptySeq
    <3> QED BY <1>t, <1>1, <3>1
  <2>2. Leads(fr, u[1], n - 1, u[n])  BY <1>1, <2>1 DEF IsStream
  <2>3. u[n] = <<Len(fr), FrameEnd(fr, Len(fr))>>  BY <1>5, <2>1 DEF Complete
  <2>4. n - 1 <= z - k  BY <1>1, <1>3
  <2>5. u[n] = <<f, k + (n - 1)>>  BY <2>2, <2>4 DEF Leads
  <2>6. f = Len(fr) /\ k + (n - 1) = z  BY <2>3, <2>5
  <2> QED BY <1>1, <1>3, <2>6
<1>6. t # <<>> => (n <= z - k => t[1] = <<f, k + n>>) /\ (n = z - k + 1 => t[1] = <<f + 1, 1>>)
  BY <1>4 DEF Leads
<1> HIDE DEF z
<1>7. ~(n <= z - k /\ n = z - k + 1)  BY <1>1, <1>3
<1> QED BY <1>2, <1>5, <1>6, <1>7 DEF z

----------------------------------------------------------------------------
(* A socket is in one place.                                               *)

LEMMA TailRange ==
  ASSUME NEW S, NEW q \in Seq(S), q # <<>>, IsInjective(q)
  PROVE  /\ Head(q) \in S /\ Head(q) \in Range(q) /\ Tail(q) \in Seq(S)
         /\ IsInjective(Tail(q))
         /\ \A s \in Range(Tail(q)) : s \in Range(q) /\ s # Head(q)
<1>1. Len(q) \in Nat \ {0} /\ DOMAIN q = 1..Len(q)  BY EmptySeq, LenProperties
<1>2. /\ Head(q) = q[1] /\ Head(q) \in S /\ Tail(q) \in Seq(S)
      /\ DOMAIN Tail(q) = 1..(Len(q) - 1)
      /\ \A i \in 1..(Len(q) - 1) : Tail(q)[i] = q[i + 1]
  BY <1>1
<1>3. \A i \in DOMAIN Tail(q) : i + 1 \in DOMAIN q /\ i + 1 # 1  BY <1>1, <1>2
<1>4. \A i \in DOMAIN Tail(q) : Tail(q)[i] = q[i + 1]  BY <1>2
<1>5. IsInjective(Tail(q))
  <2>1. ASSUME NEW i \in DOMAIN Tail(q), NEW j \in DOMAIN Tail(q),
               Tail(q)[i] = Tail(q)[j]
        PROVE  i = j
    <3>1. i + 1 = j + 1  BY <1>3, <1>4, <2>1 DEF IsInjective
    <3> QED BY <1>1, <1>2, <3>1
  <2> QED BY <2>1 DEF IsInjective
<1>6. ASSUME NEW s \in Range(Tail(q)) PROVE s \in Range(q) /\ s # Head(q)
  <2>1. PICK i \in DOMAIN Tail(q) : s = Tail(q)[i]  BY <1>6 DEF Range
  <2>2. i + 1 \in DOMAIN q /\ i + 1 # 1 /\ s = q[i + 1] /\ 1 \in DOMAIN q
    BY <1>1, <1>3, <1>4, <2>1
  <2>3. q[i + 1] # q[1]  BY <2>2 DEF IsInjective
  <2> QED BY <1>2, <2>2, <2>3 DEF Range
<1>7. Head(q) \in Range(q)  BY <1>1, <1>2 DEF Range
<1> QED BY <1>2, <1>5, <1>6, <1>7

LEMMA AppendRange ==
  ASSUME NEW S, NEW q \in Seq(S), NEW e \in S, e \notin Range(q), IsInjective(q)
  PROVE  /\ Append(q, e) \in Seq(S) /\ IsInjective(Append(q, e))
         /\ Range(Append(q, e)) = Range(q) \cup {e}
<1> DEFINE p == Append(q, e)
<1>1. Len(q) \in Nat /\ DOMAIN q = 1..Len(q)  BY LenProperties
<1>2. /\ p \in Seq(S) /\ DOMAIN p = 1..(Len(q) + 1) /\ p[Len(q) + 1] = e
      /\ \A i \in 1..Len(q) : p[i] = q[i]
  BY <1>1
<1> HIDE DEF p
<1>3. DOMAIN p = DOMAIN q \cup {Len(q) + 1} /\ \A i \in DOMAIN q : p[i] = q[i]
  BY <1>1, <1>2
<1>4. \A i \in DOMAIN q : q[i] # e  BY DEF Range
<1>5. IsInjective(p)
  <2>1. ASSUME NEW i \in DOMAIN p, NEW j \in DOMAIN p, p[i] = p[j]
        PROVE  i = j
    BY <1>2, <1>3, <1>4, <2>1 DEF IsInjective
  <2> QED BY <2>1 DEF IsInjective
<1>6. Range(p) = Range(q) \cup {e}
  <2>1. \A s \in Range(p) : s \in Range(q) \cup {e}  BY <1>2, <1>3 DEF Range
  <2>2. \A s \in Range(q) \cup {e} : s \in Range(p)  BY <1>2, <1>3 DEF Range
  <2> QED BY <2>1, <2>2
<1> QED BY <1>2, <1>5, <1>6 DEF p

Kinds == {"backlog", "fresh", "queue", "sid", "epoll"}

Holds(k, w, s) ==
  \/ k = "backlog" /\ w = 0 /\ s \in Range(backlog)
  \/ k = "fresh" /\ w = 0 /\ s = fresh
  \/ k = "queue" /\ s \in Range(queue[w])
  \/ k = "sid" /\ at[w] = "sid" /\ s = cur[w]
  \/ k = "epoll" /\ s \in epoll[w]

HeldOnce ==
  \A s \in Sock, k \in Kinds, w \in Workers : Holds(k, w, s) =>
    /\ link[s] # "away"
    /\ \A l \in Kinds, v \in Workers : Holds(l, v, s) => l = k /\ v = w

PlaceType ==
  /\ link \in [Sock -> {"away", "new", "open", "closed", "reset"}]
  /\ backlog \in Seq(Sock) /\ IsInjective(backlog)
  /\ queue \in [Workers -> Seq(Sock)] /\ \A w \in Workers : IsInjective(queue[w])
  /\ acc \in {"accept", "enqueue", "notify"} /\ last \in Workers
  /\ fresh \in Sock \cup {NoSock} /\ (acc = "enqueue" <=> fresh # NoSock)
  /\ event \in [Workers -> Nat] /\ notifier \in [Workers -> BOOLEAN]
  /\ epoll \in [Workers -> SUBSET Sock]
  /\ at \in [Workers -> Places] /\ cur \in [Workers -> Sock \cup {NoSock}]
  /\ \A w \in Workers :
       /\ at[w] = "sid" => cur[w] \in Sock
       /\ at[w] \in Reading => cur[w] \in epoll[w]
  /\ up \in BOOLEAN

PlaceInv == PlaceType /\ HeldOnce

placeVars == <<link, backlog, acc, fresh, last, queue, event, notifier, epoll, at, cur, up>>

LEMMA NextWorkerType == last \in Workers => NextWorker \in Workers /\ 0 \in Workers
BY ThreadsAssumption DEF Workers, NextWorker

\* A step that moves one socket to a place keeps the others where they are.
LEMMA OneMoves ==
  ASSUME HeldOnce, NEW m \in Sock, link'[m] # "away",
         \A s \in Sock : link[s] # "away" => link'[s] # "away",
         NEW l \in Kinds, NEW v \in Workers,
         \A s \in Sock, k \in Kinds, w \in Workers : Holds(k, w, s)' =>
           \/ s # m /\ Holds(k, w, s)
           \/ s = m /\ k = l /\ w = v
  PROVE  HeldOnce'
BY Zenon DEF HeldOnce

LEMMA NoneMoves ==
  ASSUME HeldOnce, \A s \in Sock : link[s] # "away" => link'[s] # "away",
         \A s \in Sock, k \in Kinds, w \in Workers : Holds(k, w, s)' => Holds(k, w, s)
  PROVE  HeldOnce'
BY Zenon DEF HeldOnce

LEMMA PlaceStutter == PlaceInv /\ UNCHANGED placeVars => PlaceInv'
BY DEF PlaceInv, PlaceType, HeldOnce, Holds, placeVars

LEMMA PlaceInit == Init => PlaceInv
<1> SUFFICES ASSUME Init PROVE PlaceInv
  OBVIOUS
<1>1. 0 \in Workers  BY ThreadsAssumption DEF Workers
<1>2. /\ <<>> \in Seq(Sock) /\ IsInjective(<<>>) /\ Range(<<>>) = {}
  BY DEF IsInjective, Range
<1>3. PlaceType  BY <1>1, <1>2 DEF Init, PlaceType, Places, Reading
<1>4. \A s \in Sock, k \in Kinds, w \in Workers : ~Holds(k, w, s)
  BY <1>2, SockAssumption DEF Init, Holds
<1> QED BY <1>3, <1>4 DEF PlaceInv, HeldOnce

LEMMA PlaceClients == PlaceInv /\ (Clients \/ Network) => PlaceInv'
<1> SUFFICES ASSUME PlaceInv, Clients \/ Network PROVE PlaceInv'
  OBVIOUS
<1>1. ASSUME NEW s \in Sock, Connect(s) PROVE PlaceInv'
  <2>1. /\ link[s] = "away" /\ link' = [link EXCEPT ![s] = "new"]
        /\ backlog' = Append(backlog, s)
        /\ UNCHANGED <<acc, fresh, last, queue, event, notifier, epoll, at, cur, up>>
    BY <1>1 DEF Connect, LinkGoes, workerVars
  <2>2. \A k \in Kinds, w \in Workers : ~Holds(k, w, s)
    BY <2>1 DEF PlaceInv, HeldOnce
  <2>3. last \in Workers /\ backlog \in Seq(Sock) /\ IsInjective(backlog) /\ link \in [Sock -> {"away", "new", "open", "closed", "reset"}]
    BY DEF PlaceInv, PlaceType
  <2>4. 0 \in Workers  BY <2>3, NextWorkerType
  <2>5. s \notin Range(backlog)  BY <2>2, <2>4 DEF Holds, Kinds
  <2>6. /\ backlog' \in Seq(Sock) /\ IsInjective(backlog')
        /\ Range(backlog') = Range(backlog) \cup {s}
    BY <2>1, <2>3, <2>5, AppendRange
  <2>7. PlaceType'  BY <2>1, <2>6 DEF PlaceInv, PlaceType
  <2>8. \A r \in Sock, k \in Kinds, w \in Workers : Holds(k, w, r)' =>
          \/ r # s /\ Holds(k, w, r)
          \/ r = s /\ k = "backlog" /\ w = 0
    <3>1. ASSUME NEW r \in Sock, NEW k \in Kinds, NEW w \in Workers, Holds(k, w, r)'
          PROVE  Holds(k, w, r) \/ (r = s /\ k = "backlog" /\ w = 0)
      BY <2>1, <2>6, <3>1 DEF Holds
    <3> QED BY <2>2, <3>1
  <2>9. HeldOnce'
    <3>1. link'[s] # "away" /\ \A r \in Sock : link[r] # "away" => link'[r] # "away"
      BY <2>1, <2>3
    <3>2. "backlog" \in Kinds  BY DEF Kinds
    <3>3. HeldOnce  BY DEF PlaceInv
    <3> QED BY <2>4, <2>8, <3>1, <3>2, <3>3, OneMoves
  <2> QED BY <2>7, <2>9 DEF PlaceInv
<1>2. ASSUME NEW s \in Sock, NEW to \in {"open", "closed", "reset"}, link' = [link EXCEPT ![s] = to],
             UNCHANGED <<backlog, acc, fresh, last, queue, event, notifier, epoll, at, cur, up>>
      PROVE  PlaceInv'
  <2>1. PlaceType'  BY <1>2 DEF PlaceInv, PlaceType
  <2>2. \A r \in Sock : link[r] # "away" => link'[r] # "away"
    BY <1>2 DEF PlaceInv, PlaceType
  <2>3. \A r \in Sock, k \in Kinds, w \in Workers : Holds(k, w, r)' => Holds(k, w, r)
    BY <1>2 DEF Holds
  <2> QED BY <2>1, <2>2, <2>3, NoneMoves DEF PlaceInv
<1>3. ASSUME NEW s \in Sock, SendSid(s) \/ Close(s) \/ Reset(s) PROVE PlaceInv'
  <2>1. PICK to \in {"open", "closed", "reset"} : link' = [link EXCEPT ![s] = to]
    BY <1>3 DEF SendSid, Close, Reset, LinkGoes
  <2> QED BY <1>2, <1>3, <2>1 DEF SendSid, Close, Reset, workerVars, acceptorVars
<1>4. ASSUME NEW s \in Sock, Arrive(s) \/ \E id \in Ids, n \in Sizes : SendFrame(s, id, n)
      PROVE  PlaceInv'
  BY <1>4, PlaceStutter DEF Arrive, SendFrame, workerVars, acceptorVars, placeVars
<1> QED BY <1>1, <1>3, <1>4 DEF Clients, Network

LEMMA PlaceAcceptor == PlaceInv /\ Acceptor => PlaceInv'
<1> SUFFICES ASSUME PlaceInv, Acceptor PROVE PlaceInv'
  OBVIOUS
<1>0. PlaceType /\ HeldOnce /\ last \in Workers /\ NextWorker \in Workers /\ 0 \in Workers
  BY NextWorkerType DEF PlaceInv, PlaceType
<1>1. CASE Accept
  <2>1. /\ acc = "accept" /\ acc' = "enqueue" /\ backlog # <<>>
        /\ fresh' = Head(backlog) /\ backlog' = Tail(backlog)
        /\ UNCHANGED <<link, last, queue, event, notifier, epoll, at, cur, up>>
    BY <1>1 DEF Accept, clientVars, workerVars
  <2>2. backlog \in Seq(Sock) /\ IsInjective(backlog)  BY <1>0 DEF PlaceType
  <2>3. /\ fresh' \in Sock /\ fresh' \in Range(backlog)
        /\ backlog' \in Seq(Sock) /\ IsInjective(backlog')
        /\ \A s \in Range(backlog') : s \in Range(backlog) /\ s # fresh'
    BY <2>1, <2>2, TailRange
  <2>4. PlaceType'  BY <1>0, <2>1, <2>3, SockAssumption DEF PlaceType
  <2>5. Holds("backlog", 0, fresh')  BY <2>3 DEF Holds
  <2>6. /\ link[fresh'] # "away"
        /\ \A k \in Kinds, w \in Workers : Holds(k, w, fresh') => k = "backlog"
    BY <1>0, <2>3, <2>5 DEF HeldOnce, Kinds
  <2>7. ASSUME NEW s \in Sock, NEW k \in Kinds, NEW w \in Workers, Holds(k, w, s)'
        PROVE  \/ s # fresh' /\ Holds(k, w, s)
               \/ s = fresh' /\ k = "fresh" /\ w = 0
    <3>1. CASE k = "backlog"  BY <2>3, <2>7, <3>1 DEF Holds
    <3>2. CASE k = "fresh"  BY <2>7, <3>2 DEF Holds
    <3>3. CASE k # "backlog" /\ k # "fresh"
      <4>1. Holds(k, w, s)  BY <2>1, <2>7, <3>3 DEF Holds
      <4> QED BY <2>6, <3>3, <4>1
    <3> QED BY <3>1, <3>2, <3>3
  <2>8. HeldOnce'
    <3>1. "fresh" \in Kinds /\ link'[fresh'] # "away"
      BY <2>1, <2>6 DEF Kinds
    <3>2. \A s \in Sock : link[s] # "away" => link'[s] # "away"  BY <2>1
    <3> QED BY <1>0, <2>3, <2>7, <3>1, <3>2, OneMoves
  <2> QED BY <2>4, <2>8 DEF PlaceInv
<1>2. CASE Enqueue
  <2>1. /\ acc = "enqueue" /\ acc' = "notify" /\ fresh' = NoSock
        /\ queue' = [queue EXCEPT ![NextWorker] = Append(@, fresh)]
        /\ UNCHANGED <<link, last, backlog, event, notifier, epoll, at, cur, up>>
    BY <1>2 DEF Enqueue, clientVars, workerVars
  <2> DEFINE n == NextWorker
  <2>2. /\ fresh \in Sock /\ n \in Workers
        /\ queue \in [Workers -> Seq(Sock)] /\ IsInjective(queue[n]) /\ queue[n] \in Seq(Sock)
    BY <1>0, <2>1 DEF PlaceType
  <2>3. Holds("fresh", 0, fresh)  BY DEF Holds
  <2>4. /\ link[fresh] # "away"
        /\ \A k \in Kinds, w \in Workers : Holds(k, w, fresh) => k = "fresh"
    BY <1>0, <2>2, <2>3 DEF HeldOnce, Kinds
  <2>5. fresh \notin Range(queue[n])  BY <2>2, <2>4 DEF Holds, Kinds
  <2> HIDE DEF n
  <2>6. /\ Append(queue[n], fresh) \in Seq(Sock) /\ IsInjective(Append(queue[n], fresh))
        /\ Range(Append(queue[n], fresh)) = Range(queue[n]) \cup {fresh}
    BY <2>2, <2>5, AppendRange
  <2>7. queue' = [queue EXCEPT ![n] = Append(queue[n], fresh)]  BY <2>1 DEF n
  <2>8. /\ queue'[n] = Append(queue[n], fresh)
        /\ \A w \in Workers : w # n => queue'[w] = queue[w]
        /\ queue' \in [Workers -> Seq(Sock)]
    BY <2>2, <2>6, <2>7
  <2>9. PlaceType'
    <3>1. \A w \in Workers : IsInjective(queue'[w])
      BY <1>0, <2>6, <2>8 DEF PlaceType
    <3> QED BY <1>0, <2>1, <2>8, <3>1 DEF PlaceType
  <2>10. ASSUME NEW s \in Sock, NEW k \in Kinds, NEW w \in Workers, Holds(k, w, s)'
         PROVE  \/ s # fresh /\ Holds(k, w, s)
                \/ s = fresh /\ k = "queue" /\ w = n
    <3>1. CASE k = "fresh"  BY <2>1, <2>10, <3>1, SockAssumption DEF Holds
    <3>2. CASE k = "queue" /\ w = n  BY <2>6, <2>8, <2>10, <3>2 DEF Holds
    <3>3. CASE k # "fresh" /\ ~(k = "queue" /\ w = n)
      <4>1. Holds(k, w, s)  BY <2>1, <2>8, <2>10, <3>3 DEF Holds
      <4> QED BY <2>4, <3>3, <4>1
    <3> QED BY <3>1, <3>2, <3>3
  <2>11. HeldOnce'
    <3>1. "queue" \in Kinds /\ link'[fresh] # "away"  BY <2>1, <2>4 DEF Kinds
    <3>2. \A s \in Sock : link[s] # "away" => link'[s] # "away"  BY <2>1
    <3> QED BY <1>0, <2>2, <2>10, <3>1, <3>2, OneMoves
  <2> QED BY <2>9, <2>11 DEF PlaceInv
<1>3. CASE Notify
  <2>1. /\ acc = "notify" /\ acc' = "accept" /\ last' = NextWorker /\ NotifyNext
        /\ UNCHANGED <<link, fresh, backlog, queue, notifier, epoll, at, cur, up>>
    BY <1>3 DEF Notify, clientVars
  <2> DEFINE new == IF notifier[NextWorker] THEN event[NextWorker] + 1
                    ELSE event[NextWorker]
  <2>2. event \in [Workers -> Nat] /\ new \in Nat
        /\ event' = [event EXCEPT ![NextWorker] = new]
    BY <1>0, <2>1 DEF PlaceType, NotifyNext
  <2> HIDE DEF new
  <2>3. event' \in [Workers -> Nat]  BY <2>2
  <2>4. PlaceType'  BY <1>0, <2>1, <2>3 DEF PlaceType
  <2>5. HeldOnce'  BY <1>0, <2>1 DEF HeldOnce, Holds
  <2> QED BY <2>4, <2>5 DEF PlaceInv
<1> QED BY <1>1, <1>2, <1>3 DEF Acceptor

LEMMA PlaceWorker ==
  ASSUME PlaceInv, NEW w \in Workers, WorkerStep(w) \/ ReceiveTimeout(w)
  PROVE  PlaceInv'
<1>0. PlaceType /\ HeldOnce /\ at \in [Workers -> Places] /\ cur \in [Workers -> Sock \cup {NoSock}]
      /\ epoll \in [Workers -> SUBSET Sock]
  BY DEF PlaceInv, PlaceType
<1> USE DEF WorkerGoes, Places, Reading
\* The socket stays where it is, and the worker goes on with it or leaves it.
<1>a. ASSUME NEW to \in {"wait", "drain", "size", "body"},
             at' = [at EXCEPT ![w] = to], at[w] # "sid",
             to \in Reading => at[w] \in Reading,
             UNCHANGED <<link, backlog, acc, fresh, last, queue, notifier, epoll, cur, up>>,
             event' \in [Workers -> Nat]
      PROVE  PlaceInv'
  <2>1. PlaceType'  BY <1>0, <1>a DEF PlaceType
  <2>2. \A s \in Sock, k \in Kinds, v \in Workers : Holds(k, v, s)' => Holds(k, v, s)
    BY <1>0, <1>a DEF Holds
  <2>3. HeldOnce'  BY <1>0, <1>a, <2>2, NoneMoves
  <2> QED BY <2>1, <2>3 DEF PlaceInv
<1>b. event \in [Workers -> Nat]  BY <1>0 DEF PlaceType
<1>1. CASE WakeForSockets(w)
  BY <1>1, <1>a, <1>b DEF WakeForSockets, CountTaken, clientVars, acceptorVars
<1>2. CASE QueueDrained(w)
  BY <1>2, <1>a, <1>b DEF QueueDrained, clientVars, acceptorVars
<1>3. CASE ReceiveId(w)
  BY <1>3, <1>a, <1>b DEF ReceiveId, clientVars, acceptorVars
<1>4. CASE ReceiveSize(w)
  <2>1. PICK to \in {"body", "wait"} : at' = [at EXCEPT ![w] = to]
    BY <1>4 DEF ReceiveSize
  <2> QED BY <1>4, <2>1, <1>a, <1>b DEF ReceiveSize, clientVars, acceptorVars
<1>5. CASE ReceiveBody(w)
  BY <1>5, <1>a, <1>b DEF ReceiveBody, clientVars, acceptorVars
<1>6. CASE SidFails(w) \/ ReceiveCut(w) \/ ReceiveTimeout(w)
  <2>1. UNCHANGED <<link, backlog, acc, fresh, last, queue, event, notifier, epoll, at, cur>>
        /\ up' = FALSE
    BY <1>6 DEF SidFails, ReceiveCut, ReceiveTimeout, Terminate, clientVars, acceptorVars, workerVars
  <2>2. PlaceType'  BY <1>0, <2>1 DEF PlaceType
  <2>3. HeldOnce'  BY <1>0, <2>1 DEF HeldOnce, Holds
  <2> QED BY <2>2, <2>3 DEF PlaceInv
<1>7. CASE Dequeue(w)
  <2> DEFINE m == Head(queue[w])
  <2>1. /\ at[w] = "drain" /\ at' = [at EXCEPT ![w] = "sid"] /\ queue[w] # <<>>
        /\ cur' = [cur EXCEPT ![w] = m] /\ queue' = [queue EXCEPT ![w] = Tail(queue[w])]
        /\ UNCHANGED <<link, backlog, acc, fresh, last, event, notifier, epoll, up>>
    BY <1>7 DEF Dequeue, clientVars, acceptorVars
  <2>2. queue \in [Workers -> Seq(Sock)] /\ queue[w] \in Seq(Sock) /\ IsInjective(queue[w])
    BY <1>0 DEF PlaceType
  <2>3. /\ m \in Sock /\ m \in Range(queue[w]) /\ Tail(queue[w]) \in Seq(Sock)
        /\ IsInjective(Tail(queue[w]))
        /\ \A s \in Range(Tail(queue[w])) : s \in Range(queue[w]) /\ s # m
    BY <2>1, <2>2, TailRange
  <2>4. Holds("queue", w, m)  BY <2>3 DEF Holds
  <2>5. /\ link[m] # "away"
        /\ \A k \in Kinds, v \in Workers : Holds(k, v, m) => k = "queue" /\ v = w
    BY <1>0, <2>3, <2>4 DEF HeldOnce, Kinds
  <2> HIDE DEF m
  <2>6. /\ queue'[w] = Tail(queue[w]) /\ cur'[w] = m /\ at'[w] = "sid"
        /\ \A v \in Workers : v # w => queue'[v] = queue[v] /\ cur'[v] = cur[v] /\ at'[v] = at[v]
        /\ queue' \in [Workers -> Seq(Sock)] /\ cur' \in [Workers -> Sock \cup {NoSock}]
        /\ at' \in [Workers -> Places]
    BY <1>0, <2>1, <2>2, <2>3
  <2>7. PlaceType'
    <3>1. \A v \in Workers : IsInjective(queue'[v])  BY <1>0, <2>3, <2>6 DEF PlaceType
    <3>2. \A v \in Workers : (at'[v] = "sid" => cur'[v] \in Sock)
                             /\ (at'[v] \in Reading => cur'[v] \in epoll'[v])
      BY <1>0, <2>1, <2>3, <2>6 DEF PlaceType
    <3> QED BY <1>0, <2>1, <2>6, <3>1, <3>2 DEF PlaceType
  <2>8. ASSUME NEW s \in Sock, NEW k \in Kinds, NEW v \in Workers, Holds(k, v, s)'
        PROVE  \/ s # m /\ Holds(k, v, s)
               \/ s = m /\ k = "sid" /\ v = w
    <3>1. CASE k = "sid" /\ v = w  BY <2>6, <2>8, <3>1 DEF Holds
    <3>2. CASE k = "queue" /\ v = w  BY <2>3, <2>6, <2>8, <3>2 DEF Holds
    <3>3. CASE ~(k = "sid" /\ v = w) /\ ~(k = "queue" /\ v = w)
      <4>1. Holds(k, v, s)  BY <2>1, <2>6, <2>8, <3>3 DEF Holds
      <4> QED BY <2>5, <3>3, <4>1
    <3> QED BY <3>1, <3>2, <3>3
  <2>9. HeldOnce'
    <3>1. "sid" \in Kinds /\ link'[m] # "away"  BY <2>1, <2>5 DEF Kinds
    <3>2. \A s \in Sock : link[s] # "away" => link'[s] # "away"  BY <2>1
    <3> QED BY <1>0, <2>3, <2>8, <3>1, <3>2, OneMoves
  <2> QED BY <2>7, <2>9 DEF PlaceInv
<1>8. CASE RegisterSocket(w)
  <2> DEFINE m == cur[w]
  <2>1. /\ at[w] = "sid" /\ at' = [at EXCEPT ![w] = "drain"]
        /\ cur' = [cur EXCEPT ![w] = NoSock] /\ epoll' = [epoll EXCEPT ![w] = epoll[w] \cup {m}]
        /\ UNCHANGED <<link, backlog, acc, fresh, last, queue, event, notifier, up>>
    BY <1>8 DEF RegisterSocket, clientVars, acceptorVars
  <2>2. m \in Sock  BY <1>0, <2>1 DEF PlaceType
  <2>3. Holds("sid", w, m)  BY <2>1 DEF Holds
  <2>4. /\ link[m] # "away"
        /\ \A k \in Kinds, v \in Workers : Holds(k, v, m) => k = "sid" /\ v = w
    BY <1>0, <2>2, <2>3 DEF HeldOnce, Kinds
  <2> HIDE DEF m
  <2>5. /\ epoll'[w] = epoll[w] \cup {m} /\ cur'[w] = NoSock /\ at'[w] = "drain"
        /\ \A v \in Workers : v # w => epoll'[v] = epoll[v] /\ cur'[v] = cur[v] /\ at'[v] = at[v]
        /\ epoll' \in [Workers -> SUBSET Sock] /\ cur' \in [Workers -> Sock \cup {NoSock}]
        /\ at' \in [Workers -> Places]
    BY <1>0, <2>1, <2>2
  <2>6. PlaceType'
    <3>1. \A v \in Workers : (at'[v] = "sid" => cur'[v] \in Sock)
                             /\ (at'[v] \in Reading => cur'[v] \in epoll'[v])
      BY <1>0, <2>5 DEF PlaceType
    <3> QED BY <1>0, <2>1, <2>5, <3>1 DEF PlaceType
  <2>7. ASSUME NEW s \in Sock, NEW k \in Kinds, NEW v \in Workers, Holds(k, v, s)'
        PROVE  \/ s # m /\ Holds(k, v, s)
               \/ s = m /\ k = "epoll" /\ v = w
    <3>1. CASE k = "sid" /\ v = w  BY <2>5, <2>7, <3>1 DEF Holds
    <3>2. CASE k = "epoll" /\ v = w
      <4>1. s = m \/ Holds(k, v, s)  BY <2>5, <2>7, <3>2 DEF Holds
      <4> QED BY <3>2, <4>1
    <3>3. CASE ~(k = "sid" /\ v = w) /\ ~(k = "epoll" /\ v = w)
      <4>1. Holds(k, v, s)  BY <2>1, <2>5, <2>7, <3>3 DEF Holds
      <4> QED BY <2>4, <3>3, <4>1
    <3> QED BY <3>1, <3>2, <3>3
  <2>8. HeldOnce'
    <3>1. "epoll" \in Kinds /\ link'[m] # "away"  BY <2>1, <2>4 DEF Kinds
    <3>2. \A s \in Sock : link[s] # "away" => link'[s] # "away"  BY <2>1
    <3> QED BY <1>0, <2>2, <2>7, <3>1, <3>2, OneMoves
  <2> QED BY <2>6, <2>8 DEF PlaceInv
<1>9. CASE SidBroken(w)
  <2>1. /\ at[w] = "sid" /\ at' = [at EXCEPT ![w] = "wait"]
        /\ cur' = [cur EXCEPT ![w] = NoSock] /\ notifier' = [notifier EXCEPT ![w] = FALSE]
        /\ UNCHANGED <<link, backlog, acc, fresh, last, queue, event, epoll, up>>
    BY <1>9 DEF SidBroken, DropNotifier, clientVars, acceptorVars
  <2>2. PlaceType'  BY <1>0, <2>1 DEF PlaceType
  <2>3. \A s \in Sock, k \in Kinds, v \in Workers : Holds(k, v, s)' => Holds(k, v, s)
    BY <1>0, <2>1 DEF Holds
  <2>4. HeldOnce'  BY <1>0, <2>1, <2>3, NoneMoves
  <2> QED BY <2>2, <2>4 DEF PlaceInv
<1>10. CASE ReceiveBroken(w)
  <2>1. /\ at[w] \in Reading /\ at' = [at EXCEPT ![w] = "wait"]
        /\ epoll' = [epoll EXCEPT ![w] = epoll[w] \ {cur[w]}]
        /\ UNCHANGED <<link, backlog, acc, fresh, last, queue, event, notifier, cur, up>>
    BY <1>10 DEF ReceiveBroken, StateGone, clientVars, acceptorVars
  <2>2. PlaceType'  BY <1>0, <2>1 DEF PlaceType
  <2>3. \A s \in Sock, k \in Kinds, v \in Workers : Holds(k, v, s)' => Holds(k, v, s)
    BY <1>0, <2>1 DEF Holds
  <2>4. HeldOnce'  BY <1>0, <2>1, <2>3, NoneMoves
  <2> QED BY <2>2, <2>4 DEF PlaceInv
<1>11. ASSUME NEW s \in Sock, HangUp(w, s) PROVE PlaceInv'
  <2>1. /\ at[w] = "wait" /\ epoll' = [epoll EXCEPT ![w] = epoll[w] \ {s}]
        /\ UNCHANGED <<link, backlog, acc, fresh, last, queue, event, notifier, at, cur, up>>
    BY <1>11 DEF HangUp, StateGone, clientVars, acceptorVars
  <2>2. PlaceType'  BY <1>0, <2>1 DEF PlaceType
  <2>3. \A r \in Sock, k \in Kinds, v \in Workers : Holds(k, v, r)' => Holds(k, v, r)
    BY <1>0, <2>1 DEF Holds
  <2>4. HeldOnce'  BY <1>0, <2>1, <2>3, NoneMoves
  <2> QED BY <2>2, <2>4 DEF PlaceInv
<1>12. ASSUME NEW s \in Sock, WakeForFrame(w, s) PROVE PlaceInv'
  <2>1. /\ at[w] = "wait" /\ at' = [at EXCEPT ![w] = "id"] /\ s \in epoll[w]
        /\ cur' = [cur EXCEPT ![w] = s]
        /\ UNCHANGED <<link, backlog, acc, fresh, last, queue, event, notifier, epoll, up>>
    BY <1>12 DEF WakeForFrame, clientVars, acceptorVars
  <2>2. PlaceType'  BY <1>0, <2>1 DEF PlaceType
  <2>3. \A r \in Sock, k \in Kinds, v \in Workers : Holds(k, v, r)' => Holds(k, v, r)
    BY <1>0, <2>1 DEF Holds
  <2>4. HeldOnce'  BY <1>0, <2>1, <2>3, NoneMoves
  <2> QED BY <2>2, <2>4 DEF PlaceInv
<1> QED
  BY <1>1, <1>2, <1>3, <1>4, <1>5, <1>6, <1>7, <1>8, <1>9, <1>10, <1>11, <1>12
  DEF WorkerStep

LEMMA PlaceStep == PlaceInv /\ [Next]_vars => PlaceInv'
<1>1. PlaceInv /\ UNCHANGED vars => PlaceInv'
  BY PlaceStutter DEF vars, clientVars, acceptorVars, workerVars, placeVars
<1> QED BY <1>1, PlaceClients, PlaceAcceptor, PlaceWorker DEF Next

----------------------------------------------------------------------------
(* What is read, made and delivered.                                       *)

Unread(s) == rx[s] \o flight[s]

\* The worker has read a part of a frame of s.
Inside(w, s) == cur[w] = s /\ at[w] \in {"size", "body"}

\* The receiver has not read the socket id of s.
Waiting(s) == \E k \in Kinds \ {"epoll"}, w \in Workers : Holds(k, w, s)

\* The messages delivered are those of the frames before f.
Reached(s, f) == Given(s, Len(delivered[s])) = Messages(s, f - 1)

SentInv(s) ==
  /\ IsStream(frames[s], Unread(s))
  /\ link[s] = "open" => Complete(frames[s], Unread(s))
  /\ link[s] \in {"away", "new"} => Unread(s) = <<>> /\ frames[s] = <<>>

WaitingInv(s) ==
  Waiting(s) =>
    /\ Unread(s) # <<>> => Unread(s)[1] = SocketId
    /\ link[s] = "open" => Unread(s) # <<>>
    /\ delivered[s] = <<>>

InsideInv(w, s) ==
  LET f == frame[w]
  IN /\ f \in 1..Len(frames[s]) /\ Reached(s, f)
     /\ at[w] = "body" => frames[s][f].size > 0 /\ frames[s][f].id \in Range(made[s])
     /\ link[s] = "open" => Unread(s) # <<>>
     /\ Unread(s) # <<>> => Unread(s)[1] = <<f, IF at[w] = "size" THEN 3 ELSE 5>>

BetweenInv(s) ==
  /\ Unread(s) # <<>> =>
       Unread(s)[1][1] > 0 /\ Unread(s)[1][2] = 1 /\ Reached(s, Unread(s)[1][1])
  /\ Unread(s) = <<>> /\ link[s] = "open" => Reached(s, Len(frames[s]) + 1)

ReadInv(w, s) ==
  s \in epoll[w] =>
    /\ link[s] \notin {"away", "new"}
    /\ Inside(w, s) => InsideInv(w, s)
    /\ ~Inside(w, s) => BetweenInv(s)

InOrderAt(s, i, d) ==
  /\ d.frame \in Messages(s, Len(frames[s]))
  /\ d.id = frames[s][d.frame].id /\ d.id \in Range(made[s])
  /\ Given(s, i - 1) = Messages(s, d.frame - 1)
OrderInv(s) ==
  /\ IsInjective(made[s])
  /\ \A i \in 1..Len(delivered[s]) : InOrderAt(s, i, delivered[s][i])

SocketInv(s) ==
  SentInv(s) /\ WaitingInv(s) /\ OrderInv(s) /\ \A w \in Workers : ReadInv(w, s)

DataType ==
  /\ frames \in [Sock -> Frames]
  /\ flight \in [Sock -> Seq(Piece)] /\ rx \in [Sock -> Seq(Piece)]
  /\ frame \in [Workers -> Nat]
  /\ made \in [Sock -> Seq(Ids)]
  /\ delivered \in [Sock -> Seq([id : Ids, frame : Nat])]

ReceiverInv == PlaceInv /\ DataType /\ \A s \in Sock : SocketInv(s)

LEMMA UnreadType ==
  ASSUME DataType, NEW s \in Sock
  PROVE  /\ rx[s] \in Seq(Piece) /\ flight[s] \in Seq(Piece) /\ frames[s] \in Frames
         /\ Unread(s) \in Seq(Piece)
         /\ rx[s] # <<>> => Unread(s) # <<>>
         /\ Unread(s) = <<>> => rx[s] = <<>> /\ flight[s] = <<>>
<1>1. rx[s] \in Seq(Piece) /\ flight[s] \in Seq(Piece) /\ frames[s] \in Frames
  BY DEF DataType
<1>2. rx[s] \o flight[s] = <<>> <=> rx[s] = <<>> /\ flight[s] = <<>>
  <2>1. \A r, f \in Seq(Piece) : r \o f = <<>> <=> r = <<>> /\ f = <<>>
    BY ConcatEqualIffEmpty
  <2> QED BY <1>1, <2>1, Zenon
<1> QED BY <1>1, <1>2, UnreadParts DEF Unread

LEMMA OrderKept ==
  ASSUME NEW s \in Sock, OrderInv(s), frames'[s] = frames[s],
         made'[s] = made[s], delivered'[s] = delivered[s]
  PROVE  OrderInv(s)'
<1>1. \A n : Given(s, n)' = Given(s, n) /\ Messages(s, n)' = Messages(s, n)
  BY DEF Given, Messages
<1>2. \A i, d : InOrderAt(s, i, d)' <=> InOrderAt(s, i, d)
  BY <1>1 DEF InOrderAt
<1> QED BY <1>2 DEF OrderInv

\* Nothing happens to a socket whose bytes, deliveries and reader stay as they are.
LEMMA SocketKept ==
  ASSUME NEW s \in Sock, SocketInv(s), Unread(s)' = Unread(s),
         link'[s] = link[s], frames'[s] = frames[s],
         made'[s] = made[s], delivered'[s] = delivered[s],
         Waiting(s)' => Waiting(s),
         \A w \in Workers : s \in epoll'[w] =>
           /\ s \in epoll[w] /\ (Inside(w, s)' <=> Inside(w, s))
           /\ Inside(w, s) => at'[w] = at[w] /\ frame'[w] = frame[w]
  PROVE  SocketInv(s)'
<1>1. \A n : Given(s, n)' = Given(s, n) /\ Messages(s, n)' = Messages(s, n)
  BY DEF Given, Messages
<1>2. \A f : Reached(s, f)' <=> Reached(s, f)  BY <1>1 DEF Reached
<1>3. SentInv(s)'  BY DEF SocketInv, SentInv
<1>4. WaitingInv(s)'  BY DEF SocketInv, WaitingInv
<1>5. OrderInv(s)'  BY OrderKept DEF SocketInv
<1>6. BetweenInv(s) => BetweenInv(s)'  BY <1>2 DEF BetweenInv
<1>7. ASSUME NEW w \in Workers, s \in epoll'[w] PROVE ReadInv(w, s)'
  <2>1. ReadInv(w, s)  BY DEF SocketInv
  <2>2. CASE Inside(w, s)
    <3>1. at'[w] = at[w] /\ frame'[w] = frame[w]  BY <1>7, <2>2
    <3>2. InsideInv(w, s) /\ link'[s] \notin {"away", "new"}  BY <1>7, <2>1, <2>2 DEF ReadInv
    <3>3. InsideInv(w, s)'  BY <1>2, <3>1, <3>2 DEF InsideInv
    <3> QED BY <1>7, <2>2, <3>2, <3>3 DEF ReadInv
  <2>3. CASE ~Inside(w, s)  BY <1>6, <1>7, <2>1, <2>3 DEF ReadInv
  <2> QED BY <2>2, <2>3
<1> QED BY <1>3, <1>4, <1>5, <1>7 DEF SocketInv, ReadInv

LEMMA ReceiverInit == Init => ReceiverInv
<1> SUFFICES ASSUME Init PROVE ReceiverInv
  OBVIOUS
<1>1. PlaceInv  BY PlaceInit
<1>2. DataType  BY DEF Init, DataType, Frames
<1>3. ASSUME NEW s \in Sock PROVE SocketInv(s)
  <2>1. rx[s] = <<>> /\ flight[s] = <<>> /\ frames[s] = <<>> /\ link[s] = "away" /\ delivered[s] = <<>> /\ made[s] = <<>>
        /\ \A w \in Workers : s \notin epoll[w]
    BY DEF Init
  <2>2. <<>> \in Seq(Piece)  OBVIOUS
  <2>3. Unread(s) = <<>>  BY <2>1, <2>2, ConcatEmptySeq, Zenon DEF Unread
  <2>4. SentInv(s)  BY <2>1, <2>3 DEF SentInv, IsStream
  <2>5. WaitingInv(s)  BY <2>1, <2>3 DEF WaitingInv
  <2>6. IsInjective(made[s])  BY <2>1 DEF IsInjective
  <2>7. OrderInv(s)  BY <2>1, <2>6 DEF OrderInv
  <2> QED BY <2>1, <2>4, <2>5, <2>7 DEF SocketInv, ReadInv
<1> QED BY <1>1, <1>2, <1>3 DEF ReceiverInv

\* A step that neither moves bytes nor delivers anything.
LEMMA BytesKept ==
  ASSUME ReceiverInv, PlaceInv', UNCHANGED <<link, frames, flight, rx, readerVars>>,
         \A s \in Sock : Waiting(s)' => Waiting(s),
         \A s \in Sock, w \in Workers : s \in epoll'[w] =>
           /\ s \in epoll[w] /\ (Inside(w, s)' <=> Inside(w, s))
           /\ Inside(w, s) => at'[w] = at[w]
  PROVE  ReceiverInv'
<1>1. DataType'  BY DEF ReceiverInv, DataType, readerVars
<1>2. ASSUME NEW s \in Sock PROVE SocketInv(s)'
  <2>1. /\ SocketInv(s) /\ Unread(s)' = Unread(s)
        /\ link'[s] = link[s] /\ frames'[s] = frames[s]
        /\ made'[s] = made[s] /\ delivered'[s] = delivered[s]
        /\ \A w \in Workers : frame'[w] = frame[w]
    BY DEF ReceiverInv, Unread, readerVars
  <2>2. /\ Waiting(s)' => Waiting(s)
        /\ \A w \in Workers : s \in epoll'[w] =>
             /\ s \in epoll[w] /\ (Inside(w, s)' <=> Inside(w, s))
             /\ Inside(w, s) => at'[w] = at[w] /\ frame'[w] = frame[w]
    BY <2>1
  <2> QED BY <2>1, <2>2, SocketKept
<1> QED BY <1>1, <1>2 DEF ReceiverInv

\* Frames that were sent stay what they are.
LEMMA SentKept ==
  ASSUME NEW s \in Sock, DataType, NEW r, frames'[s] = Append(frames[s], r)
  PROVE  /\ Len(frames'[s]) = Len(frames[s]) + 1 /\ Len(frames[s]) \in Nat
         /\ \A f \in 1..Len(frames[s]) : frames'[s][f] = frames[s][f]
         /\ \A n \in 0..Len(frames[s]) : Messages(s, n)' = Messages(s, n)
<1>1. frames[s] \in Frames  BY DEF DataType
<1>2. /\ Len(frames'[s]) = Len(frames[s]) + 1 /\ Len(frames[s]) \in Nat
      /\ \A f \in 1..Len(frames[s]) : frames'[s][f] = frames[s][f]
  BY <1>1 DEF Frames
<1>3. ASSUME NEW n \in 0..Len(frames[s]) PROVE Messages(s, n)' = Messages(s, n)
  <2>1. \A f \in 1..n : frames'[s][f] = frames[s][f]  BY <1>2
  <2> QED BY <2>1 DEF Messages
<1> QED BY <1>2, <1>3

LEMMA ClientsKeep == ReceiverInv /\ Clients => ReceiverInv'
<1> SUFFICES ASSUME ReceiverInv, Clients PROVE ReceiverInv'
  OBVIOUS
<1>0. PlaceInv' /\ PlaceInv /\ DataType
  BY PlaceClients DEF ReceiverInv
<1>l. link \in [Sock -> {"away", "new", "open", "closed", "reset"}]
  BY <1>0 DEF PlaceInv, PlaceType
\* The other clients' sockets.
<1>o. ASSUME NEW m \in Sock,
             \A s \in Sock : s # m =>
               /\ link'[s] = link[s] /\ frames'[s] = frames[s] /\ flight'[s] = flight[s]
               /\ \A w \in Workers, k \in Kinds : Holds(k, w, s)' => Holds(k, w, s),
             UNCHANGED <<rx, workerVars, readerVars>>,
             DataType', SocketInv(m)'
      PROVE  ReceiverInv'
  <2>1. ASSUME NEW s \in Sock, s # m PROVE SocketInv(s)'
    <3>1. /\ SocketInv(s) /\ Unread(s)' = Unread(s)
          /\ link'[s] = link[s] /\ frames'[s] = frames[s]
          /\ made'[s] = made[s] /\ delivered'[s] = delivered[s]
      BY <1>o, <2>1 DEF ReceiverInv, Unread, readerVars
    <3>2. Waiting(s)' => Waiting(s)  BY <1>o, <2>1 DEF Waiting
    <3>3. \A w \in Workers : s \in epoll'[w] =>
            /\ s \in epoll[w] /\ (Inside(w, s)' <=> Inside(w, s))
            /\ Inside(w, s) => at'[w] = at[w] /\ frame'[w] = frame[w]
      BY <1>o DEF Inside, workerVars, readerVars
    <3> QED BY <3>1, <3>2, <3>3, SocketKept
  <2> QED BY <1>0, <1>o, <2>1 DEF ReceiverInv
<1>1. ASSUME NEW m \in Sock, Connect(m) PROVE ReceiverInv'
  <2>1. /\ link[m] = "away" /\ link' = [link EXCEPT ![m] = "new"]
        /\ backlog' = Append(backlog, m)
        /\ UNCHANGED <<frames, flight, rx, acc, fresh, last, queue, workerVars, readerVars>>
    BY <1>1 DEF Connect, LinkGoes
  <2>2. SocketInv(m)  BY DEF ReceiverInv
  <2>3. /\ Unread(m) = <<>> /\ frames[m] = <<>> /\ link'[m] = "new"
        /\ Unread(m)' = Unread(m)
    BY <1>l, <2>1, <2>2 DEF SocketInv, SentInv, Unread
  <2>4. delivered[m] = <<>> /\ delivered' = delivered
    <3>1. Messages(m, Len(frames[m])) = {}  BY <2>3 DEF Messages
    <3>2. Len(delivered[m]) = 0
      <4>1. Len(delivered[m]) \in Nat  BY <1>0, LenProperties DEF DataType
      <4>2. \A i \in 1..Len(delivered[m]) : FALSE
        BY <2>2, <3>1 DEF SocketInv, OrderInv, InOrderAt
      <4>3. Len(delivered[m]) > 0 => 1 \in 1..Len(delivered[m])  BY <4>1
      <4> QED BY <4>1, <4>2, <4>3
    <3>3. delivered[m] = <<>>  BY <1>0, <3>2, EmptySeq DEF DataType
    <3> QED BY <2>1, <3>3 DEF readerVars
  <2>5. \A w \in Workers : m \notin epoll[w] /\ epoll' = epoll
    BY <1>0, <2>1 DEF PlaceInv, HeldOnce, Holds, Kinds, workerVars
  <2>6. SocketInv(m)'
    <3>1. SentInv(m)'  BY <2>1, <2>2, <2>3 DEF SocketInv, SentInv
    <3>2. WaitingInv(m)'  BY <2>3, <2>4 DEF WaitingInv
    <3>3. OrderInv(m)'  BY <2>1, <2>2, OrderKept DEF SocketInv, readerVars
    <3> QED BY <2>5, <3>1, <3>2, <3>3 DEF SocketInv, ReadInv
  <2>7. DataType'  BY <1>0, <2>1 DEF DataType, readerVars
  <2>8. ASSUME NEW s \in Sock, s # m, NEW w \in Workers, NEW k \in Kinds, Holds(k, w, s)'
        PROVE  Holds(k, w, s)
    <3>1. backlog \in Seq(Sock)  BY <1>0 DEF PlaceInv, PlaceType
    <3>2. s \in Range(backlog') => s \in Range(backlog)
      <4>1. Len(backlog) \in Nat /\ DOMAIN backlog = 1..Len(backlog)  BY <3>1, LenProperties
      <4>2. DOMAIN backlog' = 1..(Len(backlog) + 1) /\ backlog'[Len(backlog) + 1] = m
            /\ \A i \in 1..Len(backlog) : backlog'[i] = backlog[i]
        BY <2>1, <3>1
      <4>3. \A i \in DOMAIN backlog' : i \in DOMAIN backlog \/ i = Len(backlog) + 1
        BY <4>1, <4>2
      <4> QED BY <2>8, <4>1, <4>2, <4>3 DEF Range
    <3> QED BY <2>1, <2>8, <3>2 DEF Holds, workerVars
  <2> QED BY <1>o, <1>l, <2>1, <2>6, <2>7, <2>8
\* The other client actions move nothing on the server's side.
<1>p. ASSUME NEW m \in Sock, UNCHANGED <<backlog, fresh, queue, rx, workerVars, readerVars>>,
             \A s \in Sock : s # m =>
               link'[s] = link[s] /\ frames'[s] = frames[s] /\ flight'[s] = flight[s],
             DataType', SocketInv(m)'
      PROVE  ReceiverInv'
  <2>1. \A s \in Sock, w \in Workers, k \in Kinds : Holds(k, w, s)' => Holds(k, w, s)
    BY <1>p DEF Holds, workerVars
  <2> QED BY <1>o, <1>p, <2>1
<1>2. ASSUME NEW m \in Sock, SendSid(m) PROVE ReceiverInv'
  <2>1. /\ link[m] = "new" /\ link' = [link EXCEPT ![m] = "open"]
        /\ flight' = [flight EXCEPT ![m] = <<SocketId>>]
        /\ UNCHANGED <<frames, rx, backlog, fresh, queue, workerVars, readerVars>>
    BY <1>2 DEF SendSid, LinkGoes, acceptorVars
  <2>2. SocketInv(m)  BY DEF ReceiverInv
  <2>3. Unread(m) = <<>> /\ frames[m] = <<>> /\ rx[m] = <<>>
    BY <1>0, <2>1, <2>2, UnreadType DEF SocketInv, SentInv
  <2>4. <<SocketId>> \in Seq(Piece)  BY DEF Piece, SocketId
  <2>5. DataType'  BY <1>0, <2>1, <2>4 DEF DataType, readerVars
  <2>6. Unread(m)' = <<SocketId>>
    <3>1. rx'[m] = <<>> /\ flight'[m] = <<SocketId>>  BY <1>0, <2>1, <2>3 DEF DataType
    <3>2. <<>> \o <<SocketId>> = <<SocketId>>  BY <2>4, ConcatEmptySeq
    <3> QED BY <3>1, <3>2 DEF Unread
  <2>7. /\ Len(<<SocketId>>) = 1 /\ <<SocketId>>[1] = <<0, 1>> /\ <<SocketId>> # <<>>
        /\ Len(frames'[m]) = 0 /\ link'[m] = "open"
    BY <1>l, <2>1, <2>3 DEF SocketId
  <2>8. SentInv(m)'
    <3>1. IsStream(frames[m], <<SocketId>>)
      <4>1. FrameEnd(frames[m], 0) = 1  BY DEF FrameEnd
      <4>2. Leads(frames[m], <<0, 1>>, 1 - 1, <<0, 1>>)  BY <4>1 DEF Leads
      <4>3. \A i \in 1..Len(<<SocketId>>) : i = 1 /\ \A j \in i..Len(<<SocketId>>) : j = 1
        BY <2>7
      <4> QED BY <2>1, <2>7, <4>1, <4>2, <4>3 DEF IsStream
    <3>2. Complete(frames[m], <<SocketId>>)  BY <2>1, <2>7 DEF Complete, FrameEnd
    <3> QED BY <2>1, <2>6, <2>7, <3>1, <3>2 DEF SentInv
  <2>9. Waiting(m)' <=> Waiting(m)  BY <2>1 DEF Waiting, Holds, workerVars
  <2>10. WaitingInv(m)'
    BY <2>1, <2>2, <2>6, <2>7, <2>9 DEF SocketInv, WaitingInv, SocketId, readerVars
  <2>11. OrderInv(m)'  BY <2>1, <2>2, OrderKept DEF SocketInv, readerVars
  <2>12. \A w \in Workers : m \notin epoll'[w]
    BY <2>1, <2>2 DEF SocketInv, ReadInv, workerVars
  <2>13. SocketInv(m)'  BY <2>8, <2>10, <2>11, <2>12 DEF SocketInv, ReadInv
  <2> QED BY <1>p, <1>l, <1>0, <2>1, <2>5, <2>13 DEF DataType
<1>3. ASSUME NEW m \in Sock, NEW id \in Ids, NEW n \in Sizes, SendFrame(m, id, n)
      PROVE  ReceiverInv'
  <2> DEFINE r == [id |-> id, size |-> n]
             p == FramePieces(Len(frames[m]) + 1, n)
             u == Unread(m)
  <2>1. /\ link[m] = "open" /\ link' = link
        /\ frames' = [frames EXCEPT ![m] = Append(frames[m], r)]
        /\ flight' = [flight EXCEPT ![m] = flight[m] \o p]
        /\ UNCHANGED <<rx, backlog, fresh, queue, workerVars, readerVars>>
    BY <1>3 DEF SendFrame, acceptorVars
  <2>2. SocketInv(m)  BY DEF ReceiverInv
  <2>3. /\ rx[m] \in Seq(Piece) /\ flight[m] \in Seq(Piece) /\ u \in Seq(Piece)
        /\ frames[m] \in Frames
    BY <1>0, UnreadType
  <2>4. p \in Seq(Piece) /\ Len(frames[m]) \in Nat /\ n \in Nat
    <3>1. Len(frames[m]) \in Nat /\ n \in Nat
      BY <2>3, LenProperties, FramesAssumption DEF Frames
    <3>2. Len(frames[m]) + 1 \in Nat  BY <3>1
    <3> QED BY <2>3, <3>1, <3>2, FramePut
  <2>5. r \in [id : Ids, size : Sizes]  OBVIOUS
  <2> HIDE DEF r, p
  <2>6. flight[m] \o p \in Seq(Piece)  BY <2>3, <2>4, ConcatProperties
  <2>7. /\ frames'[m] = Append(frames[m], r) /\ frames'[m] \in Frames
        /\ flight'[m] = flight[m] \o p
    BY <1>0, <2>1, <2>3, <2>5 DEF DataType, Frames
  <2>8. DataType'  BY <1>0, <2>1, <2>6, <2>7 DEF DataType, readerVars
  <2>9. Unread(m)' = u \o p
    <3>1. \A x, y, z \in Seq(Piece) : (x \o y) \o z = x \o (y \o z)
      BY ConcatAssociative, SMTT(30)
    <3>2. (rx[m] \o flight[m]) \o p = rx[m] \o (flight[m] \o p)
      BY <2>3, <2>4, <3>1, Zenon
    <3> QED BY <2>1, <2>7, <3>2 DEF Unread
  <2>10. IsStream(frames[m], u) /\ Complete(frames[m], u)
    BY <2>1, <2>2 DEF SocketInv, SentInv
  <2> HIDE DEF u
  <2>11. /\ Unread(m)' # <<>>
         /\ IsStream(frames'[m], Unread(m)') /\ Complete(frames'[m], Unread(m)')
         /\ Unread(m)'[1] = IF u = <<>> THEN <<Len(frames[m]) + 1, 1>> ELSE u[1]
    <3> DEFINE t == Unread(m)'
               gr == frames'[m]
               fr == frames[m]
    <3>1. gr \in Frames /\ fr \in Frames /\ u \in Seq(Piece) /\ IsStream(fr, u) /\ Complete(fr, u)
      BY <2>3, <2>7, <2>10
    <3>2. /\ Len(gr) = Len(fr) + 1 /\ \A f \in 1..Len(fr) : gr[f] = fr[f]
          /\ 4 + n = 4 + gr[Len(fr) + 1].size /\ 4 + n \in Nat /\ 4 + n >= 1
      BY <2>3, <2>4, <2>7 DEF Frames, r
    <3>3. /\ t \in Seq(Piece) /\ Len(t) = Len(u) + (4 + n)
          /\ \A i \in 1..Len(u) : t[i] = u[i]
          /\ \A k \in 1..(4 + n) : t[Len(u) + k] = <<Len(fr) + 1, k>>
      <4>1. Len(fr) + 1 \in Nat /\ n \in Nat  BY <2>4
      <4>2. t = u \o FramePieces(Len(fr) + 1, n)  BY <2>9 DEF p
      <4> HIDE DEF t, fr
      <4> DEFINE g == Len(fr) + 1
      <4>3. g \in Nat /\ t = u \o FramePieces(g, n)  BY <4>1, <4>2
      <4> HIDE DEF g
      <4>4. /\ u \o FramePieces(g, n) \in Seq(Piece)
            /\ Len(u \o FramePieces(g, n)) = Len(u) + (4 + n)
            /\ \A i \in 1..Len(u) : (u \o FramePieces(g, n))[i] = u[i]
            /\ \A k \in 1..(4 + n) : (u \o FramePieces(g, n))[Len(u) + k] = <<g, k>>
        BY <3>1, <4>1, <4>3, FramePut, Zenon
      <4> QED BY <4>3, <4>4, Zenon DEF g
    <3> HIDE DEF t, gr, fr
    <3>4. /\ t # <<>> /\ IsStream(gr, t) /\ Complete(gr, t)
          /\ t[1] = IF u = <<>> THEN <<Len(fr) + 1, 1>> ELSE u[1]
      <4>1. OneMore(fr, gr, u, t, 4 + n)  BY <3>2, <3>3 DEF OneMore
      <4>2. 4 + n \in Nat \ {0}  BY <3>2
      <4> QED BY <3>1, <3>3, <4>1, <4>2, StreamAppend
    <3> QED BY <3>4 DEF t, gr, fr
  <2>12. /\ Len(frames'[m]) = Len(frames[m]) + 1 /\ Len(frames[m]) \in Nat
         /\ \A f \in 1..Len(frames[m]) : frames'[m][f] = frames[m][f]
         /\ \A k \in 0..Len(frames[m]) : Messages(m, k)' = Messages(m, k)
    BY <1>0, <2>7, SentKept
  <2>13. \A k : Given(m, k)' = Given(m, k)  BY <2>1 DEF Given, readerVars
  <2>14. \A f \in 1..(Len(frames[m]) + 1) : Reached(m, f)' <=> Reached(m, f)
    <3>1. \A f \in 1..(Len(frames[m]) + 1) : f - 1 \in 0..Len(frames[m])  BY <2>12
    <3> QED BY <2>1, <2>12, <2>13, <3>1 DEF Reached, readerVars
  <2>15. SentInv(m)'  BY <2>1, <2>11 DEF SentInv
  <2>16. Waiting(m)' <=> Waiting(m)  BY <2>1 DEF Waiting, Holds, workerVars
  <2>17. WaitingInv(m)'
    BY <2>1, <2>2, <2>11, <2>16 DEF SocketInv, WaitingInv, u, readerVars
  <2>18. OrderInv(m)'
    <3>1. IsInjective(made'[m])  BY <2>1, <2>2 DEF SocketInv, OrderInv, readerVars
    <3>2. ASSUME NEW i \in 1..Len(delivered'[m])
          PROVE  InOrderAt(m, i, delivered[m][i])'
      <4> PICK d : d = delivered[m][i]  OBVIOUS
      <4>1. i \in 1..Len(delivered[m]) /\ delivered'[m][i] = d  BY <2>1 DEF readerVars
      <4>2. /\ d.frame \in Messages(m, Len(frames[m]))
            /\ d.id = frames[m][d.frame].id /\ d.id \in Range(made[m])
            /\ Given(m, i - 1) = Messages(m, d.frame - 1)
        BY <2>2, <4>1 DEF SocketInv, OrderInv, InOrderAt
      <4>3. d.frame \in 1..Len(frames[m]) /\ frames[m][d.frame].size > 0
        BY <4>2 DEF Messages
      <4>4. d.frame - 1 \in 0..Len(frames[m]) /\ d.frame \in 1..Len(frames'[m])
        BY <2>12, <4>3
      <4>5. frames'[m][d.frame] = frames[m][d.frame]  BY <2>12, <4>3
      <4>6. d.frame \in Messages(m, Len(frames[m]))'  BY <4>3, <4>4, <4>5 DEF Messages
      <4>7. Given(m, i - 1)' = Messages(m, d.frame - 1)'
        BY <2>12, <2>13, <4>2, <4>4
      <4>8. made' = made  BY <2>1 DEF readerVars
      <4> QED BY <4>1, <4>2, <4>5, <4>6, <4>7, <4>8 DEF InOrderAt
    <3> QED BY <3>1, <3>2 DEF OrderInv
  <2>19. ASSUME NEW w \in Workers, m \in epoll'[w] PROVE ReadInv(w, m)'
    <3>1. m \in epoll[w] /\ ReadInv(w, m) /\ (Inside(w, m)' <=> Inside(w, m))
          /\ at' = at /\ frame' = frame /\ made' = made
      BY <2>1, <2>2, <2>19 DEF SocketInv, Inside, workerVars, readerVars
    <3>2. CASE Inside(w, m)
      <4>1. InsideInv(w, m)  BY <3>1, <3>2 DEF ReadInv
      <4>2. frame[w] \in 1..Len(frames[m]) /\ u # <<>>  BY <2>1, <4>1 DEF InsideInv, u
      <4>3. frame[w] \in 1..Len(frames'[m]) /\ frame[w] \in 1..(Len(frames[m]) + 1)
            /\ frames'[m][frame[w]] = frames[m][frame[w]]
        BY <2>12, <4>2
      <4>4. InsideInv(w, m)'  BY <2>11, <2>14, <3>1, <4>1, <4>2, <4>3 DEF InsideInv, u
      <4> QED BY <2>1, <3>1, <3>2, <4>4 DEF ReadInv
    <3>3. CASE ~Inside(w, m)
      <4>1. BetweenInv(m)  BY <3>1, <3>3 DEF ReadInv
      <4>2. CASE u = <<>>
        <5>1. Reached(m, Len(frames[m]) + 1)  BY <2>1, <4>1, <4>2 DEF BetweenInv, u
        <5>3. Unread(m)'[1] = <<Len(frames[m]) + 1, 1>>  BY <2>11, <4>2
        <5>4. Given(m, Len(delivered[m]))' = Messages(m, Len(frames[m]))
          BY <2>1, <2>12, <2>13, <5>1 DEF Reached, readerVars
        <5>5. \A g : g = Len(frames[m]) + 1 => Given(m, Len(delivered[m]))' = Messages(m, g - 1)'
          BY <2>12, <5>4
        <5> QED BY <2>1, <2>11, <2>12, <3>1, <3>3, <5>3, <5>5 DEF ReadInv, BetweenInv, Reached
      <4>3. CASE u # <<>>
        <5>1. u[1][1] > 0 /\ u[1][2] = 1 /\ Reached(m, u[1][1])  BY <4>1, <4>3 DEF BetweenInv, u
        <5>2. u[1][1] \in 0..Len(frames[m])
          <6>1. 1 \in 1..Len(u)  BY <2>3, <4>3, EmptySeq
          <6> QED BY <2>10, <6>1 DEF IsStream
        <5>3. u[1][1] \in 1..(Len(frames[m]) + 1)  BY <2>12, <5>1, <5>2
        <5>4. Unread(m)'[1] = u[1]  BY <2>11, <4>3
        <5>5. \A f \in 1..(Len(frames[m]) + 1) : Reached(m, f) =>
                Given(m, Len(delivered[m]))' = Messages(m, f - 1)'
          BY <2>14 DEF Reached
        <5> QED BY <2>1, <2>11, <3>1, <3>3, <5>1, <5>3, <5>4, <5>5 DEF ReadInv, BetweenInv, Reached
      <4> QED BY <4>2, <4>3
    <3> QED BY <3>2, <3>3
  <2>20. SocketInv(m)'  BY <2>15, <2>17, <2>18, <2>19 DEF SocketInv, ReadInv
  <2> QED BY <1>p, <1>0, <2>1, <2>8, <2>20 DEF DataType
\* A client that leaves may cut the end of its bytes off.
<1>4. ASSUME NEW m \in Sock, Close(m) \/ Reset(m) PROVE ReceiverInv'
  <2> DEFINE u == Unread(m)
  <2>1. PICK to \in {"closed", "reset"}, n \in 0..Len(flight[m]) :
          /\ link' = [link EXCEPT ![m] = to]
          /\ flight' = [flight EXCEPT ![m] = SubSeq(flight[m], 1, n)]
    <3>1. CASE Close(m)  BY <3>1 DEF Close
    <3>2. CASE Reset(m)
      <4>1. SubSeq(flight[m], 1, 0) = <<>>  BY SubSeqEmpty
      <4>2. 0 \in 0..Len(flight[m])  BY <1>0, LenProperties DEF DataType
      <4> QED BY <3>2, <4>1, <4>2 DEF Reset
    <3> QED BY <1>4, <3>1, <3>2
  <2>2. UNCHANGED <<frames, rx, backlog, fresh, queue, workerVars, readerVars>>
    BY <1>4 DEF Close, Reset, acceptorVars
  <2>3. SocketInv(m)  BY DEF ReceiverInv
  <2>4. /\ rx[m] \in Seq(Piece) /\ flight[m] \in Seq(Piece) /\ u \in Seq(Piece)
    BY <1>0, UnreadType
  <2>5. SubSeq(flight[m], 1, n) \in Seq(Piece)
    <3>1. n \in Nat /\ n <= Len(flight[m])  BY <2>1, <2>4, LenProperties
    <3> QED BY <2>4, <3>1
  <2>6. DataType'  BY <1>0, <2>1, <2>2, <2>5 DEF DataType, readerVars
  <2>7. /\ Unread(m)' \in Seq(Piece) /\ Len(Unread(m)') <= Len(u)
        /\ \A i \in 1..Len(Unread(m)') : Unread(m)'[i] = u[i]
    <3>1. Unread(m)' = rx[m] \o SubSeq(flight[m], 1, n)
      BY <1>0, <2>1, <2>2 DEF DataType, Unread
    <3>2. n \in 0..Len(flight[m])  BY <2>1
    <3> DEFINE t == Unread(m)'
               q == rx[m]
               f == flight[m]
    <3>3. q \in Seq(Piece) /\ f \in Seq(Piece) /\ n \in 0..Len(f)
          /\ t = q \o SubSeq(f, 1, n)
      BY <2>4, <3>1, <3>2
    <3> HIDE DEF t, q, f
    <3>4. /\ t \in Seq(Piece) /\ Len(t) <= Len(q \o f)
          /\ \A i \in 1..Len(t) : t[i] = (q \o f)[i]
      BY <3>3, LeaveCuts
    <3> QED BY <3>4 DEF Unread, t, q, f, u
  <2> HIDE DEF u
  <2>8. IsStream(frames[m], Unread(m)')
    <3> DEFINE t == Unread(m)'
    <3>1. IsStream(frames[m], u)  BY <2>3 DEF SocketInv, SentInv, u
    <3>2. t \in Seq(Piece) /\ Len(t) <= Len(u) /\ \A i \in 1..Len(t) : t[i] = u[i]
      BY <2>7
    <3> HIDE DEF t
    <3>3. IsStream(frames[m], t)  BY <2>4, <3>1, <3>2, StreamPrefix
    <3> QED BY <3>3 DEF t
  <2>9. link'[m] = to /\ link'[m] \notin {"open", "away", "new"}
    BY <1>l, <2>1
  <2>10. Unread(m)' # <<>> => u # <<>> /\ Unread(m)'[1] = u[1]
    <3>1. ASSUME Unread(m)' # <<>> PROVE 1 \in 1..Len(Unread(m)') /\ Len(u) # 0
      BY <2>4, <2>7, <3>1, EmptySeq, LenProperties
    <3>2. Len(<<>>) = 0  BY EmptySeq
    <3> QED BY <2>7, <3>1, <3>2
  <2>11. SentInv(m)'  BY <2>2, <2>8, <2>9 DEF SentInv
  <2>12. Waiting(m)' <=> Waiting(m)  BY <2>2 DEF Waiting, Holds, workerVars
  <2>13. WaitingInv(m)'
    BY <2>2, <2>3, <2>9, <2>10, <2>12 DEF SocketInv, WaitingInv, u, readerVars
  <2>14. OrderInv(m)'  BY <2>2, <2>3, OrderKept DEF SocketInv, readerVars
  <2>15. \A f : Reached(m, f) <=> Given(m, Len(delivered[m]))' = Messages(m, f - 1)'
    BY <2>2 DEF Reached, Given, Messages, readerVars
  <2>16. ASSUME NEW w \in Workers, m \in epoll'[w] PROVE ReadInv(w, m)'
    <3>1. m \in epoll[w] /\ ReadInv(w, m) /\ (Inside(w, m)' <=> Inside(w, m))
          /\ at' = at /\ frame' = frame /\ made' = made
      BY <2>2, <2>3, <2>16 DEF SocketInv, Inside, workerVars, readerVars
    <3>2. CASE Inside(w, m)
      <4>1. InsideInv(w, m)  BY <3>1, <3>2 DEF ReadInv
      <4>2. InsideInv(w, m)'
        BY <2>2, <2>9, <2>10, <2>15, <3>1, <4>1 DEF InsideInv, Reached, u
      <4> QED BY <2>9, <3>1, <3>2, <4>2 DEF ReadInv
    <3>3. CASE ~Inside(w, m)
      <4>1. BetweenInv(m)  BY <3>1, <3>3 DEF ReadInv
      <4>2. Unread(m)' # <<>> => u # <<>> /\ u[1][1] > 0 /\ u[1][2] = 1 /\ Reached(m, u[1][1])
        BY <2>10, <4>1 DEF BetweenInv, u
      <4>3. BetweenInv(m)'  BY <2>9, <2>10, <2>15, <4>2 DEF BetweenInv, Reached
      <4> QED BY <2>9, <3>1, <3>3, <4>3 DEF ReadInv
    <3> QED BY <3>2, <3>3
  <2>17. SocketInv(m)'  BY <2>11, <2>13, <2>14, <2>16 DEF SocketInv, ReadInv
  <2> QED BY <1>p, <1>l, <1>0, <2>1, <2>2, <2>6, <2>17 DEF DataType
<1> QED BY <1>1, <1>2, <1>3, <1>4 DEF Clients

\* An arrival changes nothing that is unread.
LEMMA NetworkKeeps == ReceiverInv /\ Network => ReceiverInv'
<1> SUFFICES ASSUME ReceiverInv, NEW m \in Sock, Arrive(m), Network PROVE ReceiverInv'
  BY DEF Network
<1>0. PlaceInv' /\ PlaceInv /\ DataType
  BY PlaceClients DEF ReceiverInv
<1>1. PICK n \in 1..Len(flight[m]) :
        /\ rx' = [rx EXCEPT ![m] = rx[m] \o SubSeq(flight[m], 1, n)]
        /\ flight' = [flight EXCEPT ![m] = SubSeq(flight[m], n + 1, Len(flight[m]))]
  BY DEF Arrive
<1>2. UNCHANGED <<link, frames, backlog, fresh, queue, workerVars, readerVars>>
  BY DEF Arrive, acceptorVars
<1>3. rx[m] \in Seq(Piece) /\ flight[m] \in Seq(Piece)  BY <1>0 DEF DataType
<1>4. n \in 0..Len(flight[m]) /\ n \in Nat /\ n + 1 \in Nat /\ Len(flight[m]) \in Nat
  BY <1>1, <1>3, LenProperties
<1>5. /\ SubSeq(flight[m], 1, n) \in Seq(Piece)
      /\ SubSeq(flight[m], n + 1, Len(flight[m])) \in Seq(Piece)
  BY <1>3, <1>4
<1>6. rx[m] \o SubSeq(flight[m], 1, n) \in Seq(Piece)
  <2> DEFINE a == SubSeq(flight[m], 1, n)
             q == rx[m]
  <2>1. a \in Seq(Piece) /\ q \in Seq(Piece)  BY <1>3, <1>5
  <2> HIDE DEF a, q
  <2>2. q \o a \in Seq(Piece)  BY <2>1, ConcatProperties
  <2> QED BY <2>2 DEF a, q
<1>7. DataType'  BY <1>0, <1>1, <1>2, <1>5, <1>6 DEF DataType, readerVars
<1>8. Unread(m)' = Unread(m)
  <2>1. /\ rx'[m] = rx[m] \o SubSeq(flight[m], 1, n)
        /\ flight'[m] = SubSeq(flight[m], n + 1, Len(flight[m]))
    BY <1>0, <1>1 DEF DataType
  <2>2. (rx[m] \o SubSeq(flight[m], 1, n)) \o SubSeq(flight[m], n + 1, Len(flight[m]))
          = rx[m] \o flight[m]
    BY <1>3, <1>4, ArrivalKeeps, Zenon
  <2> QED BY <2>1, <2>2 DEF Unread
<1>9. ASSUME NEW s \in Sock PROVE SocketInv(s)'
  <2>1. Unread(s)' = Unread(s)
    <3>1. CASE s = m  BY <1>8, <3>1
    <3>2. CASE s # m  BY <1>0, <1>1, <3>2 DEF Unread, DataType
    <3> QED BY <3>1, <3>2
  <2>2. /\ SocketInv(s) /\ link'[s] = link[s] /\ frames'[s] = frames[s]
        /\ made'[s] = made[s] /\ delivered'[s] = delivered[s]
    BY <1>2 DEF ReceiverInv, readerVars
  <2>3. Waiting(s)' => Waiting(s)  BY <1>2 DEF Waiting, Holds, workerVars
  <2>4. \A w \in Workers : s \in epoll'[w] =>
          /\ s \in epoll[w] /\ (Inside(w, s)' <=> Inside(w, s))
          /\ Inside(w, s) => at'[w] = at[w] /\ frame'[w] = frame[w]
    BY <1>2 DEF Inside, workerVars, readerVars
  <2> QED BY <2>1, <2>2, <2>3, <2>4, SocketKept
<1> QED BY <1>0, <1>7, <1>9 DEF ReceiverInv

LEMMA AcceptorKeeps == ReceiverInv /\ Acceptor => ReceiverInv'
<1> SUFFICES ASSUME ReceiverInv, Acceptor PROVE ReceiverInv'
  OBVIOUS
<1>0. PlaceInv' /\ PlaceInv /\ PlaceType /\ last \in Workers /\ NextWorker \in Workers /\ 0 \in Workers
  BY PlaceAcceptor, NextWorkerType DEF ReceiverInv, PlaceInv, PlaceType
<1>1. UNCHANGED <<link, frames, flight, rx, readerVars, at, cur, epoll>>
  BY DEF Acceptor, Accept, Enqueue, Notify, clientVars, workerVars
<1>2. ASSUME NEW s \in Sock, Waiting(s)' PROVE Waiting(s)
  <2>1. PICK k \in Kinds \ {"epoll"}, w \in Workers : Holds(k, w, s)'
    BY <1>2 DEF Waiting
  <2>2. CASE Holds(k, w, s)  BY <2>1, <2>2 DEF Waiting
  <2>3. CASE ~Holds(k, w, s)
    <3>1. \/ Holds("backlog", 0, s)
          \/ Holds("fresh", 0, s)
      <4>1. CASE Accept
        <5>1. /\ backlog # <<>> /\ fresh' = Head(backlog) /\ backlog' = Tail(backlog)
              /\ queue' = queue
          BY <4>1 DEF Accept
        <5>2. /\ fresh' \in Range(backlog)
              /\ \A r \in Range(backlog') : r \in Range(backlog)
          BY <1>0, <5>1, TailRange DEF PlaceType
        <5> QED BY <1>1, <2>1, <2>3, <5>1, <5>2 DEF Holds
      <4>2. CASE Enqueue
        <5>1. /\ acc = "enqueue" /\ fresh' = NoSock /\ backlog' = backlog
              /\ queue' = [queue EXCEPT ![NextWorker] = Append(queue[NextWorker], fresh)]
          BY <4>2 DEF Enqueue
        <5>2. fresh \in Sock  BY <1>0, <5>1 DEF PlaceType
        <5>3. k = "queue" /\ w = NextWorker /\ s \in Range(queue'[w]) /\ s \notin Range(queue[w])
          <6>1. k # "fresh"  BY <2>1, <5>1, SockAssumption DEF Holds
          <6>2. \A v \in Workers : v # NextWorker => queue'[v] = queue[v]
            BY <1>0, <5>1 DEF PlaceType
          <6> QED BY <1>1, <2>1, <2>3, <5>1, <6>1, <6>2 DEF Holds
        <5>4. Range(queue'[w]) \subseteq Range(queue[w]) \cup {fresh}
          <6>1. queue[w] \in Seq(Sock) /\ queue'[w] = Append(queue[w], fresh)
            BY <1>0, <5>1, <5>3 DEF PlaceType
          <6>2. Len(queue[w]) \in Nat /\ DOMAIN queue[w] = 1..Len(queue[w])
            BY <6>1, LenProperties
          <6>3. /\ DOMAIN queue'[w] = 1..(Len(queue[w]) + 1) /\ queue'[w][Len(queue[w]) + 1] = fresh
                /\ \A i \in 1..Len(queue[w]) : queue'[w][i] = queue[w][i]
            BY <5>2, <6>1
          <6>4. \A i \in DOMAIN queue'[w] : i \in DOMAIN queue[w] \/ i = Len(queue[w]) + 1
            BY <6>2, <6>3
          <6> QED BY <6>2, <6>3, <6>4 DEF Range
        <5>5. s = fresh  BY <5>3, <5>4
        <5> QED BY <5>5 DEF Holds
      <4>3. CASE Notify
        <5>1. UNCHANGED <<backlog, fresh, queue>>  BY <4>3 DEF Notify
        <5> QED BY <1>1, <2>1, <2>3, <5>1 DEF Holds
      <4> QED BY <4>1, <4>2, <4>3 DEF Acceptor
    <3>2. {"backlog", "fresh"} \subseteq Kinds \ {"epoll"}  BY DEF Kinds
    <3> QED BY <1>0, <3>1, <3>2 DEF Waiting
  <2> QED BY <2>2, <2>3
<1>3. \A s \in Sock, w \in Workers : s \in epoll'[w] =>
        /\ s \in epoll[w] /\ (Inside(w, s)' <=> Inside(w, s))
        /\ Inside(w, s) => at'[w] = at[w]
  BY <1>1 DEF Inside
<1> QED BY <1>0, <1>1, <1>2, <1>3, BytesKept

\* A worker takes n pieces of the socket it has in hand.
LEMMA ReadField ==
  ASSUME NEW fr \in Frames, NEW u \in Seq(Piece), IsStream(fr, u), u # <<>>,
         NEW f, NEW k, u[1] = <<f, k>>,
         NEW n \in 1..Len(u), n <= FrameEnd(fr, f) - k + 1, NEW t, Took(u, n, t)
  PROVE  /\ IsStream(fr, t) /\ f \in 0..Len(fr)
         /\ Complete(fr, u) => Complete(fr, t)
         /\ n <= FrameEnd(fr, f) - k =>
              /\ t # <<>> => t[1] = <<f, k + n>>
              /\ Complete(fr, u) => t # <<>>
         /\ n = FrameEnd(fr, f) - k + 1 =>
              /\ t # <<>> => t[1] = <<f + 1, 1>>
              /\ Complete(fr, u) /\ t = <<>> => f = Len(fr)
<1>1. n \in 0..Len(u)  BY LenProperties
<1>2. IsStream(fr, t) /\ (Complete(fr, u) => Complete(fr, t))
  BY <1>1, StreamDrop
<1> QED BY <1>2, AfterField

LEMMA ReadTakes ==
  ASSUME DataType, NEW m \in Sock, NEW n \in 1..Len(rx[m]),
         rx' = [rx EXCEPT ![m] = SubSeq(rx[m], n + 1, Len(rx[m]))], flight' = flight
  PROVE  /\ Took(Unread(m), n, Unread(m)') /\ n \in 1..Len(Unread(m)) /\ Unread(m) # <<>>
         /\ Unread(m)[1] = rx[m][1] /\ rx' \in [Sock -> Seq(Piece)]
<1> PICK q, z : q = rx[m] /\ z = flight[m]  OBVIOUS
<1>1. q \in Seq(Piece) /\ z \in Seq(Piece)  BY DEF DataType
<1>2. Len(q) \in Nat /\ Len(z) \in Nat  BY <1>1, LenProperties
<1>3. n \in 0..Len(q) /\ 1 \in 1..Len(q) /\ n \in 1..Len(q)  BY <1>2
<1>4. Took(q \o z, n, SubSeq(q, n + 1, Len(q)) \o z)  BY <1>1, <1>3, ReadDrops
<1>5. SubSeq(q, n + 1, Len(q)) \in Seq(Piece)  BY <1>1, <1>2, <1>3
<1>6. rx' \in [Sock -> Seq(Piece)] /\ rx'[m] = SubSeq(q, n + 1, Len(q))
  BY <1>5 DEF DataType
<1>7. Unread(m) = q \o z /\ Unread(m)' = SubSeq(q, n + 1, Len(q)) \o z
  BY <1>6 DEF Unread
<1>8. /\ Len(q \o z) = Len(q) + Len(z) /\ q \o z \in Seq(Piece)
      /\ \A i \in 1..Len(q) : (q \o z)[i] = q[i]
  BY <1>1, UnreadParts, Zenon
<1>9. (q \o z)[1] = q[1]  BY <1>3, <1>8, Zenon
<1>10. n \in 1..Len(q \o z) /\ q \o z # <<>>  BY <1>1, <1>3, UnreadLonger, Zenon
<1> QED BY <1>4, <1>6, <1>7, <1>8, <1>9, <1>10

\* Only that socket is concerned, and only by that worker.
LEMMA OneReads ==
  ASSUME ReceiverInv, PlaceInv', NEW w \in Workers, NEW m \in Sock,
         m = cur[w], m \in epoll'[w], at'[w] # "sid", cur'[w] \in {m, NoSock},
         UNCHANGED <<link, frames, flight, backlog, fresh, queue>>,
         \A s \in Sock : s # m =>
           /\ rx'[s] = rx[s] /\ made'[s] = made[s] /\ delivered'[s] = delivered[s]
           /\ s \in epoll'[w] => s \in epoll[w],
         \A v \in Workers : v # w =>
           at'[v] = at[v] /\ cur'[v] = cur[v] /\ frame'[v] = frame[v] /\ epoll'[v] = epoll[v],
         DataType', SentInv(m)', OrderInv(m)', link[m] \notin {"away", "new"},
         Inside(w, m)' => InsideInv(w, m)', ~Inside(w, m)' => BetweenInv(m)'
  PROVE  ReceiverInv'
<1>1. \A l \in Kinds, v \in Workers : Holds(l, v, m)' => l = "epoll" /\ v = w
  <2>1. "epoll" \in Kinds /\ Holds("epoll", w, m)'  BY DEF Kinds, Holds
  <2>2. \A k \in Kinds, x \in Workers : Holds(k, x, m)' =>
          \A l \in Kinds, v \in Workers : Holds(l, v, m)' => l = k /\ v = x
    BY DEF PlaceInv, HeldOnce
  <2> QED BY <2>1, <2>2
<1>2. SocketInv(m)'
  <2>1. ~Waiting(m)'  BY <1>1 DEF Waiting
  <2>2. WaitingInv(m)'  BY <2>1 DEF WaitingInv
  <2>3. \A v \in Workers : m \in epoll'[v] => v = w
    BY <1>1 DEF Kinds, Holds
  <2>4. \A v \in Workers : ReadInv(v, m)'
    <3>1. ReadInv(w, m)'  BY DEF ReadInv
    <3>2. ASSUME NEW v \in Workers, v # w PROVE ReadInv(v, m)'
      BY <2>3, <3>2 DEF ReadInv
    <3> QED BY <3>1, <3>2
  <2> QED BY <2>2, <2>4 DEF SocketInv
<1>3. ASSUME NEW s \in Sock, s # m PROVE SocketInv(s)'
  <2>1. /\ SocketInv(s) /\ Unread(s)' = Unread(s)
        /\ link'[s] = link[s] /\ frames'[s] = frames[s]
        /\ made'[s] = made[s] /\ delivered'[s] = delivered[s]
    BY <1>3 DEF ReceiverInv, Unread
  <2>2. ASSUME NEW k \in Kinds \ {"epoll"}, NEW v \in Workers, Holds(k, v, s)'
        PROVE  Holds(k, v, s)
    BY <2>2 DEF Holds
  <2>3. Waiting(s)' => Waiting(s)  BY <2>2 DEF Waiting
  <2>4. s # NoSock  BY SockAssumption
  <2>5. ASSUME NEW v \in Workers, s \in epoll'[v]
        PROVE  /\ s \in epoll[v] /\ (Inside(v, s)' <=> Inside(v, s))
               /\ Inside(v, s) => at'[v] = at[v] /\ frame'[v] = frame[v]
    <3>1. CASE v = w  BY <1>3, <2>4, <2>5, <3>1 DEF Inside
    <3>2. CASE v # w  BY <2>5, <3>2 DEF Inside
    <3> QED BY <3>1, <3>2
  <2> QED BY <2>1, <2>3, <2>5, SocketKept
<1> QED BY <1>2, <1>3 DEF ReceiverInv

\* The socket id.
LEMMA RegisterKeeps ==
  ASSUME ReceiverInv, PlaceInv', NEW w \in Workers, RegisterSocket(w)
  PROVE  ReceiverInv'
<1>0. PlaceType /\ DataType  BY DEF ReceiverInv, PlaceInv
<1> PICK m : m = cur[w]  OBVIOUS
<1>1. /\ at[w] = "sid" /\ at' = [at EXCEPT ![w] = "drain"] /\ rx[m] # <<>>
      /\ cur' = [cur EXCEPT ![w] = NoSock] /\ epoll' = [epoll EXCEPT ![w] = epoll[w] \cup {m}]
      /\ rx' = [rx EXCEPT ![m] = Tail(rx[m])]
      /\ UNCHANGED <<link, frames, flight, backlog, fresh, queue, frame, made, delivered>>
  BY DEF RegisterSocket, WorkerGoes, clientVars, acceptorVars, readerVars
<1>2. m \in Sock  BY <1>0, <1>1 DEF PlaceType
<1>3. SocketInv(m)  BY <1>2 DEF ReceiverInv
<1>4. Waiting(m)
  <2>1. Holds("sid", w, m) /\ "sid" \in Kinds \ {"epoll"}  BY <1>1 DEF Holds, Kinds
  <2> QED BY <2>1 DEF Waiting
<1>5. /\ rx[m] \in Seq(Piece) /\ frames[m] \in Frames
      /\ Unread(m) \in Seq(Piece) /\ Unread(m) # <<>>
  BY <1>0, <1>1, <1>2, UnreadType
<1>6. Unread(m)[1] = <<0, 1>> /\ delivered[m] = <<>>
  BY <1>3, <1>4, <1>5 DEF SocketInv, WaitingInv, SocketId
<1>7. link[m] \notin {"away", "new"} /\ IsStream(frames[m], Unread(m))
      /\ (link[m] = "open" => Complete(frames[m], Unread(m)))
  BY <1>3, <1>5 DEF SocketInv, SentInv
<1>8. 1 \in 1..Len(rx[m]) /\ Tail(rx[m]) = SubSeq(rx[m], 1 + 1, Len(rx[m]))
  BY <1>1, <1>5, EmptySeq, TailIsSubSeq
<1>9. /\ Took(Unread(m), 1, Unread(m)') /\ 1 \in 1..Len(Unread(m))
      /\ rx' \in [Sock -> Seq(Piece)]
  BY <1>0, <1>1, <1>2, <1>8, ReadTakes
<1> PICK t : t = Unread(m)'  OBVIOUS
<1>10. /\ IsStream(frames[m], t)
       /\ link[m] = "open" => Complete(frames[m], t)
       /\ t # <<>> => t[1] = <<1, 1>>
       /\ link[m] = "open" /\ t = <<>> => 0 = Len(frames[m])
  <2> PICK fr, u : fr = frames[m] /\ u = Unread(m)  OBVIOUS
  <2>1. FrameEnd(fr, 0) = 1  BY DEF FrameEnd
  <2>2. 1 <= FrameEnd(fr, 0) - 1 + 1 /\ 1 = FrameEnd(fr, 0) - 1 + 1  BY <2>1
  <2>3. fr \in Frames /\ u \in Seq(Piece) /\ IsStream(fr, u) /\ u # <<>> /\ u[1] = <<0, 1>>
        /\ 1 \in 1..Len(u) /\ Took(u, 1, t)
    BY <1>5, <1>6, <1>7, <1>9
  <2>4. /\ IsStream(fr, t)
        /\ Complete(fr, u) => Complete(fr, t)
        /\ t # <<>> => t[1] = <<0 + 1, 1>>
        /\ Complete(fr, u) /\ t = <<>> => 0 = Len(fr)
    BY <2>2, <2>3, ReadField
  <2> QED BY <1>7, <2>4
<1>11. DataType'  BY <1>0, <1>1, <1>9 DEF DataType
<1>12. SentInv(m)'
  BY <1>1, <1>7, <1>10 DEF SentInv
<1>13. OrderInv(m)'  BY <1>1, <1>2, <1>3, OrderKept DEF SocketInv
<1>14. BetweenInv(m)'
  <2>1. \A f : f = 1 => Given(m, Len(delivered[m]))' = Messages(m, f - 1)'
    <3>1. Messages(m, 1 - 1)' = {}  BY DEF Messages
    <3>2. Len(delivered'[m]) = 0  BY <1>1, <1>6
    <3>3. Given(m, Len(delivered[m]))' = {}  BY <3>2 DEF Given
    <3> QED BY <3>1, <3>3
  <2>2. t # <<>> => t[1][1] = 1 /\ t[1][2] = 1  BY <1>10
  <2>3. t = <<>> /\ link'[m] = "open" => Len(frames'[m]) + 1 = 1
    BY <1>1, <1>10
  <2> QED BY <2>1, <2>2, <2>3 DEF BetweenInv, Reached
<1>15. /\ at'[w] = "drain" /\ cur'[w] = NoSock /\ m \in epoll'[w]
       /\ \A v \in Workers : v # w => at'[v] = at[v] /\ cur'[v] = cur[v] /\ epoll'[v] = epoll[v]
       /\ \A s \in Sock : s # m => rx'[s] = rx[s] /\ (s \in epoll'[w] => s \in epoll[w])
  BY <1>0, <1>1, <1>2 DEF PlaceType, DataType
<1>16. ~Inside(w, m)'  BY <1>15 DEF Inside
<1> QED BY <1>1, <1>2, <1>7, <1>11, <1>12, <1>13, <1>14, <1>15, <1>16, OneReads

\* The other fields: n pieces of m are read, the first of them piece k of frame f.
Takes(m, n, f, k) ==
  /\ n \in 1..Len(rx[m])
  /\ rx' = [rx EXCEPT ![m] = SubSeq(rx[m], n + 1, Len(rx[m]))]
  /\ UNCHANGED <<link, frames, flight>>
  /\ Unread(m)[1] = <<f, k>>
  /\ n <= FrameEnd(frames[m], f) - k + 1

LEMMA FieldTaken ==
  ASSUME DataType, NEW m \in Sock, SentInv(m), link[m] \notin {"away", "new"},
         NEW n, NEW f, NEW k, Takes(m, n, f, k)
  PROVE  /\ SentInv(m)' /\ rx' \in [Sock -> Seq(Piece)] /\ f \in 0..Len(frames[m])
         /\ n <= FrameEnd(frames[m], f) - k =>
              /\ Unread(m)' # <<>> => Unread(m)'[1] = <<f, k + n>>
              /\ link[m] = "open" => Unread(m)' # <<>>
         /\ n = FrameEnd(frames[m], f) - k + 1 =>
              /\ Unread(m)' # <<>> => Unread(m)'[1] = <<f + 1, 1>>
              /\ link[m] = "open" /\ Unread(m)' = <<>> => f = Len(frames[m])
<1> PICK fr, u, t : fr = frames[m] /\ u = Unread(m) /\ t = Unread(m)'  OBVIOUS
<1> USE DEF Takes
<1>1. Took(u, n, t) /\ n \in 1..Len(u) /\ u # <<>> /\ rx' \in [Sock -> Seq(Piece)]
  BY ReadTakes
<1>2. /\ fr \in Frames /\ u \in Seq(Piece) /\ IsStream(fr, u) /\ u[1] = <<f, k>>
      /\ (link[m] = "open" => Complete(fr, u))
  BY UnreadType DEF SentInv
<1>3. n <= FrameEnd(fr, f) - k + 1  OBVIOUS
<1>4. /\ IsStream(fr, t) /\ f \in 0..Len(fr)
      /\ Complete(fr, u) => Complete(fr, t)
      /\ n <= FrameEnd(fr, f) - k =>
           /\ t # <<>> => t[1] = <<f, k + n>>
           /\ Complete(fr, u) => t # <<>>
      /\ n = FrameEnd(fr, f) - k + 1 =>
           /\ t # <<>> => t[1] = <<f + 1, 1>>
           /\ Complete(fr, u) /\ t = <<>> => f = Len(fr)
  BY <1>1, <1>2, <1>3, ReadField
<1>5. SentInv(m)'  BY <1>2, <1>4 DEF SentInv
<1> QED BY <1>1, <1>2, <1>4, <1>5, Zenon

\* What a worker that reads knows of its socket.
LEMMA ReaderKnows ==
  ASSUME ReceiverInv, NEW w \in Workers, at[w] \in Reading
  PROVE  /\ cur[w] \in Sock /\ cur[w] \in epoll[w]
         /\ SentInv(cur[w]) /\ OrderInv(cur[w])
         /\ link[cur[w]] \notin {"away", "new"}
         /\ at[w] = "id" => BetweenInv(cur[w])
         /\ at[w] \in {"size", "body"} => InsideInv(w, cur[w])
<1>1. cur[w] \in epoll[w] /\ epoll[w] \subseteq Sock
  BY DEF ReceiverInv, PlaceInv, PlaceType
<1>2. cur[w] \in Sock  BY <1>1
<1>3. SocketInv(cur[w])  BY <1>2 DEF ReceiverInv
<1>4. ReadInv(w, cur[w])  BY <1>3 DEF SocketInv
<1> QED BY <1>1, <1>2, <1>3, <1>4 DEF SocketInv, ReadInv, Inside

LEMMA IdKeeps ==
  ASSUME ReceiverInv, PlaceInv', NEW w \in Workers, ReceiveId(w)
  PROVE  ReceiverInv'
<1>0. PlaceType /\ DataType  BY DEF ReceiverInv, PlaceInv
<1> PICK m : m = cur[w]  OBVIOUS
<1>1. /\ at[w] = "id" /\ at' = [at EXCEPT ![w] = "size"]
      /\ Len(rx[m]) >= 2 /\ rx' = [rx EXCEPT ![m] = SubSeq(rx[m], 2 + 1, Len(rx[m]))]
      /\ frame' = [frame EXCEPT ![w] = rx[m][1][1]]
      /\ UNCHANGED <<link, frames, flight, backlog, fresh, queue, epoll, cur, made, delivered>>
  BY DEF ReceiveId, WorkerGoes, ReadsAll, Wanted, FieldLen, clientVars, acceptorVars
<1>2. /\ m \in Sock /\ m \in epoll[w] /\ SentInv(m) /\ OrderInv(m)
      /\ link[m] \notin {"away", "new"} /\ BetweenInv(m)
  BY <1>1, ReaderKnows DEF Reading
<1>3. 2 \in 1..Len(rx[m]) /\ 1 \in 1..Len(rx[m])
  BY <1>0, <1>1, <1>2, LenProperties DEF DataType
<1>4. Unread(m)[1] = rx[m][1] /\ Unread(m) # <<>> /\ 1 \in 1..Len(Unread(m))
  <2>1. Unread(m)[1] = rx[m][1] /\ Unread(m) # <<>>  BY <1>0, <1>1, <1>2, <1>3, ReadTakes
  <2>2. Unread(m) \in Seq(Piece)  BY <1>0, <1>2, UnreadType
  <2> QED BY <2>1, <2>2, EmptySeq
<1> PICK f : f = rx[m][1][1]  OBVIOUS
<1>5. f > 0 /\ Unread(m)[1] = <<f, 1>> /\ Reached(m, f) /\ f \in 1..Len(frames[m])
  <2>1. f > 0 /\ Unread(m)[1][1] = f /\ Unread(m)[1][2] = 1 /\ Reached(m, f)
    BY <1>2, <1>4 DEF BetweenInv
  <2>2. Unread(m)[1] \in Piece
    BY <1>0, <1>2, <1>4, UnreadType, ElementOfSeq
  <2>3. f \in 0..Len(frames[m])  BY <1>2, <1>4, <2>1 DEF SentInv, IsStream
  <2>4. Unread(m)[1] = <<f, 1>>  BY <2>1, <2>2 DEF Piece
  <2>5. frames[m] \in Frames  BY <1>0, <1>2, UnreadType
  <2>6. Len(frames[m]) \in Nat  BY <2>5, LenProperties DEF Frames
  <2>7. f \in 1..Len(frames[m])  BY <2>1, <2>3, <2>6
  <2> QED BY <2>1, <2>4, <2>7
<1>6. FrameEnd(frames[m], f) \in Nat /\ FrameEnd(frames[m], f) >= 4
  <2>1. frames[m] \in Frames  BY <1>0, <1>2, UnreadType
  <2>2. f \in 0..Len(frames[m]) /\ f > 0  BY <1>5
  <2>3. frames[m][f].size \in Nat /\ FrameEnd(frames[m], f) = 4 + frames[m][f].size
    BY <2>1, <2>2, FrameEndType
  <2> QED BY <2>3
<1>7. /\ SentInv(m)' /\ rx' \in [Sock -> Seq(Piece)]
      /\ Unread(m)' # <<>> => Unread(m)'[1] = <<f, 3>>
      /\ link[m] = "open" => Unread(m)' # <<>>
  <2>1. 2 <= FrameEnd(frames[m], f) - 1 /\ 2 <= FrameEnd(frames[m], f) - 1 + 1 /\ 1 + 2 = 3
    BY <1>6
  <2>2. Takes(m, 2, f, 1)  BY <1>1, <1>3, <1>5, <2>1 DEF Takes
  <2> QED BY <1>0, <1>2, <2>1, <2>2, FieldTaken
<1>8. /\ frame' \in [Workers -> Nat] /\ frame'[w] = f
      /\ \A v \in Workers : v # w => frame'[v] = frame[v]
  BY <1>0, <1>1, <1>5 DEF DataType
<1>9. DataType'  BY <1>0, <1>1, <1>7, <1>8 DEF DataType
<1>10. OrderInv(m)'  BY <1>1, <1>2, OrderKept
<1>11. Given(m, Len(delivered[m]))' = Messages(m, f - 1)'
  BY <1>1, <1>5 DEF Reached, Given, Messages
<1>12. at'[w] = "size" /\ \A v \in Workers : v # w => at'[v] = at[v]
  BY <1>0, <1>1 DEF PlaceType
<1>13. InsideInv(w, m)'
  BY <1>1, <1>5, <1>7, <1>8, <1>11, <1>12 DEF InsideInv, Reached
<1>14. Inside(w, m)'  BY <1>1, <1>12 DEF Inside
<1>15. \A s \in Sock : s # m => rx'[s] = rx[s]
  BY <1>0, <1>1, <1>2 DEF DataType
<1> QED
  BY <1>1, <1>2, <1>7, <1>8, <1>9, <1>10, <1>12, <1>13, <1>14, <1>15, OneReads

LEMMA MessagesStep ==
  ASSUME NEW s, NEW f \in Nat \ {0}
  PROVE  Messages(s, f) = IF frames[s][f].size > 0 THEN Messages(s, f - 1) \cup {f}
                          ELSE Messages(s, f - 1)
<1>1. 1..f = (1..(f - 1)) \cup {f}  OBVIOUS
<1> QED BY <1>1 DEF Messages

\* More actions do no harm to what was delivered.
LEMMA MadeMore ==
  ASSUME NEW s \in Sock, OrderInv(s), frames'[s] = frames[s], delivered'[s] = delivered[s],
         IsInjective(made'[s]), Range(made[s]) \subseteq Range(made'[s])
  PROVE  OrderInv(s)'
<1>1. \A n : Given(s, n)' = Given(s, n) /\ Messages(s, n)' = Messages(s, n)
  BY DEF Given, Messages
<1>2. \A i, d : InOrderAt(s, i, d) => InOrderAt(s, i, d)'
  BY <1>1 DEF InOrderAt
<1> QED BY <1>2 DEF OrderInv

\* At the end of frame f.
LEMMA FrameDone ==
  ASSUME NEW m \in Sock, NEW f \in Nat \ {0},
         Given(m, Len(delivered[m]))' = Messages(m, f)',
         Unread(m)' # <<>> => Unread(m)'[1] = <<f + 1, 1>>,
         link'[m] = "open" /\ Unread(m)' = <<>> => f = Len(frames'[m])
  PROVE  BetweenInv(m)'
<1>1. \A g : g = f + 1 => Given(m, Len(delivered[m]))' = Messages(m, g - 1)'
  <2>1. (f + 1) - 1 = f  OBVIOUS
  <2> QED BY <2>1
<1>2. Unread(m)' # <<>> =>
        Unread(m)'[1][1] = f + 1 /\ f + 1 > 0 /\ Unread(m)'[1][2] = 1
  OBVIOUS
<1> QED BY <1>1, <1>2 DEF BetweenInv, Reached

\* The size, and with it the action of a connection.
LEMMA SizeKeeps ==
  ASSUME ReceiverInv, PlaceInv', NEW w \in Workers, ReceiveSize(w)
  PROVE  ReceiverInv'
<1>0. PlaceType /\ DataType  BY DEF ReceiverInv, PlaceInv
<1> PICK m, f : m = cur[w] /\ f = frame[w]  OBVIOUS
<1> PICK id, z : id = frames[m][f].id /\ z = frames[m][f].size  OBVIOUS
<1>1. /\ at[w] = "size" /\ at' = [at EXCEPT ![w] = IF z > 0 THEN "body" ELSE "wait"]
      /\ Len(rx[m]) >= 2 /\ rx' = [rx EXCEPT ![m] = SubSeq(rx[m], 2 + 1, Len(rx[m]))]
      /\ made' = IF id \in Range(made[m]) THEN made
                 ELSE [made EXCEPT ![m] = Append(made[m], id)]
      /\ UNCHANGED <<link, frames, flight, backlog, fresh, queue, epoll, cur, frame, delivered>>
  BY DEF ReceiveSize, WorkerGoes, ReadsAll, Wanted, FieldLen, HasPayload, Known, Id, Size,
     clientVars, acceptorVars
<1>2. /\ m \in Sock /\ m \in epoll[w] /\ SentInv(m) /\ OrderInv(m)
      /\ link[m] \notin {"away", "new"} /\ InsideInv(w, m)
  BY <1>1, ReaderKnows DEF Reading
<1>3. 2 \in 1..Len(rx[m]) /\ rx[m] # <<>>
  <2>1. rx[m] \in Seq(Piece) /\ Len(rx[m]) \in Nat  BY <1>0, <1>2, LenProperties DEF DataType
  <2> QED BY <1>1, <2>1, EmptySeq
<1>4. /\ f \in 1..Len(frames[m]) /\ Reached(m, f)
      /\ Unread(m)[1] = <<f, 3>>
  <2>1. Unread(m) # <<>>  BY <1>0, <1>2, <1>3, UnreadType
  <2> QED BY <1>1, <1>2, <2>1 DEF InsideInv
<1>5. /\ f \in Nat \ {0} /\ id \in Ids /\ z \in Nat /\ FrameEnd(frames[m], f) = 4 + z
  <2>1. frames[m] \in Frames  BY <1>0, <1>2, UnreadType
  <2>2. Len(frames[m]) \in Nat  BY <2>1, LenProperties DEF Frames
  <2>3. f \in 0..Len(frames[m]) /\ f > 0 /\ f \in Nat \ {0}  BY <1>4, <2>2
  <2>4. z \in Nat /\ FrameEnd(frames[m], f) = 4 + z  BY <2>1, <2>3, FrameEndType
  <2>5. frames[m][f] \in [id : Ids, size : Sizes]  BY <1>4, <2>1, ElementOfSeq DEF Frames
  <2> QED BY <2>3, <2>4, <2>5
<1>6. Takes(m, 2, f, 3)
  <2>1. 2 <= FrameEnd(frames[m], f) - 3 + 1  BY <1>5
  <2> QED BY <1>1, <1>3, <1>4, <2>1 DEF Takes
<1>7. /\ SentInv(m)' /\ rx' \in [Sock -> Seq(Piece)]
      /\ z > 0 => /\ Unread(m)' # <<>> => Unread(m)'[1] = <<f, 5>>
                  /\ link[m] = "open" => Unread(m)' # <<>>
      /\ z = 0 => /\ Unread(m)' # <<>> => Unread(m)'[1] = <<f + 1, 1>>
                  /\ link[m] = "open" /\ Unread(m)' = <<>> => f = Len(frames[m])
  <2>1. /\ z > 0 => 2 <= FrameEnd(frames[m], f) - 3
        /\ z = 0 => 2 = FrameEnd(frames[m], f) - 3 + 1
        /\ 3 + 2 = 5
    BY <1>5
  <2> QED BY <1>0, <1>2, <1>6, <2>1, FieldTaken
<1>8. /\ made' \in [Sock -> Seq(Ids)] /\ IsInjective(made'[m])
      /\ Range(made[m]) \subseteq Range(made'[m]) /\ id \in Range(made'[m])
      /\ \A s \in Sock : s # m => made'[s] = made[s]
  <2>1. made \in [Sock -> Seq(Ids)] /\ IsInjective(made[m])
    BY <1>0, <1>2 DEF DataType, OrderInv
  <2>2. CASE id \in Range(made[m])  BY <1>1, <2>1, <2>2
  <2>3. CASE id \notin Range(made[m])
    <3> PICK q : q = Append(made[m], id)  OBVIOUS
    <3>1. made[m] \in Seq(Ids)  BY <1>2, <2>1
    <3>2. q \in Seq(Ids) /\ IsInjective(q) /\ Range(q) = Range(made[m]) \cup {id}
      BY <1>5, <2>1, <2>3, <3>1, AppendRange
    <3>3. made' = [made EXCEPT ![m] = q]  BY <1>1, <2>3
    <3> QED BY <1>2, <2>1, <3>2, <3>3
  <2> QED BY <2>2, <2>3
<1>9. DataType'  BY <1>0, <1>1, <1>7, <1>8 DEF DataType
<1>10. OrderInv(m)'  BY <1>1, <1>2, <1>8, MadeMore
<1>11. Given(m, Len(delivered[m]))' = Messages(m, f - 1)'
  BY <1>1, <1>4 DEF Reached, Given, Messages
<1>12. /\ at'[w] = (IF z > 0 THEN "body" ELSE "wait")
       /\ \A v \in Workers : v # w => at'[v] = at[v]
  BY <1>0, <1>1 DEF PlaceType
<1>13. /\ m = cur[w] /\ m \in epoll'[w] /\ at'[w] # "sid" /\ cur'[w] \in {m, NoSock}
       /\ UNCHANGED <<link, frames, flight, backlog, fresh, queue>>
       /\ \A s \in Sock : s # m =>
            /\ rx'[s] = rx[s] /\ made'[s] = made[s] /\ delivered'[s] = delivered[s]
            /\ s \in epoll'[w] => s \in epoll[w]
       /\ \A v \in Workers : v # w =>
            at'[v] = at[v] /\ cur'[v] = cur[v] /\ frame'[v] = frame[v] /\ epoll'[v] = epoll[v]
  <2>1. \A s \in Sock : s # m => rx'[s] = rx[s]  BY <1>0, <1>1, <1>2 DEF DataType
  <2>2. UNCHANGED <<link, frames, flight, backlog, fresh, queue, epoll, cur, frame, delivered>>
    BY <1>1
  <2> QED BY <1>2, <1>8, <1>12, <2>1, <2>2
<1>14. /\ link[m] \notin {"away", "new"} /\ SentInv(m)' /\ OrderInv(m)' /\ DataType'
  BY <1>2, <1>7, <1>9, <1>10
<1>15. CASE z > 0
  <2>1. InsideInv(w, m)'
    <3>1. /\ frame'[w] = f /\ at'[w] = "body" /\ f \in 1..Len(frames'[m])
          /\ frames'[m][f].size > 0 /\ frames'[m][f].id \in Range(made'[m])
      BY <1>1, <1>4, <1>8, <1>12, <1>15
    <3>2. /\ link'[m] = "open" => Unread(m)' # <<>>
          /\ Unread(m)' # <<>> => Unread(m)'[1] = <<f, 5>>
      BY <1>1, <1>7, <1>15
    <3>3. \A g : g = f => Given(m, Len(delivered[m]))' = Messages(m, g - 1)'  BY <1>11
    <3> QED BY <3>1, <3>2, <3>3 DEF InsideInv, Reached
  <2>2. Inside(w, m)'  BY <1>1, <1>12, <1>15 DEF Inside
  <2> QED BY <1>2, <1>13, <1>14, <2>1, <2>2, OneReads
<1>16. CASE ~(z > 0)
  <2>1. z = 0  BY <1>5, <1>16
  <2>2. Messages(m, f) = Messages(m, f - 1)  BY <1>5, <1>16, MessagesStep
  <2>3. Messages(m, f)' = Messages(m, f) /\ Messages(m, f - 1)' = Messages(m, f - 1)
    BY <1>1 DEF Messages
  <2>4. BetweenInv(m)'
    BY <1>1, <1>2, <1>5, <1>7, <1>11, <2>1, <2>2, <2>3, FrameDone
  <2>5. ~Inside(w, m)'  BY <1>12, <1>16 DEF Inside
  <2> QED BY <1>2, <1>13, <1>14, <2>4, <2>5, OneReads
<1> QED BY <1>15, <1>16

LEMMA OneGiven ==
  ASSUME DataType, NEW s \in Sock, NEW d, delivered'[s] = Append(delivered[s], d)
  PROVE  /\ Len(delivered[s]) \in Nat /\ Len(delivered'[s]) = Len(delivered[s]) + 1
         /\ delivered'[s][Len(delivered[s]) + 1] = d
         /\ \A i \in 1..Len(delivered[s]) : delivered'[s][i] = delivered[s][i]
         /\ \A n \in 0..Len(delivered[s]) : Given(s, n)' = Given(s, n)
         /\ Given(s, Len(delivered[s]))' = Given(s, Len(delivered[s])) \cup {d.frame}
<1> PICK q, n : q = delivered[s] /\ n = Len(q)  OBVIOUS
<1>1. q \in Seq([id : Ids, frame : Nat]) /\ n \in Nat  BY LenProperties DEF DataType
<1>2. /\ Len(delivered'[s]) = n + 1 /\ delivered'[s][n + 1] = d
      /\ \A i \in 1..n : delivered'[s][i] = q[i]
  BY <1>1
<1>3. \A k \in 0..n : Given(s, k)' = Given(s, k)
  <2>1. \A k \in 0..n : \A i \in 1..k : i \in 1..n  BY <1>1
  <2> QED BY <1>2, <2>1 DEF Given
<1>4. Given(s, Len(delivered[s]))' = Given(s, n) \cup {d.frame}
  <2>1. 1..(n + 1) = (1..n) \cup {n + 1}  BY <1>1
  <2> QED BY <1>2, <2>1 DEF Given
<1> QED BY <1>1, <1>2, <1>3, <1>4

\* The payload.
LEMMA BodyKeeps ==
  ASSUME ReceiverInv, PlaceInv', NEW w \in Workers, ReceiveBody(w)
  PROVE  ReceiverInv'
<1>0. PlaceType /\ DataType  BY DEF ReceiverInv, PlaceInv
<1> PICK m, f : m = cur[w] /\ f = frame[w]  OBVIOUS
<1> PICK id, z : id = frames[m][f].id /\ z = frames[m][f].size  OBVIOUS
<1> PICK d, n : d = [id |-> id, frame |-> f] /\ n = Len(delivered[m])  OBVIOUS
<1>1. /\ at[w] = "body" /\ at' = [at EXCEPT ![w] = "wait"]
      /\ Len(rx[m]) >= z /\ rx' = [rx EXCEPT ![m] = SubSeq(rx[m], z + 1, Len(rx[m]))]
      /\ delivered' = [delivered EXCEPT ![m] = Append(delivered[m], d)]
      /\ UNCHANGED <<link, frames, flight, backlog, fresh, queue, epoll, cur, frame, made>>
  BY DEF ReceiveBody, WorkerGoes, ReadsAll, Wanted, Id, Size, clientVars, acceptorVars
<1>2. /\ m \in Sock /\ m \in epoll[w] /\ SentInv(m) /\ OrderInv(m)
      /\ link[m] \notin {"away", "new"} /\ InsideInv(w, m)
  BY <1>1, ReaderKnows DEF Reading
<1>3. f \in 1..Len(frames[m]) /\ Reached(m, f) /\ z > 0 /\ id \in Range(made[m])
  BY <1>1, <1>2 DEF InsideInv
<1>4. /\ f \in Nat \ {0} /\ id \in Ids /\ z \in Nat /\ FrameEnd(frames[m], f) = 4 + z
  <2>1. frames[m] \in Frames  BY <1>0, <1>2, UnreadType
  <2>2. Len(frames[m]) \in Nat  BY <2>1, LenProperties DEF Frames
  <2>3. f \in 0..Len(frames[m]) /\ f > 0 /\ f \in Nat \ {0}  BY <1>3, <2>2
  <2>4. z \in Nat /\ FrameEnd(frames[m], f) = 4 + z  BY <2>1, <2>3, FrameEndType
  <2>5. frames[m][f] \in [id : Ids, size : Sizes]  BY <1>3, <2>1, ElementOfSeq DEF Frames
  <2> QED BY <2>3, <2>4, <2>5
<1>5. z \in 1..Len(rx[m]) /\ rx[m] # <<>>
  <2>1. rx[m] \in Seq(Piece) /\ Len(rx[m]) \in Nat  BY <1>0, <1>2, LenProperties DEF DataType
  <2> QED BY <1>1, <1>3, <1>4, <2>1, EmptySeq
<1>6. Takes(m, z, f, 5)
  <2>1. Unread(m) # <<>>  BY <1>0, <1>2, <1>5, UnreadType
  <2>2. Unread(m)[1] = <<f, 5>>  BY <1>1, <1>2, <2>1 DEF InsideInv
  <2>3. z <= FrameEnd(frames[m], f) - 5 + 1  BY <1>4
  <2> QED BY <1>1, <1>5, <2>2, <2>3 DEF Takes
<1>7. /\ SentInv(m)' /\ rx' \in [Sock -> Seq(Piece)]
      /\ Unread(m)' # <<>> => Unread(m)'[1] = <<f + 1, 1>>
      /\ link[m] = "open" /\ Unread(m)' = <<>> => f = Len(frames[m])
  <2>1. z = FrameEnd(frames[m], f) - 5 + 1  BY <1>4
  <2> QED BY <1>0, <1>2, <1>6, <2>1, FieldTaken
<1>8. /\ delivered' \in [Sock -> Seq([id : Ids, frame : Nat])]
      /\ delivered'[m] = Append(delivered[m], d)
      /\ \A s \in Sock : s # m => delivered'[s] = delivered[s]
  <2>1. d \in [id : Ids, frame : Nat]  BY <1>4
  <2>2. delivered \in [Sock -> Seq([id : Ids, frame : Nat])]  BY <1>0 DEF DataType
  <2>3. Append(delivered[m], d) \in Seq([id : Ids, frame : Nat])
    BY <1>2, <2>1, <2>2, AppendProperties
  <2> QED BY <1>1, <1>2, <2>2, <2>3
<1>9. DataType'  BY <1>0, <1>1, <1>7, <1>8 DEF DataType
<1>10. /\ n \in Nat /\ Len(delivered'[m]) = n + 1 /\ delivered'[m][n + 1] = d
       /\ \A i \in 1..n : delivered'[m][i] = delivered[m][i]
       /\ \A k \in 0..n : Given(m, k)' = Given(m, k)
       /\ Given(m, Len(delivered[m]))' = Given(m, n) \cup {f}
  <2>1. /\ Len(delivered[m]) \in Nat /\ Len(delivered'[m]) = Len(delivered[m]) + 1
        /\ delivered'[m][Len(delivered[m]) + 1] = d
        /\ \A i \in 1..Len(delivered[m]) : delivered'[m][i] = delivered[m][i]
        /\ \A k \in 0..Len(delivered[m]) : Given(m, k)' = Given(m, k)
        /\ Given(m, Len(delivered[m]))' = Given(m, Len(delivered[m])) \cup {d.frame}
    <3>1. DataType /\ m \in Sock /\ delivered'[m] = Append(delivered[m], d)
      BY <1>0, <1>2, <1>8
    <3> QED BY <3>1, OneGiven
  <2>2. d.frame = f /\ n = Len(delivered[m])  OBVIOUS
  <2> QED BY <2>1, <2>2
<1>11. \A k : Messages(m, k)' = Messages(m, k)  BY <1>1 DEF Messages
<1>12. Given(m, n) = Messages(m, f - 1)  BY <1>3 DEF Reached
<1>13. OrderInv(m)'
  <2>1. IsInjective(made'[m])  BY <1>1, <1>2 DEF OrderInv
  <2>2. ASSUME NEW i \in 1..(n + 1), NEW e, e = delivered'[m][i]
        PROVE  /\ e.frame \in Messages(m, Len(frames[m]))
               /\ e.id = frames[m][e.frame].id /\ e.id \in Range(made[m])
               /\ Given(m, i - 1) = Messages(m, e.frame - 1)
               /\ i - 1 \in 0..n
    <3>1. CASE i = n + 1
      <4>1. e = d /\ i - 1 = n /\ n \in 0..n  BY <1>10, <2>2, <3>1
      <4>2. f \in Messages(m, Len(frames[m]))  BY <1>3 DEF Messages
      <4> QED BY <1>3, <1>12, <4>1, <4>2
    <3>2. CASE i # n + 1
      <4>1. i \in 1..n /\ i - 1 \in 0..n  BY <1>10, <3>2
      <4>2. e = delivered[m][i]  BY <1>10, <2>2, <4>1
      <4>3. InOrderAt(m, i, e)  BY <1>2, <4>1, <4>2 DEF OrderInv
      <4> QED BY <4>1, <4>3 DEF InOrderAt
    <3> QED BY <3>1, <3>2
  <2>3. ASSUME NEW i \in 1..Len(delivered'[m]) PROVE InOrderAt(m, i, delivered[m][i])'
    <3> PICK e : e = delivered'[m][i]  OBVIOUS
    <3>1. i \in 1..(n + 1)  BY <1>10
    <3>2. /\ e.frame \in Messages(m, Len(frames[m]))
          /\ e.id = frames[m][e.frame].id /\ e.id \in Range(made[m])
          /\ Given(m, i - 1) = Messages(m, e.frame - 1)
          /\ i - 1 \in 0..n
      BY <2>2, <3>1
    <3>3. Given(m, i - 1)' = Messages(m, e.frame - 1)'  BY <1>10, <1>11, <3>2
    <3>4. made' = made /\ frames' = frames  BY <1>1
    <3> QED BY <1>11, <3>2, <3>3, <3>4 DEF InOrderAt
  <2> QED BY <2>1, <2>3 DEF OrderInv
<1>14. BetweenInv(m)'
  <2>1. Messages(m, f) = Messages(m, f - 1) \cup {f}  BY <1>3, <1>4, MessagesStep
  <2>2. Given(m, Len(delivered[m]))' = Messages(m, f)'  BY <1>10, <1>11, <1>12, <2>1
  <2>3. link' = link /\ frames' = frames  BY <1>1
  <2> QED BY <1>2, <1>4, <1>7, <2>2, <2>3, FrameDone
<1>15. at'[w] = "wait" /\ \A v \in Workers : v # w => at'[v] = at[v]
  BY <1>0, <1>1 DEF PlaceType
<1>16. ~Inside(w, m)'  BY <1>15 DEF Inside
<1>17. /\ m = cur[w] /\ m \in epoll'[w] /\ at'[w] # "sid" /\ cur'[w] \in {m, NoSock}
       /\ UNCHANGED <<link, frames, flight, backlog, fresh, queue>>
       /\ \A s \in Sock : s # m =>
            /\ rx'[s] = rx[s] /\ made'[s] = made[s] /\ delivered'[s] = delivered[s]
            /\ s \in epoll'[w] => s \in epoll[w]
       /\ \A v \in Workers : v # w =>
            at'[v] = at[v] /\ cur'[v] = cur[v] /\ frame'[v] = frame[v] /\ epoll'[v] = epoll[v]
  <2>1. \A s \in Sock : s # m => rx'[s] = rx[s]  BY <1>0, <1>1, <1>2 DEF DataType
  <2>2. UNCHANGED <<link, frames, flight, backlog, fresh, queue, epoll, cur, frame, made>>
    BY <1>1
  <2> QED BY <1>2, <1>8, <1>15, <2>1, <2>2
<1>18. link[m] \notin {"away", "new"} /\ SentInv(m)' /\ OrderInv(m)' /\ DataType'
  BY <1>2, <1>7, <1>9, <1>13
<1> QED BY <1>2, <1>14, <1>16, <1>17, <1>18, OneReads

LEMMA WorkerKeeps ==
  ASSUME ReceiverInv, NEW w \in Workers, WorkerStep(w) \/ ReceiveTimeout(w)
  PROVE  ReceiverInv'
<1>0. PlaceInv' /\ PlaceType
  BY PlaceWorker DEF ReceiverInv, PlaceInv
<1>t. /\ at \in [Workers -> Places] /\ cur \in [Workers -> Sock \cup {NoSock}]
      /\ epoll \in [Workers -> SUBSET Sock] /\ queue \in [Workers -> Seq(Sock)]
  BY <1>0 DEF PlaceType
<1> USE DEF WorkerGoes
\* A step of the worker between the receives.
<1>a. ASSUME NEW to \in {"wait", "drain", "id"}, at' = [at EXCEPT ![w] = to],
             at[w] \notin {"size", "body"} \/ cur[w] \notin epoll'[w],
             \A v \in Workers : v # w => cur'[v] = cur[v],
             \A v \in Workers : epoll'[v] \subseteq epoll[v],
             UNCHANGED <<link, frames, flight, rx, readerVars, backlog, fresh, queue>>
      PROVE  ReceiverInv'
  <2>1. at'[w] = to /\ \A v \in Workers : v # w => at'[v] = at[v]  BY <1>a, <1>t
  <2>2. ASSUME NEW s \in Sock, Waiting(s)' PROVE Waiting(s)
    <3>1. PICK k \in Kinds \ {"epoll"}, v \in Workers : Holds(k, v, s)'
      BY <2>2 DEF Waiting
    <3>2. Holds(k, v, s)  BY <1>a, <2>1, <3>1 DEF Holds
    <3> QED BY <3>1, <3>2 DEF Waiting
  <2>3. ASSUME NEW s \in Sock, NEW v \in Workers, s \in epoll'[v]
        PROVE  /\ s \in epoll[v] /\ (Inside(v, s)' <=> Inside(v, s))
               /\ Inside(v, s) => at'[v] = at[v]
    <3>1. CASE v = w  BY <1>a, <2>1, <2>3, <3>1 DEF Inside
    <3>2. CASE v # w  BY <1>a, <2>1, <2>3, <3>2 DEF Inside
    <3> QED BY <3>1, <3>2
  <2> QED BY <1>0, <1>a, <2>2, <2>3, BytesKept
<1>1. CASE WakeForSockets(w) \/ QueueDrained(w)
  <2>1. PICK to \in {"wait", "drain"} : at' = [at EXCEPT ![w] = to]
    BY <1>1 DEF WakeForSockets, QueueDrained
  <2>2. /\ at[w] \notin {"size", "body"}
        /\ UNCHANGED <<link, frames, flight, rx, readerVars, backlog, fresh, queue, cur, epoll>>
    BY <1>1 DEF WakeForSockets, QueueDrained, clientVars, acceptorVars
  <2> QED BY <1>a, <2>1, <2>2
<1>2. CASE Dequeue(w)
  <2>1. /\ queue[w] # <<>> /\ at[w] = "drain" /\ at' = [at EXCEPT ![w] = "sid"]
        /\ cur' = [cur EXCEPT ![w] = Head(queue[w])]
        /\ queue' = [queue EXCEPT ![w] = Tail(queue[w])]
        /\ UNCHANGED <<link, frames, flight, rx, readerVars, backlog, fresh, epoll>>
    BY <1>2 DEF Dequeue, clientVars, acceptorVars
  <2>2. /\ at'[w] = "sid" /\ cur'[w] = Head(queue[w]) /\ queue'[w] = Tail(queue[w])
        /\ \A v \in Workers : v # w => at'[v] = at[v] /\ cur'[v] = cur[v] /\ queue'[v] = queue[v]
    BY <1>t, <2>1
  <2>3. /\ Head(queue[w]) \in Range(queue[w])
        /\ \A s \in Range(Tail(queue[w])) : s \in Range(queue[w])
    <3>1. queue[w] \in Seq(Sock) /\ IsInjective(queue[w])  BY <1>0 DEF PlaceType
    <3> QED BY <2>1, <3>1, TailRange
  <2>4. ASSUME NEW s \in Sock, Waiting(s)' PROVE Waiting(s)
    <3>1. PICK k \in Kinds \ {"epoll"}, v \in Workers : Holds(k, v, s)'
      BY <2>4 DEF Waiting
    <3>2. Holds(k, v, s) \/ Holds("queue", w, s)
      <4>1. CASE v = w  BY <2>1, <2>2, <2>3, <3>1, <4>1 DEF Holds
      <4>2. CASE v # w  BY <2>1, <2>2, <3>1, <4>2 DEF Holds
      <4> QED BY <4>1, <4>2
    <3>3. "queue" \in Kinds \ {"epoll"}  BY DEF Kinds
    <3> QED BY <3>1, <3>2, <3>3 DEF Waiting
  <2>5. ASSUME NEW s \in Sock, NEW v \in Workers, s \in epoll'[v]
        PROVE  /\ s \in epoll[v] /\ (Inside(v, s)' <=> Inside(v, s))
               /\ Inside(v, s) => at'[v] = at[v]
    <3>1. CASE v = w  BY <2>1, <2>2, <2>5, <3>1 DEF Inside
    <3>2. CASE v # w  BY <2>1, <2>2, <2>5, <3>2 DEF Inside
    <3> QED BY <3>1, <3>2
  <2> QED BY <1>0, <2>1, <2>4, <2>5, BytesKept
<1>3. CASE SidBroken(w)
  <2>1. /\ at[w] = "sid" /\ at' = [at EXCEPT ![w] = "wait"]
        /\ cur' = [cur EXCEPT ![w] = NoSock]
        /\ UNCHANGED <<link, frames, flight, rx, readerVars, backlog, fresh, queue, epoll>>
    BY <1>3 DEF SidBroken, clientVars, acceptorVars
  <2>2. \A v \in Workers : v # w => cur'[v] = cur[v]  BY <1>t, <2>1
  <2> QED BY <1>a, <2>1, <2>2
<1>4. CASE SidFails(w) \/ ReceiveCut(w) \/ ReceiveTimeout(w)
  <2>1. UNCHANGED <<link, frames, flight, rx, readerVars, backlog, fresh, queue, at, cur, epoll>>
    BY <1>4 DEF SidFails, ReceiveCut, ReceiveTimeout, Terminate, clientVars, acceptorVars, workerVars
  <2>2. \A s \in Sock : Waiting(s)' => Waiting(s)  BY <2>1 DEF Waiting, Holds
  <2>3. \A s \in Sock, v \in Workers : s \in epoll'[v] =>
          /\ s \in epoll[v] /\ (Inside(v, s)' <=> Inside(v, s))
          /\ Inside(v, s) => at'[v] = at[v]
    BY <2>1 DEF Inside
  <2> QED BY <1>0, <2>1, <2>2, <2>3, BytesKept
<1>5. CASE ReceiveBroken(w)
  <2>1. /\ at' = [at EXCEPT ![w] = "wait"]
        /\ epoll' = [epoll EXCEPT ![w] = epoll[w] \ {cur[w]}]
        /\ UNCHANGED <<link, frames, flight, rx, readerVars, backlog, fresh, queue, cur>>
    BY <1>5 DEF ReceiveBroken, StateGone, clientVars, acceptorVars
  <2>2. cur[w] \notin epoll'[w] /\ \A v \in Workers : epoll'[v] \subseteq epoll[v]
    BY <1>t, <2>1
  <2> QED BY <1>a, <2>1, <2>2
<1>6. ASSUME NEW s \in Sock, HangUp(w, s) PROVE ReceiverInv'
  <2>1. /\ at[w] = "wait" /\ epoll' = [epoll EXCEPT ![w] = epoll[w] \ {s}]
        /\ UNCHANGED <<link, frames, flight, rx, readerVars, backlog, fresh, queue, at, cur>>
    BY <1>6 DEF HangUp, StateGone, clientVars, acceptorVars
  <2>2. \A v \in Workers : epoll'[v] \subseteq epoll[v]  BY <1>t, <2>1
  <2>3. at' = [at EXCEPT ![w] = "wait"]  BY <1>t, <2>1
  <2> QED BY <1>a, <2>1, <2>2, <2>3
<1>7. ASSUME NEW s \in Sock, WakeForFrame(w, s) PROVE ReceiverInv'
  <2>1. /\ at[w] = "wait" /\ at' = [at EXCEPT ![w] = "id"]
        /\ cur' = [cur EXCEPT ![w] = s]
        /\ UNCHANGED <<link, frames, flight, rx, readerVars, backlog, fresh, queue, epoll>>
    BY <1>7 DEF WakeForFrame, clientVars, acceptorVars
  <2>2. \A v \in Workers : v # w => cur'[v] = cur[v]  BY <1>t, <2>1
  <2> QED BY <1>a, <2>1, <2>2
<1> QED
  BY <1>0, <1>1, <1>2, <1>3, <1>4, <1>5, <1>6, <1>7, RegisterKeeps, IdKeeps, SizeKeeps,
     BodyKeeps
  DEF WorkerStep

LEMMA ReceiverStep == ReceiverInv /\ [Next]_vars => ReceiverInv'
<1>1. ASSUME ReceiverInv, UNCHANGED vars PROVE ReceiverInv'
  <2>1. UNCHANGED <<link, frames, flight, rx, readerVars, backlog, fresh, queue, at, cur, epoll>>
    BY <1>1 DEF vars, clientVars, acceptorVars, workerVars
  <2>2. PlaceInv'  BY <1>1, PlaceStep DEF ReceiverInv
  <2>3. \A s \in Sock : Waiting(s)' => Waiting(s)  BY <2>1 DEF Waiting, Holds
  <2>4. \A s \in Sock, v \in Workers : s \in epoll'[v] =>
          /\ s \in epoll[v] /\ (Inside(v, s)' <=> Inside(v, s))
          /\ Inside(v, s) => at'[v] = at[v]
    BY <2>1 DEF Inside
  <2> QED BY <1>1, <2>1, <2>2, <2>3, <2>4, BytesKept
<1> QED BY <1>1, ClientsKeep, NetworkKeeps, AcceptorKeeps, WorkerKeeps DEF Next

\* Every variable keeps its type; in particular no worker works on a socket or
\* counts a frame that is none, wherever the bytes are cut
\* (batched_connection_server.cpp 36-75, 92-130).
THEOREM ReceiverTypeCorrect == Spec => []TypeOK
<1>1. ReceiverInv => TypeOK
  BY DEF ReceiverInv, PlaceInv, PlaceType, DataType, Frames, TypeOK
<1> QED BY <1>1, ReceiverInit, ReceiverStep, PTL DEF Spec

\* What receive_action takes for a header is one: outside a frame the next
\* unread piece of a registered socket is the first of a frame
\* (batched_connection_server.cpp 36-75, 97-101).
THEOREM HeadersRead == Spec => []HeaderNext
<1>1. ASSUME ReceiverInv, NEW w \in Workers, NEW s \in epoll[w],
             rx[s] \o flight[s] # <<>>, cur[w] = s => at[w] \notin {"size", "body"}
      PROVE  (rx[s] \o flight[s])[1][1] > 0 /\ (rx[s] \o flight[s])[1][2] = 1
  <2>1. s \in Sock  BY <1>1 DEF ReceiverInv, PlaceInv, PlaceType
  <2>2. ReadInv(w, s)  BY <1>1, <2>1 DEF ReceiverInv, SocketInv
  <2>3. BetweenInv(s)  BY <1>1, <2>2 DEF ReadInv, Inside
  <2> QED BY <1>1, <2>3 DEF BetweenInv, Unread
<1>2. ReceiverInv => HeaderNext  BY <1>1 DEF HeaderNext
<1> QED BY <1>2, ReceiverInit, ReceiverStep, PTL DEF Spec

\* One action per logical connection, made before its first message, and each
\* message of a client is delivered once, in the order in which it was sent, to
\* the action of its connection (batched_connection.hpp 147-148,
\* batched_connection_server.cpp 36-69).
THEOREM DeliveredInOrder == Spec => []InOrder
<1>1. ASSUME ReceiverInv, NEW s \in Sock PROVE OrderInv(s)
  BY <1>1 DEF ReceiverInv, SocketInv
<1>2. ReceiverInv => InOrder
  BY <1>1 DEF InOrder, OrderInv, InOrderAt
<1> QED BY <1>2, ReceiverInit, ReceiverStep, PTL DEF Spec

----------------------------------------------------------------------------
(* The hand-over of an accepted socket to a worker. *)

\* What the argument needs to know of the variables it is about.
HandoffType ==
  /\ acc \in {"accept", "enqueue", "notify"}
  /\ queue \in [Workers -> Seq(Sock \cup {NoSock})]
  /\ event \in [Workers -> Nat] /\ notifier \in [Workers -> BOOLEAN]
  /\ at \in [Workers -> Places]
  /\ fresh \in Sock \cup {NoSock}
  /\ backlog \in Seq(Sock)

HandoffInv == HandoffType /\ NoLostWakeup

\* Nothing else touches what the handoff is made of.
handoffVars == <<acc, fresh, last, backlog, queue, event, notifier, at>>

LEMMA HandoffInit == Init => HandoffInv
<1> SUFFICES ASSUME Init PROVE HandoffInv
  OBVIOUS
<1> USE DEF Init
<1>1. <<>> \in Seq(Sock \cup {NoSock}) /\ <<>> \in Seq(Sock)
  OBVIOUS
<1>2. HandoffType  BY <1>1 DEF HandoffType, Places
<1>3. NoLostWakeup  BY DEF NoLostWakeup
<1> QED BY <1>2, <1>3 DEF HandoffInv

\* A worker that moves between places outside accept_sockets disturbs nothing.
LEMMA HandoffMove ==
  ASSUME HandoffInv, NEW w \in Workers, NEW to \in Places,
         at[w] \notin Draining \/ to \in Draining,
         at' = [at EXCEPT ![w] = to],
         UNCHANGED <<acc, fresh, last, backlog, queue, event, notifier>>
  PROVE  HandoffInv'
<1>1. HandoffType'  BY DEF HandoffInv, HandoffType
<1>2. NoLostWakeup'
  <2> SUFFICES ASSUME NEW v \in Workers,
                      queue'[v] # <<>>, notifier'[v], at'[v] \notin Draining
               PROVE  event'[v] > 0 \/ (acc' = "notify" /\ NextWorker' = v)
    BY DEF NoLostWakeup
  <2>1. at[v] \notin Draining  BY DEF HandoffInv, HandoffType
  <2> QED BY <2>1 DEF HandoffInv, NoLostWakeup, NextWorker
<1> QED BY <1>1, <1>2 DEF HandoffInv

LEMMA HandoffStutter == HandoffInv /\ UNCHANGED handoffVars => HandoffInv'
BY DEF HandoffInv, HandoffType, NoLostWakeup, NextWorker, handoffVars

LEMMA HandoffAcceptor == HandoffInv /\ Acceptor => HandoffInv'
<1> SUFFICES ASSUME HandoffInv, Acceptor PROVE HandoffInv'
  OBVIOUS
<1> USE DEF HandoffInv, HandoffType, workerVars
<1>1. CASE Accept
  <2>1. /\ backlog \in Seq(Sock) /\ backlog # <<>>
        /\ acc' = "enqueue"
        /\ fresh' = Head(backlog) /\ backlog' = Tail(backlog)
        /\ UNCHANGED <<last, queue, event, notifier, at>>
    BY <1>1 DEF Accept
  <2>2. fresh' \in Sock /\ backlog' \in Seq(Sock)  BY <2>1
  <2>3. acc # "notify"  BY <1>1 DEF Accept
  <2>4. HandoffType'  BY <2>1, <2>2
  <2>5. NoLostWakeup'  BY <2>1, <2>3 DEF NoLostWakeup
  <2> QED BY <2>4, <2>5
<1>2. CASE Enqueue
  <2>1. /\ acc' = "notify" /\ fresh' = NoSock
        /\ queue' = [queue EXCEPT ![NextWorker] = Append(@, fresh)]
        /\ UNCHANGED <<last, backlog, event, notifier, at>>
    BY <1>2 DEF Enqueue
  <2>2. queue' \in [Workers -> Seq(Sock \cup {NoSock})]
    <3>1. CASE NextWorker \in Workers
      <4>1. queue[NextWorker] \in Seq(Sock \cup {NoSock})  BY <3>1
      <4>2. Append(queue[NextWorker], fresh) \in Seq(Sock \cup {NoSock})  BY <4>1
      <4> QED BY <4>2, <2>1
    <3>2. CASE NextWorker \notin Workers
      <4>1. queue' = queue  BY <3>2, <2>1
      <4> QED BY <4>1
    <3> QED BY <3>1, <3>2
  <2>3. HandoffType'  BY <2>1, <2>2
  <2>4. NoLostWakeup'
    <3> SUFFICES ASSUME NEW v \in Workers, queue'[v] # <<>>,
                        notifier'[v], at'[v] \notin Draining
                 PROVE  event'[v] > 0 \/ (acc' = "notify" /\ NextWorker' = v)
      BY DEF NoLostWakeup
    <3>1. CASE v = NextWorker  BY <3>1, <2>1 DEF NextWorker
    <3>2. CASE v # NextWorker
      <4>1. queue[v] # <<>>  BY <3>2, <2>1
      <4>2. event[v] > 0  BY <4>1, <1>2, <2>1 DEF NoLostWakeup, Enqueue
      <4> QED BY <4>2, <2>1
    <3> QED BY <3>1, <3>2
  <2> QED BY <2>3, <2>4
<1>3. CASE Notify
  <2>1. /\ acc = "notify" /\ acc' = "accept"
        /\ event' = [event EXCEPT ![NextWorker] =
                       IF notifier[NextWorker] THEN @ + 1 ELSE @]
        /\ UNCHANGED <<backlog, fresh, queue, notifier, at>>
    BY <1>3 DEF Notify, NotifyNext
  <2>2. event' \in [Workers -> Nat]
    <3>1. CASE NextWorker \in Workers
      <4> DEFINE new == IF notifier[NextWorker] THEN event[NextWorker] + 1
                        ELSE event[NextWorker]
      <4>1. event[NextWorker] \in Nat  BY <3>1
      <4>2. new \in Nat  BY <4>1
      <4>3. event' = [event EXCEPT ![NextWorker] = new]  BY <2>1
      <4> HIDE DEF new
      <4>4. \A v \in Workers : event'[v] \in Nat  BY <4>2, <4>3
      <4> QED BY <4>3, <4>4
    <3>2. CASE NextWorker \notin Workers
      <4>1. event' = event  BY <3>2, <2>1
      <4> QED BY <4>1
    <3> QED BY <3>1, <3>2
  <2>3. HandoffType'  BY <2>1, <2>2
  <2>4. NoLostWakeup'
    <3> SUFFICES ASSUME NEW v \in Workers, queue'[v] # <<>>,
                        notifier'[v], at'[v] \notin Draining
                 PROVE  event'[v] > 0
      BY DEF NoLostWakeup
    <3>1. CASE v = NextWorker
      <4>1. notifier[v] /\ event[v] \in Nat  BY <2>1
      <4>2. event'[v] = event[v] + 1  BY <4>1, <3>1, <2>1
      <4> QED BY <4>1, <4>2
    <3>2. CASE v # NextWorker
      <4>1. event[v] > 0  BY <3>2, <2>1 DEF NoLostWakeup
      <4> QED BY <4>1, <3>2, <2>1
    <3> QED BY <3>1, <3>2
  <2> QED BY <2>3, <2>4
<1> QED BY <1>1, <1>2, <1>3 DEF Acceptor

LEMMA HandoffWorker ==
  ASSUME HandoffInv, NEW w \in Workers, WorkerStep(w)
  PROVE  HandoffInv'
<1> USE DEF WorkerGoes, acceptorVars, Places, Draining
<1>1. CASE WakeForSockets(w)
  <2>1. /\ at' = [at EXCEPT ![w] = "drain"]
        /\ event' = [event EXCEPT ![w] = 0]
        /\ UNCHANGED <<acc, fresh, last, backlog, queue, notifier>>
    BY <1>1 DEF WakeForSockets, CountTaken
  <2>2. HandoffType'  BY <2>1 DEF HandoffInv, HandoffType
  <2>3. NoLostWakeup'
    <3> SUFFICES ASSUME NEW v \in Workers, queue'[v] # <<>>,
                        notifier'[v], at'[v] \notin Draining
                 PROVE  event'[v] > 0 \/ (acc' = "notify" /\ NextWorker' = v)
      BY DEF NoLostWakeup
    <3>1. v # w  BY <2>1 DEF HandoffInv, HandoffType
    <3> QED BY <3>1, <2>1 DEF HandoffInv, HandoffType, NoLostWakeup, NextWorker
  <2> QED BY <2>2, <2>3 DEF HandoffInv
<1>2. CASE Dequeue(w)
  <2>1. /\ at[w] = "drain" /\ at' = [at EXCEPT ![w] = "sid"]
        /\ queue[w] # <<>> /\ queue' = [queue EXCEPT ![w] = Tail(@)]
        /\ UNCHANGED <<acc, fresh, last, backlog, event, notifier>>
    BY <1>2 DEF Dequeue
  <2>2. queue' \in [Workers -> Seq(Sock \cup {NoSock})]
    BY <2>1 DEF HandoffInv, HandoffType
  <2>3. HandoffType'  BY <2>1, <2>2 DEF HandoffInv, HandoffType
  <2>4. NoLostWakeup'
    <3> SUFFICES ASSUME NEW v \in Workers, queue'[v] # <<>>,
                        notifier'[v], at'[v] \notin Draining
                 PROVE  event'[v] > 0 \/ (acc' = "notify" /\ NextWorker' = v)
      BY DEF NoLostWakeup
    <3>1. v # w  BY <2>1 DEF HandoffInv, HandoffType
    <3> QED BY <3>1, <2>1 DEF HandoffInv, HandoffType, NoLostWakeup, NextWorker
  <2> QED BY <2>3, <2>4 DEF HandoffInv
<1>3. CASE QueueDrained(w)
  <2>1. /\ at' = [at EXCEPT ![w] = "wait"] /\ queue[w] = <<>>
        /\ UNCHANGED <<acc, fresh, last, backlog, queue, event, notifier>>
    BY <1>3 DEF QueueDrained
  <2>2. HandoffType'  BY <2>1 DEF HandoffInv, HandoffType
  <2>3. NoLostWakeup'
    BY <2>1 DEF HandoffInv, HandoffType, NoLostWakeup, NextWorker
  <2> QED BY <2>2, <2>3 DEF HandoffInv
<1>4. CASE RegisterSocket(w)
  <2>1. /\ at' = [at EXCEPT ![w] = "drain"]
        /\ UNCHANGED <<acc, fresh, last, backlog, queue, event, notifier>>
    BY <1>4 DEF RegisterSocket
  <2> QED BY <2>1, HandoffMove
<1>5. CASE SidBroken(w)
  <2>1. /\ at' = [at EXCEPT ![w] = "wait"]
        /\ notifier' = [notifier EXCEPT ![w] = FALSE]
        /\ UNCHANGED <<acc, fresh, last, backlog, queue, event>>
    BY <1>5 DEF SidBroken, DropNotifier
  <2>2. HandoffType'  BY <2>1 DEF HandoffInv, HandoffType
  <2>3. NoLostWakeup'
    BY <2>1 DEF HandoffInv, HandoffType, NoLostWakeup, NextWorker
  <2> QED BY <2>2, <2>3 DEF HandoffInv
<1>6. CASE SidFails(w) \/ ReceiveCut(w)
  BY <1>6, HandoffStutter DEF SidFails, ReceiveCut, Terminate, workerVars, handoffVars
<1>7. CASE ReceiveId(w)
  <2>1. /\ at[w] = "id" /\ at' = [at EXCEPT ![w] = "size"]
        /\ UNCHANGED <<acc, fresh, last, backlog, queue, event, notifier>>
    BY <1>7 DEF ReceiveId
  <2> QED BY <2>1, HandoffMove
<1>8. CASE ReceiveSize(w)
  <2>1. PICK to \in {"body", "wait"} :
          /\ at[w] = "size" /\ at' = [at EXCEPT ![w] = to]
          /\ UNCHANGED <<acc, fresh, last, backlog, queue, event, notifier>>
    BY <1>8 DEF ReceiveSize
  <2> QED BY <2>1, HandoffMove
<1>9. CASE ReceiveBody(w)
  <2>1. /\ at[w] = "body" /\ at' = [at EXCEPT ![w] = "wait"]
        /\ UNCHANGED <<acc, fresh, last, backlog, queue, event, notifier>>
    BY <1>9 DEF ReceiveBody
  <2> QED BY <2>1, HandoffMove
<1>10. CASE ReceiveBroken(w)
  <2>1. /\ at[w] \in Reading /\ at' = [at EXCEPT ![w] = "wait"]
        /\ UNCHANGED <<acc, fresh, last, backlog, queue, event, notifier>>
    BY <1>10 DEF ReceiveBroken
  <2> QED BY <2>1, HandoffMove DEF Reading
<1>11. CASE \E s \in Sock : HangUp(w, s)
  BY <1>11, HandoffStutter DEF HangUp, handoffVars
<1>12. CASE \E s \in Sock : WakeForFrame(w, s)
  <2>1. /\ at[w] = "wait" /\ at' = [at EXCEPT ![w] = "id"]
        /\ UNCHANGED <<acc, fresh, last, backlog, queue, event, notifier>>
    BY <1>12 DEF WakeForFrame
  <2> QED BY <2>1, HandoffMove
<1> QED
  BY <1>1, <1>2, <1>3, <1>4, <1>5, <1>6, <1>7, <1>8, <1>9, <1>10, <1>11, <1>12
  DEF WorkerStep

LEMMA HandoffStep == HandoffInv /\ [Next]_vars => HandoffInv'
<1> SUFFICES ASSUME HandoffInv, [Next]_vars PROVE HandoffInv'
  OBVIOUS
<1>1. CASE Clients
  <2>1. PICK s \in Sock :
          \/ Connect(s) \/ SendSid(s) \/ Close(s) \/ Reset(s)
          \/ \E id \in Ids, n \in Sizes : SendFrame(s, id, n)
    BY <1>1 DEF Clients
  <2>2. CASE Connect(s)
    <3>1. backlog' = Append(backlog, s)
          /\ UNCHANGED <<acc, fresh, last, queue, event, notifier, at>>
      BY <2>2 DEF Connect, workerVars
    <3>2. backlog' \in Seq(Sock)  BY <3>1 DEF HandoffInv, HandoffType
    <3> QED BY <3>1, <3>2 DEF HandoffInv, HandoffType, NoLostWakeup, NextWorker
  <2>3. CASE ~Connect(s)
    BY <2>1, <2>3, HandoffStutter
    DEF SendSid, Close, Reset, SendFrame, workerVars, acceptorVars, handoffVars
  <2> QED BY <2>2, <2>3
<1>2. CASE Network
  BY <1>2, HandoffStutter DEF Network, Arrive, workerVars, acceptorVars, handoffVars
<1>3. CASE Acceptor
  BY <1>3, HandoffAcceptor
<1>4. CASE \E w \in Workers : WorkerStep(w)
  BY <1>4, HandoffWorker
<1>5. CASE \E w \in Workers : ReceiveTimeout(w)
  BY <1>5, HandoffStutter
  DEF ReceiveTimeout, Terminate, workerVars, acceptorVars, handoffVars
<1>6. CASE UNCHANGED vars
  BY <1>6, HandoffStutter DEF vars, workerVars, acceptorVars, handoffVars
<1> QED BY <1>1, <1>2, <1>3, <1>4, <1>5, <1>6 DEF Next

\* No accepted socket is forgotten in a worker's queue, whatever the order of
\* the acceptor's enqueue and notify and the worker's wait and try_dequeue
\* (batched_connection_server.cpp 104-111, 148-150), as long as the worker has
\* its eventfd.
THEOREM WakeupNeverLost == Spec => []NoLostWakeup
<1>1. HandoffInv => NoLostWakeup  BY DEF HandoffInv
<1> QED BY <1>1, HandoffInit, HandoffStep, PTL DEF Spec
----------------------------------------------------------------------------
(* One worker has a socket, for life.                                      *)

SoleKeeper == \A s \in Sock, v, w \in Workers : Keeps(v, s) /\ Keeps(w, s) => v = w

\* The places of a socket that are a worker's.
LEMMA KeepsPlace ==
  ASSUME PlaceInv, NEW s \in Sock, NEW w \in Workers, Keeps(w, s)
  PROVE  \E k \in {"queue", "sid", "epoll"} : Holds(k, w, s)
<1>1. CASE s \in Range(queue[w])  BY <1>1 DEF Holds
<1>2. CASE s \in epoll[w]  BY <1>2 DEF Holds
<1>3. CASE at[w] \notin {"wait", "drain"} /\ cur[w] = s
  <2>1. at[w] = "sid" \/ at[w] \in Reading
    BY <1>3 DEF PlaceInv, PlaceType, Places, Reading
  <2>2. CASE at[w] = "sid"  BY <1>3, <2>2 DEF Holds
  <2>3. CASE at[w] \in Reading
    <3>1. s \in epoll[w]  BY <1>3, <2>3 DEF PlaceInv, PlaceType
    <3> QED BY <3>1 DEF Holds
  <2> QED BY <2>1, <2>2, <2>3
<1> QED BY <1>1, <1>2, <1>3 DEF Keeps

LEMMA KeepsOnce == PlaceInv => SoleKeeper
<1> SUFFICES ASSUME PlaceInv, NEW s \in Sock, NEW v \in Workers, NEW w \in Workers,
                    Keeps(v, s), Keeps(w, s)
             PROVE  v = w
  BY DEF SoleKeeper
<1>1. PICK k \in {"queue", "sid", "epoll"} : Holds(k, v, s)  BY KeepsPlace
<1>2. PICK l \in {"queue", "sid", "epoll"} : Holds(l, w, s)  BY KeepsPlace
<1>3. k \in Kinds /\ l \in Kinds  BY DEF Kinds
<1> QED BY <1>1, <1>2, <1>3 DEF PlaceInv, HeldOnce

\* A socket the acceptor has in its hand is no worker's.
LEMMA FreshIsFree ==
  ASSUME PlaceInv, NEW s \in Sock, fresh = s, NEW w \in Workers
  PROVE  ~Keeps(w, s)
<1> SUFFICES ASSUME Keeps(w, s) PROVE FALSE
  OBVIOUS
<1>1. PICK k \in {"queue", "sid", "epoll"} : Holds(k, w, s)  BY KeepsPlace
<1>2. 0 \in Workers  BY NextWorkerType DEF PlaceInv, PlaceType
<1>3. Holds("fresh", 0, s)  BY DEF Holds
<1>4. k \in Kinds /\ "fresh" \in Kinds /\ k # "fresh"  BY DEF Kinds
<1> QED BY <1>1, <1>2, <1>3, <1>4 DEF PlaceInv, HeldOnce

\* A worker comes to a socket from the acceptor only.
LEMMA KeptBefore ==
  ASSUME PlaceInv, [Next]_vars, NEW s \in Sock, NEW w \in Workers, Keeps(w, s)'
  PROVE  Keeps(w, s) \/ fresh = s
<1>0. /\ queue \in [Workers -> Seq(Sock)] /\ \A v \in Workers : IsInjective(queue[v])
      /\ at \in [Workers -> Places] /\ cur \in [Workers -> Sock \cup {NoSock}]
      /\ epoll \in [Workers -> SUBSET Sock] /\ last \in Workers
      /\ NoSock \notin Sock
      /\ \A v \in Workers : at[v] \in Reading => cur[v] \in epoll[v]
  BY SockAssumption DEF PlaceInv, PlaceType
<1> DEFINE Done == Keeps(w, s) \/ fresh = s
<1>a. ASSUME queue'[w] = queue[w], epoll'[w] \subseteq epoll[w], cur'[w] = cur[w],
             at[w] \in {"wait", "drain"} => at'[w] \in {"wait", "drain"}
      PROVE  Done
  BY <1>a DEF Keeps
<1>b. ASSUME UNCHANGED <<queue, epoll, cur, at>> PROVE Done
  BY <1>b DEF Keeps
<1>1. CASE Clients \/ Network
  BY <1>1, <1>b DEF Clients, Network, Connect, SendSid, Close, Reset, SendFrame, Arrive,
     acceptorVars, workerVars
<1>2. CASE Acceptor
  <2>1. CASE Accept \/ Notify  BY <1>b, <2>1 DEF Accept, Notify, workerVars
  <2>2. CASE Enqueue
    <3>1. queue' = [queue EXCEPT ![NextWorker] = Append(@, fresh)] /\ UNCHANGED workerVars
          /\ acc = "enqueue"
      BY <2>2 DEF Enqueue
    <3>2. fresh \in Sock  BY <3>1 DEF PlaceInv, PlaceType
    <3>3. queue'[w] = queue[w] \/ queue'[w] = Append(queue[w], fresh)
      BY <1>0, <3>1
    <3>4. CASE queue'[w] = queue[w]  BY <1>a, <3>1, <3>4 DEF workerVars
    <3>5. CASE queue'[w] = Append(queue[w], fresh) /\ s \in Range(queue'[w])
      <4>1. Len(queue[w]) \in Nat /\ DOMAIN queue[w] = 1..Len(queue[w]) /\ queue[w] \in Seq(Sock)
        BY <1>0, LenProperties
      <4>2. /\ DOMAIN queue'[w] = 1..(Len(queue[w]) + 1)
            /\ queue'[w][Len(queue[w]) + 1] = fresh
            /\ \A i \in 1..Len(queue[w]) : queue'[w][i] = queue[w][i]
        <5>1. PICK q, p : q = queue[w] /\ p = queue'[w]  OBVIOUS
        <5>2. q \in Seq(Sock) /\ p = Append(q, fresh)  BY <3>5, <4>1, <5>1
        <5>3. /\ DOMAIN p = 1..(Len(q) + 1) /\ p[Len(q) + 1] = fresh
              /\ \A i \in 1..Len(q) : p[i] = q[i]
          BY ONLY <3>2, <5>2
        <5> QED BY <5>1, <5>3
      <4>3. PICK i \in DOMAIN queue'[w] : queue'[w][i] = s  BY <3>5 DEF Range
      <4>4. CASE i = Len(queue[w]) + 1  BY <4>2, <4>3, <4>4
      <4>5. CASE i # Len(queue[w]) + 1
        <5>1. i \in DOMAIN queue[w] /\ i \in 1..Len(queue[w])  BY <4>1, <4>2, <4>5
        <5>2. queue[w][i] = s  BY <4>2, <4>3, <5>1
        <5>3. s \in Range(queue[w])  BY <5>1, <5>2 DEF Range
        <5> QED BY <5>3 DEF Keeps
      <4> QED BY <4>4, <4>5
    <3>6. CASE s \notin Range(queue'[w])
      BY <3>1, <3>6 DEF Keeps, workerVars
    <3> QED BY <3>3, <3>4, <3>5, <3>6
  <2> QED BY <1>2, <2>1, <2>2 DEF Acceptor
<1>3. ASSUME NEW v \in Workers, WorkerStep(v) \/ ReceiveTimeout(v), v # w PROVE Done
  <2>1. queue'[w] = queue[w] /\ epoll'[w] = epoll[w] /\ cur'[w] = cur[w] /\ at'[w] = at[w]
    BY <1>0, <1>3 DEF WorkerStep, WakeForSockets, Dequeue, QueueDrained, RegisterSocket,
       SidBroken, SidFails, ReceiveId, ReceiveSize, ReceiveBody, ReceiveBroken, ReceiveCut,
       HangUp, WakeForFrame, ReceiveTimeout, Terminate, WorkerGoes, StateGone,
       acceptorVars, workerVars
  <2> QED BY <1>a, <2>1
<1>4. CASE WorkerStep(w) \/ ReceiveTimeout(w)
  <2>1. CASE Dequeue(w)
    <3>1. /\ queue[w] # <<>> /\ queue'[w] = Tail(queue[w]) /\ cur'[w] = Head(queue[w])
          /\ epoll' = epoll
      BY <1>0, <2>1 DEF Dequeue
    <3>2. queue[w] \in Seq(Sock) /\ IsInjective(queue[w])  BY <1>0
    <3>3. /\ Head(queue[w]) \in Range(queue[w])
          /\ \A r \in Range(Tail(queue[w])) : r \in Range(queue[w])
      BY <3>1, <3>2, TailRange
    <3> QED BY <3>1, <3>3 DEF Keeps
  <2>2. CASE RegisterSocket(w)
    <3>1. /\ at[w] = "sid" /\ at'[w] = "drain" /\ queue' = queue
          /\ epoll'[w] = epoll[w] \cup {cur[w]}
      BY <1>0, <2>2 DEF RegisterSocket, WorkerGoes
    <3> QED BY <3>1 DEF Keeps
  <2>3. ASSUME NEW r \in Sock, WakeForFrame(w, r) PROVE Done
    <3>1. r \in epoll[w] /\ cur'[w] = r /\ queue' = queue /\ epoll' = epoll
      BY <1>0, <2>3 DEF WakeForFrame, acceptorVars
    <3> QED BY <3>1 DEF Keeps
  <2>4. CASE \/ WakeForSockets(w) \/ QueueDrained(w) \/ SidFails(w)
             \/ ReceiveCut(w) \/ ReceiveTimeout(w)
    <3>1. /\ UNCHANGED <<queue, epoll, cur>>
          /\ at'[w] = at[w] \/ at'[w] \in {"wait", "drain"}
      BY <1>0, <2>4 DEF WakeForSockets, QueueDrained, SidFails, ReceiveCut, ReceiveTimeout,
         Terminate, WorkerGoes, acceptorVars, workerVars
    <3> QED BY <1>a, <3>1
  <2>5. CASE ReceiveId(w) \/ ReceiveSize(w) \/ ReceiveBody(w)
    <3>1. UNCHANGED <<queue, epoll, cur>> /\ at[w] \in Reading
      BY <2>5 DEF ReceiveId, ReceiveSize, ReceiveBody, WorkerGoes, acceptorVars, Reading
    <3> QED BY <1>a, <3>1 DEF Reading
  <2>6. CASE SidBroken(w)
    <3>1. UNCHANGED <<queue, epoll>> /\ at'[w] = "wait"
      BY <1>0, <2>6 DEF SidBroken, WorkerGoes, acceptorVars
    <3> QED BY <3>1 DEF Keeps
  <2>7. ASSUME NEW r, ReceiveBroken(w) \/ HangUp(w, r) PROVE Done
    <3>1. UNCHANGED <<queue, cur>> /\ epoll'[w] \subseteq epoll[w] /\ at'[w] = "wait"
      BY <1>0, <2>7 DEF ReceiveBroken, HangUp, WorkerGoes, StateGone, acceptorVars
    <3> QED BY <1>a, <3>1
  <2> QED BY <1>4, <2>1, <2>2, <2>3, <2>4, <2>5, <2>6, <2>7 DEF WorkerStep
<1>5. CASE UNCHANGED vars  BY <1>5, <1>b DEF vars, workerVars
<1> QED BY <1>1, <1>2, <1>3, <1>4, <1>5 DEF Next

\* A socket has one worker from its acceptance to its end, which is all that
\* protects a Socket and its actions from being used by two threads, for any
\* number of workers and clients.
THEOREM OneWorkerForLife == Spec => OneWorker
<1> DEFINE A == \A s \in Sock, w \in Workers : Keeps(w, s)' =>
                  /\ Keeps(w, s) \/ fresh = s
                  /\ \A v \in Workers : v # w => ~Keeps(v, s) /\ ~Keeps(v, s)'
<1>1. PlaceInv /\ SoleKeeper /\ SoleKeeper' /\ [Next]_vars => [A]_vars
  <2> SUFFICES ASSUME PlaceInv, SoleKeeper, SoleKeeper', [Next]_vars,
                      NEW s \in Sock, NEW w \in Workers, Keeps(w, s)'
               PROVE  /\ Keeps(w, s) \/ fresh = s
                      /\ \A v \in Workers : v # w => ~Keeps(v, s) /\ ~Keeps(v, s)'
    OBVIOUS
  <2>1. Keeps(w, s) \/ fresh = s  BY KeptBefore
  <2>2. ASSUME NEW v \in Workers, v # w PROVE ~Keeps(v, s)
    BY <2>1, <2>2, FreshIsFree DEF SoleKeeper
  <2>3. ASSUME NEW v \in Workers, v # w PROVE ~Keeps(v, s)'
    BY <2>3 DEF SoleKeeper
  <2> QED BY <2>1, <2>2, <2>3
<1>2. PlaceInv => SoleKeeper  BY KeepsOnce
<1> QED BY <1>1, <1>2, PlaceInit, PlaceStep, PTL DEF Spec, OneWorker
=============================================================================
