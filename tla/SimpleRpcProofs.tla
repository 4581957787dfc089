-------------------------- MODULE SimpleRpcProofs --------------------------
(***************************************************************************)
(* Proofs about SimpleRpc, for every set of connections, every size field  *)
(* and any number of messages: messages reach the user whole and in order, *)
(* a thread that ends has heard them all, and what may end the process.    *)
(*                                                                         *)
(* As long as no sendmsg of a client was cut, what is on its way from it   *)
(* is a stretch of its frames up to the last one's end (IsStream,          *)
(* Complete), and the first byte of it is the one its thread reads next    *)
(* (InPlace).                                                              *)
(***************************************************************************)
EXTENDS SimpleRpc, SequenceTheorems, WellFoundedInduction, TLAPS

Byte == [msg : Nat, at : Nat, size : Nat]
ByteAt(k, i, n) == [msg |-> k, at |-> i, size |-> n]

SimpleTypeOK ==
  /\ limit \in Nat /\ server \in {"up", "terminated"}
  /\ thread \in [Client -> {"none", "size", "payload", "deliver", "ended"}]
  /\ fds \subseteq Client
  /\ valid \in [Client -> BOOLEAN] /\ clean \in [Client -> BOOLEAN]
  /\ size \in [Client -> Nat] /\ got \in [Client -> Seq(Seq(Byte))]
  /\ peer \in [Client -> {"new", "open", "closed", "reset"}]
  /\ sent \in [Client -> Seq(Nat)] /\ short \in [Client -> BOOLEAN]
  /\ wire \in [Client -> Seq(Byte)] /\ replies \in [Client -> Nat]

\* The bytes of the frame of message k, if messages of these sizes are sent.
End(sizes, k) == Hdr + sizes[k]

\* q comes d bytes after p, as far as the end of p's frame and the first byte of
\* the next.
Leads(sizes, p, d, q) ==
  LET room == End(sizes, p.msg) - p.at
  IN /\ d <= room => q.msg = p.msg /\ q.at = p.at + d
     /\ d = room + 1 => q.msg = p.msg + 1 /\ q.at = 1

IsByte(sizes, p) ==
  /\ p.msg \in 1..Len(sizes) /\ p.at \in 1..End(sizes, p.msg)
  /\ p.size = sizes[p.msg]

\* u is a stretch of the frames of messages of these sizes; it goes to the end
\* of the last.
IsStream(sizes, u) == \A i \in 1..Len(u) :
  IsByte(sizes, u[i]) /\ \A j \in i..Len(u) : Leads(sizes, u[i], j - i, u[j])
Complete(sizes, u) ==
  u # <<>> => /\ u[Len(u)].msg = Len(sizes)
              /\ u[Len(u)].at = End(sizes, Len(sizes))

\* The next byte is the first of the frame of message k.
Begins(sizes, u, k) ==
  IF u = <<>> THEN Len(sizes) + 1 = k ELSE u[1].msg = k /\ u[1].at = 1

\* Where a thread is in its client's stream, when the user has heard k messages.
InPlace(c, k) ==
  /\ thread[c] = "none" => k = 0
  /\ thread[c] \in {"none", "size", "deliver"} => Begins(sent[c], wire[c], k + 1)
  /\ thread[c] = "payload" =>
       /\ k + 1 <= Len(sent[c]) /\ size[c] = sent[c][k + 1]
       /\ size[c] > 0 => /\ wire[c] # <<>>
                         /\ wire[c][1].msg = k + 1 /\ wire[c][1].at = Hdr + 1
  /\ thread[c] = "ended" =>
       \/ k + 1 <= Len(sent[c]) /\ sent[c][k + 1] = 0
       \/ k = Len(sent[c]) /\ Ended(c)

\* The user has heard the first messages, none of size 0, and whole.
Heard(c) ==
  /\ Len(got[c]) <= Len(sent[c])
  /\ \A k \in 1..Len(got[c]) : sent[c][k] > 0 /\ got[c][k] = Whole(c, k)

StreamInv(c) == ~short[c] =>
  /\ IsStream(sent[c], wire[c]) /\ Complete(sent[c], wire[c])
  /\ InPlace(c, Len(got[c])) /\ Heard(c)

\* An open descriptor for every connection that was ever accepted; a socket that
\* is not valid, while its thread uses it, was reset.
SocketsInv ==
  /\ fds = {c \in Client : thread[c] # "none"}
  /\ \A c \in Client :
       thread[c] \in {"size", "payload", "deliver"} /\ ~valid[c] => peer[c] = "reset"

RpcInv ==
  /\ SimpleTypeOK /\ SocketsInv /\ TerminatesOnlyIf
  /\ \A c \in Client : StreamInv(c)

----------------------------------------------------------------------------
(* The bytes of one client.                                                *)

LEMMA EndType ==
  ASSUME NEW sizes \in Seq(Nat), NEW k \in 1..Len(sizes)
  PROVE  /\ sizes[k] \in Nat /\ End(sizes, k) = Hdr + sizes[k]
         /\ End(sizes, k) \in Nat /\ Hdr \in Nat /\ Hdr > 0
         /\ (Hdr + 1) + sizes[k] = End(sizes, k) + 1
<1>1. sizes[k] \in Nat  BY ElementOfSeq
<1>2. \A h, n \in Nat : h + n \in Nat /\ (h + 1) + n = (h + n) + 1  OBVIOUS
<1>3. Hdr \in Nat /\ Hdr > 0  BY NumbersAssumption
<1> QED BY <1>1, <1>2, <1>3 DEF End

\* A read takes bytes off the front ...
Took(u, n, t) ==
  t \in Seq(Byte) /\ Len(t) = Len(u) - n /\ \A i \in 1..Len(t) : t[i] = u[n + i]

LEMMA StreamDrop ==
  ASSUME NEW sizes, NEW u \in Seq(Byte), IsStream(sizes, u), Complete(sizes, u),
         NEW n \in 0..Len(u), NEW t, Took(u, n, t)
  PROVE  IsStream(sizes, t) /\ Complete(sizes, t)
<1>t. t \in Seq(Byte) /\ Len(t) = Len(u) - n /\ \A i \in 1..Len(t) : t[i] = u[n + i]
  BY DEF Took
<1>1. Len(u) \in Nat /\ Len(t) \in Nat /\ n \in Nat  BY <1>t, LenProperties
<1>2. ASSUME NEW i \in 1..Len(t)
      PROVE  IsByte(sizes, t[i]) /\ \A j \in i..Len(t) : Leads(sizes, t[i], j - i, t[j])
  <2>1. n + i \in 1..Len(u) /\ t[i] = u[n + i]  BY <1>t, <1>1
  <2>2. ASSUME NEW j \in i..Len(t) PROVE Leads(sizes, t[i], j - i, t[j])
    <3>1. n + j \in (n + i)..Len(u) /\ t[j] = u[n + j] /\ (n + j) - (n + i) = j - i
      BY <1>t, <1>1
    <3>2. Leads(sizes, u[n + i], (n + j) - (n + i), u[n + j])  BY <2>1, <3>1 DEF IsStream
    <3> QED BY <2>1, <3>1, <3>2
  <2> QED BY <2>1, <2>2 DEF IsStream
<1>3. ASSUME t # <<>>
      PROVE  t[Len(t)] = u[Len(u)] /\ u # <<>>
  <2>1. Len(t) \in 1..Len(t) /\ n + Len(t) = Len(u) /\ u # <<>>
    BY <1>t, <1>1, <1>3, EmptySeq
  <2> QED BY <1>t, <2>1
<1> QED BY <1>2, <1>3 DEF IsStream, Complete

\* The bytes of a frame, and a sequence with a frame put at its end.
LEMMA FrameBytes ==
  ASSUME NEW k \in Nat, NEW n \in Nat
  PROVE  /\ Frame(k, n) \in Seq(Byte) /\ Len(Frame(k, n)) = Hdr + n
         /\ \A i \in 1..(Hdr + n) : Frame(k, n)[i] = ByteAt(k, i, n)
<1>1. Hdr + n \in Nat  BY NumbersAssumption
<1> DEFINE m == Hdr + n
           F(i) == ByteAt(k, i, n)
<1>2. Frame(k, n) = [i \in 1..m |-> F(i)]  BY DEF Frame, Bytes, ByteAt
<1>3. \A i \in 1..m : F(i) \in Byte  BY <1>1 DEF Byte, ByteAt
<1> HIDE DEF m
<1>4. [i \in 1..m |-> F(i)] \in Seq(Byte)  BY <1>1, <1>3, IsASeq DEF m
<1>5. Len([i \in 1..m |-> F(i)]) = m  BY <1>1, <1>4, LenProperties DEF m
<1> QED BY <1>2, <1>4, <1>5 DEF m

FrameAdded(u, k, n, t) ==
  /\ Len(t) = Len(u) + (Hdr + n)
  /\ \A i \in 1..Len(u) : t[i] = u[i]
  /\ \A i \in 1..(Hdr + n) : t[Len(u) + i] = ByteAt(k, i, n)

LEMMA FramePut ==
  ASSUME NEW u \in Seq(Byte), NEW k \in Nat, NEW n \in Nat
  PROVE  FrameAdded(u, k, n, u \o Frame(k, n))
<1> PICK e : e = Frame(k, n)  OBVIOUS
<1> DEFINE m == Hdr + n
<1>0. m \in Nat /\ Len(u) \in Nat  BY LenProperties, NumbersAssumption
<1>1. /\ e \in Seq(Byte) /\ Len(e) = m
      /\ \A i \in 1..m : e[i] = ByteAt(k, i, n)
  BY FrameBytes, Zenon
<1> HIDE DEF m
<1>2. /\ u \o e \in Seq(Byte) /\ Len(u \o e) = Len(u) + Len(e)
      /\ \A i \in 1..(Len(u) + Len(e)) :
           (u \o e)[i] = IF i <= Len(u) THEN u[i] ELSE e[i - Len(u)]
  BY <1>1, ConcatProperties, Zenon
<1>3. ASSUME NEW i \in 1..m PROVE (u \o e)[Len(u) + i] = e[i]
  <2>1. /\ Len(u) + i \in 1..(Len(u) + Len(e)) /\ ~(Len(u) + i <= Len(u))
        /\ (Len(u) + i) - Len(u) = i
    BY <1>0, <1>1
  <2> QED BY <1>2, <2>1, Zenon
<1>4. ASSUME NEW i \in 1..Len(u) PROVE (u \o e)[i] = u[i]
  <2>1. i \in 1..(Len(u) + Len(e)) /\ i <= Len(u)  BY <1>0, <1>1
  <2> QED BY <1>2, <2>1, Zenon
<1> QED BY <1>1, <1>2, <1>3, <1>4 DEF m, FrameAdded

\* ... and a send puts a frame at the end.
OneMore(fr, gr, u, t, m) ==
  /\ Len(gr) = Len(fr) + 1 /\ \A k \in 1..Len(fr) : gr[k] = fr[k]
  /\ m = End(gr, Len(fr) + 1)
  /\ Len(t) = Len(u) + m /\ \A i \in 1..Len(u) : t[i] = u[i]
  /\ \A i \in 1..m :
       t[Len(u) + i] = ByteAt(Len(fr) + 1, i, gr[Len(fr) + 1])

LEMMA StreamAppend ==
  ASSUME NEW fr \in Seq(Nat), NEW gr \in Seq(Nat), NEW u \in Seq(Byte), NEW t \in Seq(Byte),
         NEW m \in Nat \ {0}, OneMore(fr, gr, u, t, m),
         IsStream(fr, u), Complete(fr, u)
  PROVE  /\ t # <<>> /\ IsStream(gr, t) /\ Complete(gr, t)
         /\ u # <<>> => t[1] = u[1]
         /\ u = <<>> => t[1].msg = Len(fr) + 1 /\ t[1].at = 1
<1> DEFINE F == Len(fr)
           G == F + 1
<1>1. F \in Nat /\ m \in Nat /\ m >= 1 /\ Len(u) \in Nat /\ G \in Nat /\ G = F + 1
  BY LenProperties
<1>3. Len(gr) = G /\ \A k \in 1..F : gr[k] = fr[k]  BY DEF OneMore
<1>4. End(gr, G) = m /\ \A k \in 1..F : End(gr, k) = End(fr, k)
  BY <1>3 DEF End, OneMore
<1>5. /\ Len(t) = Len(u) + m
      /\ \A i \in 1..Len(u) : t[i] = u[i]
      /\ \A i \in 1..m : t[Len(u) + i] = ByteAt(G, i, gr[G])
  BY DEF OneMore
<1> HIDE DEF F, G
<1>6. t # <<>> /\ t[Len(t)].msg = G /\ t[Len(t)].at = m
  <2>1. m \in 1..m /\ Len(t) = Len(u) + m /\ Len(t) # 0  BY <1>1, <1>5
  <2>2. t[Len(u) + m] = ByteAt(G, m, gr[G])  BY <1>5, <2>1
  <2> QED BY <2>1, <2>2, EmptySeq DEF ByteAt
<1>7. (u # <<>> => t[1] = u[1]) /\ (u = <<>> => t[1].msg = G /\ t[1].at = 1)
  <2>1. CASE u = <<>>
    <3>1. Len(u) = 0 /\ 1 \in 1..m  BY <1>1, <2>1, EmptySeq
    <3>2. t[0 + 1] = ByteAt(G, 1, gr[G])  BY <1>5, <3>1
    <3> QED BY <2>1, <3>2 DEF ByteAt
  <2>2. CASE u # <<>>
    <3>1. 1 \in 1..Len(u)  BY <2>2, EmptySeq
    <3> QED BY <2>2, <3>1, <1>5
  <2> QED BY <2>1, <2>2
<1>8. ASSUME NEW i \in 1..Len(t)
      PROVE  IsByte(gr, t[i])
  <2>1. CASE i > Len(u)
    <3>1. i - Len(u) \in 1..m /\ i = Len(u) + (i - Len(u))  BY <1>1, <1>5, <2>1
    <3>2. PICK x \in 1..m : i = Len(u) + x  BY <3>1
    <3>3. t[i] = ByteAt(G, x, gr[G])  BY <1>5, <3>2
    <3>4. t[i].msg = G /\ t[i].at = x /\ t[i].size = gr[G]  BY <3>3 DEF ByteAt
    <3>5. G \in 1..Len(gr) /\ x \in 1..End(gr, G)  BY <1>1, <1>3, <1>4, <3>2
    <3> QED BY <3>4, <3>5 DEF IsByte
  <2>2. CASE i <= Len(u)
    <3>1. i \in 1..Len(u) /\ t[i] = u[i]  BY <1>1, <1>5, <2>2
    <3>2. IsByte(fr, u[i])  BY <3>1 DEF IsStream
    <3>3. u[i].msg \in 1..F /\ u[i].at \in 1..End(fr, u[i].msg) /\ u[i].size = fr[u[i].msg]
      BY <3>2 DEF IsByte, F
    <3>4. End(gr, u[i].msg) = End(fr, u[i].msg) /\ gr[u[i].msg] = fr[u[i].msg]
      BY <1>3, <1>4, <3>3, Zenon
    <3>5. u[i].msg \in 1..Len(gr)
      <4>1. 1..F \subseteq 1..G  BY <1>1
      <4> QED BY <1>3, <3>3, <4>1, Zenon
    <3> QED BY <3>1, <3>3, <3>4, <3>5 DEF IsByte
  <2> QED BY <1>1, <2>1, <2>2
<1>9. ASSUME NEW i \in 1..Len(t), NEW j \in i..Len(t)
      PROVE  Leads(gr, t[i], j - i, t[j])
  <2>1. CASE i > Len(u)
    <3>1. /\ i - Len(u) \in 1..m /\ i = Len(u) + (i - Len(u))
          /\ j - Len(u) \in 1..m /\ j = Len(u) + (j - Len(u))
      BY <1>1, <1>5, <2>1
    <3>2. /\ t[i].msg = G /\ t[i].at = i - Len(u)
          /\ t[j].msg = G /\ t[j].at = j - Len(u)
      <4>1. PICK x \in 1..m : i = Len(u) + x  BY <3>1
      <4>2. PICK y \in 1..m : j = Len(u) + y  BY <3>1
      <4>3. /\ t[i] = ByteAt(G, x, gr[G])
            /\ t[j] = ByteAt(G, y, gr[G])
        BY <1>5, <4>1, <4>2
      <4>4. x = i - Len(u) /\ y = j - Len(u)  BY <1>1, <4>1, <4>2
      <4> QED BY <4>3, <4>4 DEF ByteAt
    <3>3. j - Len(u) = (i - Len(u)) + (j - i) /\ j - i # m - (i - Len(u)) + 1
      BY <1>1, <3>1
    <3> QED BY <1>4, <3>2, <3>3 DEF Leads
  <2>2. CASE i <= Len(u)
    <3>1. i \in 1..Len(u) /\ t[i] = u[i] /\ u # <<>>  BY <1>1, <1>5, <2>2, EmptySeq
    <3> DEFINE a == u[i].at
               z == End(fr, u[i].msg)
    <3>2. /\ u[i].msg \in 1..F /\ a \in 1..z /\ z \in Nat /\ End(gr, u[i].msg) = z
      <4>1. u[i].msg \in 1..F /\ a \in 1..z  BY <3>1 DEF IsStream, IsByte, F
      <4>2. z \in Nat  BY <4>1, EndType DEF F
      <4> QED BY <1>4, <4>1, <4>2
    <3>3. CASE j <= Len(u)
      <4>1. j \in i..Len(u) /\ j \in 1..Len(u)  BY <1>1, <3>1, <3>3
      <4>2. Leads(fr, u[i], j - i, u[j]) /\ t[j] = u[j]  BY <1>5, <3>1, <4>1 DEF IsStream
      <4> QED BY <3>1, <3>2, <4>2 DEF Leads
    <3>4. CASE j > Len(u)
      <4> DEFINE d == Len(u) - i
                 k == j - Len(u)
      <4>1. k \in 1..m /\ j = Len(u) + k /\ d \in Nat /\ j - i = d + k
        <5>1. j \in Nat /\ i \in Nat /\ i <= Len(u) /\ j <= Len(u) + m
          BY <1>1, <1>5, <3>1
        <5> QED BY <1>1, <3>4, <5>1
      <4>2. t[j] = ByteAt(G, k, gr[G])  BY <1>5, <4>1
      <4>3. Leads(fr, u[i], d, u[Len(u)])  BY <1>1, <3>1 DEF IsStream
      <4>4. u[Len(u)].msg = F /\ u[Len(u)].at = End(fr, F)  BY <3>1 DEF Complete, F
      <4> HIDE DEF d, k
      <4>5. d <= z - a => u[i].msg = F /\ a + d = End(fr, F)
        BY <4>3, <4>4 DEF Leads
      <4> HIDE DEF a, z
      <4>n. d \in Nat /\ k \in Nat /\ k >= 1 /\ z \in Nat /\ a \in Nat
        <5>1. 1..m \subseteq Nat /\ \A x \in 1..m : x >= 1  BY <1>1
        <5>2. 1..z \subseteq Nat  BY <3>2
        <5> QED BY <3>2, <4>1, <5>1, <5>2
      <4>6. ~(d + k <= z - a)
        <5>1. d + k <= z - a => d <= z - a  BY <4>n
        <5>2. ~(d + k <= z - a /\ a + d = z)  BY <4>n
        <5> QED BY <4>5, <5>1, <5>2 DEF z
      <4>7. d + k = z - a + 1 => k = 1 /\ u[i].msg = F
        <5>1. d + k = z - a + 1 => d <= z - a  BY <4>n
        <5>2. d + k = z - a + 1 /\ a + d = z => k = 1  BY <4>n
        <5> QED BY <4>5, <5>1, <5>2 DEF z
      <4>8. d + k = z - a + 1 => t[j].msg = u[i].msg + 1 /\ t[j].at = 1
        BY <4>2, <4>7, <1>1 DEF ByteAt
      <4> QED BY <3>1, <3>2, <4>1, <4>6, <4>8 DEF Leads, a, z
    <3> QED BY <1>1, <3>1, <3>3, <3>4
  <2> QED BY <1>1, <2>1, <2>2
<1>10. IsStream(gr, t)  BY <1>8, <1>9 DEF IsStream
<1>11. Complete(gr, t)  BY <1>3, <1>4, <1>6 DEF Complete
<1> QED BY <1>6, <1>7, <1>10, <1>11 DEF G, F

\* The bytes from the p-th of message k on: to the end of its frame they are that
\* frame's, and all of them are there.
RestIs(sizes, u, k, p) ==
  /\ k \in 1..Len(sizes) /\ p \in 1..End(sizes, k)
  /\ p + Len(u) >= End(sizes, k) + 1
  /\ \A i \in 1..Len(u) : p + i <= End(sizes, k) + 1 =>
       /\ u[i].msg = k /\ u[i].at = p + (i - 1) /\ u[i].size = sizes[k]

LEMMA RestOfFrame ==
  ASSUME NEW sizes \in Seq(Nat), NEW u \in Seq(Byte), IsStream(sizes, u), Complete(sizes, u),
         u # <<>>, NEW k, NEW p, u[1].msg = k, u[1].at = p
  PROVE  RestIs(sizes, u, k, p)
<1>1. Len(u) \in Nat /\ 1 \in 1..Len(u)  BY LenProperties, EmptySeq
<1>2. k \in 1..Len(sizes) /\ p \in 1..End(sizes, k)
  BY <1>1 DEF IsStream, IsByte
<1> DEFINE z == End(sizes, k)
<1>3. z \in Nat /\ k \in Nat /\ p \in Nat  BY <1>2, EndType
<1>4. ASSUME NEW i \in 1..Len(u), p + i <= z + 1
      PROVE  u[i].msg = k /\ u[i].at = p + (i - 1) /\ u[i].size = sizes[k]
  <2>1. Leads(sizes, u[1], i - 1, u[i]) /\ IsByte(sizes, u[i])  BY <1>1 DEF IsStream
  <2>2. i - 1 <= z - p  BY <1>3, <1>4
  <2> QED BY <2>1, <2>2 DEF Leads, IsByte
<1>5. ASSUME p + Len(u) < z + 1 PROVE FALSE
  <2>1. Len(u) \in 1..Len(u) /\ p + Len(u) <= z + 1  BY <1>1, <1>3, <1>5
  <2>2. u[Len(u)].msg = k /\ u[Len(u)].at = p + (Len(u) - 1)  BY <1>4, <2>1
  <2>3. u[Len(u)].msg = Len(sizes) /\ u[Len(u)].at = End(sizes, Len(sizes))
    BY DEF Complete
  <2>4. z = p + (Len(u) - 1)  BY <2>2, <2>3
  <2> QED BY <1>1, <1>3, <1>5, <2>4
<1>6. p + Len(u) >= z + 1  BY <1>1, <1>3, <1>5
<1> QED BY <1>2, <1>4, <1>6 DEF RestIs

\* What comes after the next n bytes: more of their frame, or the next one.
NextIs(sizes, k, p, n, t) ==
  /\ p + n <= End(sizes, k) => t # <<>> /\ t[1].msg = k /\ t[1].at = p + n
  /\ p + n = End(sizes, k) + 1 => Begins(sizes, t, k + 1)

LEMMA AfterBytes ==
  ASSUME NEW sizes \in Seq(Nat), NEW u \in Seq(Byte), IsStream(sizes, u), Complete(sizes, u),
         u # <<>>, NEW k, NEW p, u[1].msg = k, u[1].at = p,
         NEW n \in 1..Len(u), NEW t, Took(u, n, t)
  PROVE  NextIs(sizes, k, p, n, t)
<1>t. t \in Seq(Byte) /\ Len(t) = Len(u) - n /\ \A i \in 1..Len(t) : t[i] = u[n + i]
  BY DEF Took
<1>1. Len(u) \in Nat /\ Len(t) \in Nat /\ n \in Nat /\ 1 \in 1..Len(u)
  BY <1>t, LenProperties
<1> DEFINE z == End(sizes, k)
<1>2. /\ k \in 1..Len(sizes) /\ p \in 1..z /\ p + Len(u) >= z + 1
      /\ \A i \in 1..Len(u) : p + i <= z + 1 => u[i].msg = k /\ u[i].at = p + (i - 1)
  <2>1. RestIs(sizes, u, k, p)  BY RestOfFrame
  <2> QED BY <2>1 DEF RestIs
<1>3. z \in Nat /\ k \in Nat /\ p \in Nat /\ Len(sizes) \in Nat
  BY <1>2, EndType, LenProperties
<1>4. ASSUME t # <<>> PROVE t[1] = u[n + 1] /\ n + 1 \in 1..Len(u)
  BY <1>t, <1>1, <1>4, EmptySeq
<1>5. CASE p + n <= z
  <2>1. t # <<>>
    <3>1. Len(t) # 0  BY <1>t, <1>1, <1>2, <1>3, <1>5
    <3> QED BY <1>t, <3>1, EmptySeq
  <2>2. p + (n + 1) <= z + 1 /\ p + ((n + 1) - 1) = p + n  BY <1>1, <1>3, <1>5
  <2>3. t[1].msg = k /\ t[1].at = p + n  BY <1>2, <1>4, <2>1, <2>2
  <2>4. ~(p + n = z + 1)  BY <1>1, <1>3, <1>5
  <2> QED BY <2>1, <2>3, <2>4 DEF NextIs
<1>6. CASE p + n = z + 1
  <2>0. ~(p + n <= z)  BY <1>1, <1>3, <1>6
  <2>1. CASE t # <<>>
    <3>1. n + 1 \in 1..Len(u) /\ t[1] = u[n + 1]  BY <1>4, <2>1
    <3>2. Leads(sizes, u[1], (n + 1) - 1, u[n + 1])  BY <1>1, <3>1 DEF IsStream
    <3>3. (n + 1) - 1 = z - p + 1  BY <1>1, <1>3, <1>6
    <3>4. u[n + 1].msg = k + 1 /\ u[n + 1].at = 1  BY <3>2, <3>3 DEF Leads
    <3>5. Begins(sizes, t, k + 1)  BY <2>1, <3>1, <3>4 DEF Begins
    <3> QED BY <2>0, <3>5 DEF NextIs
  <2>2. CASE t = <<>>
    <3>1. Len(u) = n
      <4>1. Len(t) = 0  BY <2>2, EmptySeq
      <4> QED BY <1>t, <1>1, <4>1
    <3>2. p + n <= z + 1 /\ Len(u) \in 1..Len(u)  BY <1>1, <1>3, <1>6, <3>1
    <3>3. u[Len(u)].msg = k  BY <1>2, <3>1, <3>2
    <3>4. u[Len(u)].msg = Len(sizes)  BY DEF Complete
    <3>5. Begins(sizes, t, k + 1)  BY <1>3, <2>2, <3>3, <3>4 DEF Begins
    <3> QED BY <2>0, <3>5 DEF NextIs
  <2> QED BY <2>1, <2>2
<1> QED BY <1>1, <1>3, <1>5, <1>6 DEF NextIs

----------------------------------------------------------------------------
(* The steps.                                                              *)

\* The types, apart.
LEMMA ClientTypes ==
  ASSUME SimpleTypeOK, NEW c \in Client
  PROVE  /\ size[c] \in Nat /\ sent[c] \in Seq(Nat) /\ Len(sent[c]) \in Nat
         /\ wire[c] \in Seq(Byte) /\ Len(wire[c]) \in Nat
         /\ got[c] \in Seq(Seq(Byte)) /\ Len(got[c]) \in Nat
BY LenProperties DEF SimpleTypeOK

\* A step that leaves a client's stream and its thread alone.
LEMMA StreamKept ==
  ASSUME NEW c \in Client, StreamInv(c),
         sent'[c] = sent[c], short'[c] = short[c], wire'[c] = wire[c],
         thread'[c] = thread[c], size'[c] = size[c], got'[c] = got[c],
         Ended(c) => Ended(c)'
  PROVE  StreamInv(c)'
<1>1. InPlace(c, Len(got[c])) => InPlace(c, Len(got[c]))'  BY DEF InPlace
<1>2. Heard(c) => Heard(c)'  BY DEF Heard, Whole
<1> QED BY <1>1, <1>2 DEF StreamInv

\* The thread of a connection that is up.
Up == server = "up" /\ RpcInv

LEMMA ConnectKeeps ==
  ASSUME Up, NEW c \in Client, Connect(c)
  PROVE  RpcInv'
<1>t. SimpleTypeOK  BY DEF Up, RpcInv
<1>1. /\ peer[c] = "new" /\ peer' = [peer EXCEPT ![c] = "open"]
      /\ UNCHANGED <<limit, server, thread, fds, valid, clean, size, got, sent, short, wire, replies>>
  BY DEF Connect, serverVars
<1>2. SimpleTypeOK'  BY <1>t, <1>1 DEF SimpleTypeOK
<1>3. \A d \in Client : peer'[d] = IF d = c THEN "open" ELSE peer[d]
  BY <1>t, <1>1 DEF SimpleTypeOK
<1>4. SocketsInv'  BY <1>1, <1>3 DEF SocketsInv, Up, RpcInv
<1>5. TerminatesOnlyIf'  BY <1>1 DEF TerminatesOnlyIf, Up
<1>6. \A d \in Client : Ended(d) => Ended(d)'  BY <1>1, <1>3 DEF Ended
<1>7. \A d \in Client : StreamInv(d)'  BY <1>1, <1>6, StreamKept DEF Up, RpcInv
<1> QED BY <1>2, <1>4, <1>5, <1>7 DEF RpcInv

LEMMA CloseKeeps ==
  ASSUME Up, NEW c \in Client, Close(c)
  PROVE  RpcInv'
<1>t. SimpleTypeOK  BY DEF Up, RpcInv
<1> PICK p \in {"closed", "reset"} : p = IF replies[c] = 0 THEN "closed" ELSE "reset"
  OBVIOUS
<1>1. /\ peer[c] = "open" /\ peer' = [peer EXCEPT ![c] = p]
      /\ replies' = [replies EXCEPT ![c] = 0]
      /\ UNCHANGED <<limit, server, thread, fds, valid, clean, size, got, sent, short, wire>>
  BY DEF Close, serverVars
<1>2. SimpleTypeOK'  BY <1>t, <1>1 DEF SimpleTypeOK
<1>3. \A d \in Client : peer'[d] = IF d = c THEN p ELSE peer[d]
  BY <1>t, <1>1 DEF SimpleTypeOK
<1>4. SocketsInv'  BY <1>1, <1>3 DEF SocketsInv, Up, RpcInv
<1>5. TerminatesOnlyIf'  BY <1>1 DEF TerminatesOnlyIf, Up
<1>6. \A d \in Client : Ended(d) => Ended(d)'  BY <1>1, <1>3 DEF Ended
<1>7. \A d \in Client : StreamInv(d)'  BY <1>1, <1>6, StreamKept DEF Up, RpcInv
<1> QED BY <1>2, <1>4, <1>5, <1>7 DEF RpcInv

LEMMA ReplyKeeps ==
  ASSUME Up, NEW c \in Client, ReceiveReply(c)
  PROVE  RpcInv'
<1>t. SimpleTypeOK  BY DEF Up, RpcInv
<1>1. /\ replies[c] > 0 /\ replies' = [replies EXCEPT ![c] = replies[c] - 1]
      /\ UNCHANGED <<limit, server, thread, fds, valid, clean, size, got, peer, sent, short, wire>>
  BY DEF ReceiveReply, serverVars, clientVars
<1>2. SimpleTypeOK'
  <2>1. replies[c] - 1 \in Nat  BY <1>t, <1>1 DEF SimpleTypeOK
  <2>2. replies' \in [Client -> Nat]  BY <1>t, <1>1, <2>1 DEF SimpleTypeOK
  <2> QED BY <1>t, <1>1, <2>2 DEF SimpleTypeOK
<1>4. SocketsInv'  BY <1>1 DEF SocketsInv, Up, RpcInv
<1>5. TerminatesOnlyIf'  BY <1>1 DEF TerminatesOnlyIf, Up
<1>7. \A d \in Client : StreamInv(d)'  BY <1>1, StreamKept DEF Up, RpcInv, Ended
<1> QED BY <1>2, <1>4, <1>5, <1>7 DEF RpcInv

\* A message more is not one the thread waited for in vain.
LEMMA SendInPlace ==
  ASSUME Up, NEW c \in Client, ~short[c], peer[c] = "open",
         sent'[c] \in Seq(Nat), wire'[c] \in Seq(Byte),
         NEW m \in Nat \ {0}, OneMore(sent[c], sent'[c], wire[c], wire'[c], m),
         UNCHANGED <<thread, size, got, peer>>
  PROVE  /\ IsStream(sent'[c], wire'[c]) /\ Complete(sent'[c], wire'[c])
         /\ InPlace(c, Len(got[c]))' /\ Heard(c)'
<1>t. SimpleTypeOK /\ StreamInv(c)  BY DEF Up, RpcInv
<1>0. /\ IsStream(sent[c], wire[c]) /\ Complete(sent[c], wire[c])
      /\ InPlace(c, Len(got[c])) /\ Heard(c)
  BY <1>t DEF StreamInv
<1> PICK k \in Nat : k = Len(got[c])  BY <1>t, ClientTypes
<1>1. sent[c] \in Seq(Nat) /\ wire[c] \in Seq(Byte) /\ Len(sent[c]) \in Nat
  BY <1>t, ClientTypes
<1>2. /\ wire'[c] # <<>> /\ IsStream(sent'[c], wire'[c]) /\ Complete(sent'[c], wire'[c])
      /\ wire[c] # <<>> => wire'[c][1] = wire[c][1]
      /\ wire[c] = <<>> => wire'[c][1].msg = Len(sent[c]) + 1 /\ wire'[c][1].at = 1
  BY <1>0, <1>1, StreamAppend
<1>3. /\ Len(sent'[c]) = Len(sent[c]) + 1
      /\ \A i \in 1..Len(sent[c]) : sent'[c][i] = sent[c][i]
  BY DEF OneMore
<1>4. k <= Len(sent[c]) /\ \A i \in 1..k : i \in 1..Len(sent[c])
  BY <1>0, <1>1 DEF Heard
<1>5. Heard(c)'
  <2>1. Len(got'[c]) = k /\ k <= Len(sent'[c])  BY <1>1, <1>3, <1>4
  <2>2. ASSUME NEW i \in 1..k PROVE sent'[c][i] > 0 /\ got'[c][i] = Whole(c, i)'
    <3>1. sent[c][i] > 0 /\ got[c][i] = Whole(c, i)  BY <1>0 DEF Heard
    <3>2. sent'[c][i] = sent[c][i]  BY <1>3, <1>4
    <3>3. Whole(c, i)' = Whole(c, i)  BY <3>2 DEF Whole
    <3> QED BY <3>1, <3>2, <3>3
  <2> QED BY <2>1, <2>2 DEF Heard
<1>6. Begins(sent[c], wire[c], k + 1) => Begins(sent'[c], wire'[c], k + 1)
  BY <1>1, <1>2 DEF Begins
<1>7. k + 1 <= Len(sent[c]) =>
        k + 1 <= Len(sent'[c]) /\ sent'[c][k + 1] = sent[c][k + 1]
  <2>1. k + 1 <= Len(sent[c]) => k + 1 \in 1..Len(sent[c]) /\ k + 1 <= Len(sent[c]) + 1
    BY <1>1
  <2> QED BY <1>3, <2>1
<1>8. InPlace(c, k)'
  <2>1. ~Ended(c)  BY DEF Ended
  <2>2. InPlace(c, k)  BY <1>0
  <2> QED BY <1>2, <1>6, <1>7, <2>1, <2>2 DEF InPlace
<1> QED BY <1>2, <1>5, <1>8

LEMMA SendKeeps ==
  ASSUME Up, NEW c \in Client, NEW n \in Sizes, NEW bytes \in 1..(Hdr + n), Send(c, n, bytes)
  PROVE  RpcInv'
<1>t. SimpleTypeOK  BY DEF Up, RpcInv
<1>0. /\ sent[c] \in Seq(Nat) /\ wire[c] \in Seq(Byte) /\ Len(sent[c]) \in Nat
      /\ Len(sent[c]) + 1 \in Nat /\ n \in Nat
  BY <1>t, ClientTypes, SizesAssumption
<1>w. wire[c] \in Seq(Byte) /\ n \in Nat  BY <1>0
<1> PICK k \in Nat : k = Len(sent[c]) + 1  BY <1>0
<1> PICK part : part = SubSeq(Frame(k, n), 1, bytes)  OBVIOUS
<1> DEFINE cut == bytes < Len(Frame(k, n))
<1>1. /\ peer[c] = "open"
      /\ wire' = [wire EXCEPT ![c] = wire[c] \o part]
      /\ sent' = [sent EXCEPT ![c] = Append(sent[c], n)]
      /\ short' = [short EXCEPT ![c] = short[c] \/ cut]
      /\ UNCHANGED <<limit, server, thread, fds, valid, clean, size, got, peer, replies>>
  BY DEF Send, serverVars
<1>2. /\ Frame(k, n) \in Seq(Byte) /\ Len(Frame(k, n)) = Hdr + n /\ Hdr + n \in Nat
      /\ bytes \in Nat /\ bytes <= Len(Frame(k, n))
  <2>1. Frame(k, n) \in Seq(Byte) /\ Len(Frame(k, n)) = Hdr + n
    BY <1>0, FrameBytes, Zenon
  <2>2. Hdr + n \in Nat  BY <1>0, NumbersAssumption
  <2> QED BY <2>1, <2>2
<1>3. part \in Seq(Byte)
  BY <1>2
<1>4. wire[c] \o part \in Seq(Byte) /\ Append(sent[c], n) \in Seq(Nat)
  BY <1>0, <1>3
<1>5. SimpleTypeOK'
  <2>1. wire' \in [Client -> Seq(Byte)] /\ sent' \in [Client -> Seq(Nat)]
    BY <1>t, <1>1, <1>4 DEF SimpleTypeOK
  <2>2. short' \in [Client -> BOOLEAN]
    <3>1. (short[c] \/ cut) \in BOOLEAN  BY Zenon
    <3> QED BY <1>t, <1>1, <3>1 DEF SimpleTypeOK
  <2> QED BY <1>t, <1>1, <2>1, <2>2 DEF SimpleTypeOK
<1>6. SocketsInv'  BY <1>1 DEF SocketsInv, Up, RpcInv
<1>7. TerminatesOnlyIf'  BY <1>1 DEF TerminatesOnlyIf, Up
<1>8. ASSUME NEW d \in Client PROVE StreamInv(d)'
  <2>1. CASE d # c
    <3>1. sent'[d] = sent[d] /\ short'[d] = short[d] /\ wire'[d] = wire[d]
      BY <1>t, <1>1, <2>1 DEF SimpleTypeOK
    <3>2. StreamInv(d)  BY DEF Up, RpcInv
    <3> QED BY <1>1, <3>1, <3>2, StreamKept DEF Ended
  <2>2. CASE d = c
    <3>1. /\ wire'[c] = wire[c] \o part /\ sent'[c] = Append(sent[c], n)
          /\ short'[c] = (short[c] \/ cut)
      BY <1>t, <1>1 DEF SimpleTypeOK
    <3>2. SUFFICES ASSUME ~short'[c] PROVE StreamInv(c)'
      BY <2>2 DEF StreamInv
    <3>3. ~short[c] /\ ~cut  BY <3>1, <3>2
    <3>4. bytes = Len(Frame(k, n))  BY <1>2, <3>3
    <3>5. part = Frame(k, n)
      BY <1>2, <3>4, SubSeqFull
    <3>6. wire'[c] \in Seq(Byte) /\ sent'[c] \in Seq(Nat)  BY <1>4, <3>1
    <3>7. /\ Len(sent'[c]) = k /\ sent'[c][k] = n
          /\ \A i \in 1..Len(sent[c]) : sent'[c][i] = sent[c][i]
      BY <1>0, <3>1, AppendProperties
    <3> DEFINE m == Hdr + n
    <3>8. m \in Nat \ {0} /\ End(sent'[c], k) = m
      BY <1>0, <3>7, NumbersAssumption DEF End
    <3>9. /\ Len(wire'[c]) = Len(wire[c]) + m
          /\ \A i \in 1..Len(wire[c]) : wire'[c][i] = wire[c][i]
          /\ \A i \in 1..m : wire'[c][Len(wire[c]) + i] = ByteAt(k, i, n)
      <4>1. wire'[c] = wire[c] \o Frame(k, n)  BY <3>1, <3>5
      <4>2. FrameAdded(wire[c], k, n, wire'[c])  BY <1>w, <4>1, FramePut
      <4> QED BY <4>2 DEF FrameAdded
    <3> HIDE DEF m
    <3>10. OneMore(sent[c], sent'[c], wire[c], wire'[c], m)
      BY <3>7, <3>8, <3>9 DEF OneMore
    <3>11. /\ IsStream(sent'[c], wire'[c]) /\ Complete(sent'[c], wire'[c])
           /\ InPlace(c, Len(got[c]))' /\ Heard(c)'
      BY <1>1, <3>3, <3>6, <3>8, <3>10, SendInPlace
    <3> QED BY <3>11 DEF StreamInv
  <2> QED BY <2>1, <2>2
<1> QED BY <1>5, <1>6, <1>7, <1>8 DEF RpcInv

LEMMA AcceptKeeps ==
  ASSUME Up, NEW c \in Client, Accept(c)
  PROVE  RpcInv'
<1>t. SimpleTypeOK /\ SocketsInv /\ \A d \in Client : StreamInv(d)  BY DEF Up, RpcInv
<1>1. /\ thread[c] = "none"
      /\ fds' = fds \cup {c}
      /\ valid' = [valid EXCEPT ![c] = TRUE]
      /\ thread' = [thread EXCEPT ![c] = "size"]
      /\ UNCHANGED <<limit, server, clean, size, got, peer, sent, short, wire, replies>>
  BY DEF Accept, clientVars
<1>2. SimpleTypeOK'  BY <1>t, <1>1 DEF SimpleTypeOK
<1>3. /\ \A d \in Client : thread'[d] = IF d = c THEN "size" ELSE thread[d]
      /\ \A d \in Client : valid'[d] = IF d = c THEN TRUE ELSE valid[d]
  BY <1>t, <1>1 DEF SimpleTypeOK
<1>4. SocketsInv'
  <2>1. fds' = {d \in Client : thread'[d] # "none"}  BY <1>t, <1>1, <1>3 DEF SocketsInv
  <2> QED BY <1>t, <1>1, <1>3, <2>1 DEF SocketsInv
<1>5. TerminatesOnlyIf'  BY <1>1 DEF TerminatesOnlyIf, Up
<1>6. ASSUME NEW d \in Client PROVE StreamInv(d)'
  <2>1. CASE d # c  BY <1>t, <1>1, <1>3, <2>1, StreamKept DEF Ended
  <2>2. CASE d = c
    <3>1. InPlace(c, Len(got[c])) => InPlace(c, Len(got[c]))'
      BY <1>1, <1>3 DEF InPlace
    <3>2. Heard(c) => Heard(c)'  BY <1>1 DEF Heard, Whole
    <3> QED BY <1>t, <1>1, <2>2, <3>1, <3>2 DEF StreamInv
  <2> QED BY <2>1, <2>2
<1> QED BY <1>2, <1>4, <1>5, <1>6 DEF RpcInv

LEMMA AcceptFailsKeeps ==
  ASSUME Up, AcceptFails
  PROVE  RpcInv'
<1>t. SimpleTypeOK /\ SocketsInv /\ \A d \in Client : StreamInv(d)  BY DEF Up, RpcInv
<1>1. /\ Cardinality(fds) >= limit /\ server' = "terminated"
      /\ UNCHANGED <<limit, thread, fds, valid, clean, size, got, peer, sent, short, wire, replies>>
  BY DEF AcceptFails, clientVars
<1>2. SimpleTypeOK'  BY <1>t, <1>1 DEF SimpleTypeOK
<1>3. SocketsInv'  BY <1>t, <1>1 DEF SocketsInv
<1>4. TerminatesOnlyIf'
  <2>1. {d \in Client : thread'[d] # "none"} = fds  BY <1>t, <1>1 DEF SocketsInv
  <2> QED BY <1>1, <2>1 DEF TerminatesOnlyIf
<1>5. \A d \in Client : StreamInv(d)'  BY <1>t, <1>1, StreamKept DEF Ended
<1> QED BY <1>2, <1>3, <1>4, <1>5 DEF RpcInv

\* What a thread receives next.
Receives(c, n) ==
  \/ thread[c] = "size" /\ n = Hdr
  \/ thread[c] = "payload" /\ n = size[c]

\* A receive ends in the middle only of a frame that was cut.
LEMMA RecvFailsKeeps ==
  ASSUME Up, NEW c \in Client, NEW n, Receives(c, n), RecvFails(c, n)
  PROVE  RpcInv'
<1>t. SimpleTypeOK /\ SocketsInv /\ \A d \in Client : StreamInv(d)  BY DEF Up, RpcInv
<1>1. /\ server' = "terminated"
      /\ UNCHANGED <<limit, thread, fds, valid, clean, size, got, peer, sent, short, wire, replies>>
  BY DEF RecvFails, clientVars
<1>2. SimpleTypeOK'  BY <1>t, <1>1 DEF SimpleTypeOK
<1>3. SocketsInv'  BY <1>t, <1>1 DEF SocketsInv
<1>4. peer[c] = "reset" \/ short[c]
  <2>1. SUFFICES ASSUME ~short[c], wire[c] # <<>>, Len(wire[c]) < n PROVE FALSE
    BY DEF RecvFails
  <2>2. /\ IsStream(sent[c], wire[c]) /\ Complete(sent[c], wire[c])
        /\ InPlace(c, Len(got[c]))
    BY <1>t, <2>1 DEF StreamInv
  <2>3. /\ sent[c] \in Seq(Nat) /\ wire[c] \in Seq(Byte) /\ Len(wire[c]) \in Nat
        /\ Len(got[c]) \in Nat /\ size[c] \in Nat
    BY <1>t, ClientTypes
  <2>n. Len(wire[c]) \in Nat  BY <2>3
  <2>k. PICK k \in Nat : k = Len(got[c]) + 1  BY <2>3
  <2>4. CASE thread[c] = "size" /\ n = Hdr
    <3>1. wire[c][1].msg = k /\ wire[c][1].at = 1
      BY <2>1, <2>2, <2>k, <2>4 DEF InPlace, Begins
    <3>2. RestIs(sent[c], wire[c], k, 1)
      BY <2>1, <2>2, <2>3, <3>1, RestOfFrame
    <3>3. k \in 1..Len(sent[c]) /\ 1 + Len(wire[c]) >= End(sent[c], k) + 1
      BY <3>2 DEF RestIs
    <3>4. /\ End(sent[c], k) = Hdr + sent[c][k] /\ sent[c][k] \in Nat /\ Hdr \in Nat
      BY <2>3, <3>3, EndType
    <3>5. Len(wire[c]) >= Hdr  BY <2>n, <3>3, <3>4
    <3> QED BY <2>1, <2>3, <2>4, <3>4, <3>5
  <2>5. CASE thread[c] = "payload" /\ n = size[c]
    <3>1. size[c] = sent[c][k] /\ (size[c] > 0 => wire[c][1].msg = k /\ wire[c][1].at = Hdr + 1)
      BY <2>2, <2>k, <2>5 DEF InPlace
    <3>2. size[c] > 0  BY <2>1, <2>3, <2>5
    <3>3. RestIs(sent[c], wire[c], k, Hdr + 1)
      BY <2>1, <2>2, <2>3, <3>1, <3>2, RestOfFrame
    <3>4. k \in 1..Len(sent[c]) /\ (Hdr + 1) + Len(wire[c]) >= End(sent[c], k) + 1
      BY <3>3 DEF RestIs
    <3>5. End(sent[c], k) = Hdr + sent[c][k] /\ sent[c][k] \in Nat /\ Hdr \in Nat
      BY <2>3, <3>4, EndType
    <3>6. Len(wire[c]) >= sent[c][k]
      <4>1. \A e, x, l, h \in Nat : e = h + x /\ (h + 1) + l >= e + 1 => l >= x
        OBVIOUS
      <4>2. End(sent[c], k) \in Nat  BY <3>5
      <4> QED BY <2>n, <3>4, <3>5, <4>1, <4>2
    <3> QED BY <2>1, <2>3, <2>5, <3>1, <3>5, <3>6
  <2> QED BY <2>4, <2>5 DEF Receives
<1>5. TerminatesOnlyIf'  BY <1>1, <1>4 DEF TerminatesOnlyIf
<1>6. \A d \in Client : StreamInv(d)'  BY <1>t, <1>1, StreamKept DEF Ended
<1> QED BY <1>2, <1>3, <1>5, <1>6 DEF RpcInv

\* recvmsg returns 0 at the end of the stream, or for a message of size 0.
LEMMA RecvZeroKeeps ==
  ASSUME Up, NEW c \in Client, NEW n, Receives(c, n), RecvZero(c, n), Caught
  PROVE  RpcInv'
<1>t. SimpleTypeOK /\ SocketsInv /\ \A d \in Client : StreamInv(d)  BY DEF Up, RpcInv
<1>1. /\ n = 0 \/ (Ended(c) /\ wire[c] = <<>>)
      /\ valid' = [valid EXCEPT ![c] = FALSE] /\ clean' = [clean EXCEPT ![c] = TRUE]
      /\ thread' = [thread EXCEPT ![c] = "ended"]
      /\ fds' = IF valid'[c] THEN fds \ {c} ELSE fds
      /\ UNCHANGED <<limit, server, size, got, peer, sent, short, wire, replies>>
  BY DEF RecvZero, HearsClose, clientVars, Caught
<1>2. /\ \A d \in Client : thread'[d] = IF d = c THEN "ended" ELSE thread[d]
      /\ \A d \in Client : valid'[d] = IF d = c THEN FALSE ELSE valid[d]
  BY <1>t, <1>1 DEF SimpleTypeOK
<1>3. fds' = fds  BY <1>1, <1>2
<1>4. SimpleTypeOK'  BY <1>t, <1>1, <1>3 DEF SimpleTypeOK
<1>5. thread[c] # "none"  BY DEF Receives
<1>6. SocketsInv'
  <2>1. fds' = {d \in Client : thread'[d] # "none"}
    BY <1>t, <1>2, <1>3, <1>5 DEF SocketsInv
  <2> QED BY <1>t, <1>1, <1>2, <2>1 DEF SocketsInv
<1>7. TerminatesOnlyIf'  BY <1>1 DEF TerminatesOnlyIf, Up
<1>8. ASSUME NEW d \in Client PROVE StreamInv(d)'
  <2>1. CASE d # c
    <3>1. thread'[d] = thread[d]  BY <1>2, <2>1
    <3> QED BY <1>t, <1>1, <3>1, StreamKept DEF Ended
  <2>2. CASE d = c
    <3>1. SUFFICES ASSUME ~short[c] PROVE StreamInv(c)'
      BY <1>1, <2>2 DEF StreamInv
    <3>2. /\ IsStream(sent[c], wire[c]) /\ Complete(sent[c], wire[c])
          /\ InPlace(c, Len(got[c])) /\ Heard(c)
      BY <1>t, <3>1 DEF StreamInv
    <3>3. Len(got[c]) \in Nat /\ Len(sent[c]) \in Nat /\ size[c] \in Nat /\ Hdr > 0
      BY <1>t, ClientTypes, NumbersAssumption
    <3> PICK k \in Nat : k = Len(got[c])  BY <3>3
    <3>4. CASE n = 0
      <4>1. thread[c] = "payload" /\ size[c] = 0  BY <3>3, <3>4 DEF Receives
      <4>2. k + 1 <= Len(sent[c]) /\ sent[c][k + 1] = 0  BY <3>2, <4>1 DEF InPlace
      <4>3. InPlace(c, k)'  BY <1>1, <1>2, <4>2 DEF InPlace
      <4>4. Heard(c)'  BY <1>1, <3>2 DEF Heard, Whole
      <4> QED BY <1>1, <3>2, <4>3, <4>4 DEF StreamInv
    <3>5. CASE Ended(c) /\ wire[c] = <<>>
      <4>1. CASE thread[c] = "size"
        <5>1. Len(sent[c]) + 1 = k + 1  BY <3>2, <3>5, <4>1 DEF InPlace, Begins
        <5>2. k = Len(sent[c])  BY <3>3, <5>1
        <5>3. InPlace(c, k)'  BY <1>1, <1>2, <3>5, <5>2 DEF InPlace, Ended
        <5>4. Heard(c)'  BY <1>1, <3>2 DEF Heard, Whole
        <5> QED BY <1>1, <3>2, <5>3, <5>4 DEF StreamInv
      <4>2. CASE thread[c] = "payload"
        <5>1. ~(size[c] > 0)  BY <3>2, <3>5, <4>2 DEF InPlace
        <5>2. size[c] = 0  BY <3>3, <5>1
        <5>3. k + 1 <= Len(sent[c]) /\ sent[c][k + 1] = 0
          BY <3>2, <4>2, <5>2 DEF InPlace
        <5>4. InPlace(c, k)'  BY <1>1, <1>2, <5>3 DEF InPlace
        <5>5. Heard(c)'  BY <1>1, <3>2 DEF Heard, Whole
        <5> QED BY <1>1, <3>2, <5>4, <5>5 DEF StreamInv
      <4> QED BY <4>1, <4>2 DEF Receives
    <3> QED BY <1>1, <3>4, <3>5
  <2> QED BY <2>1, <2>2
<1> QED BY <1>4, <1>6, <1>7, <1>8 DEF RpcInv

\* A receive of all n bytes.
LEMMA RecvAllTakes ==
  ASSUME SimpleTypeOK, NEW c \in Client, NEW n \in Nat, RecvAll(c, n)
  PROVE  /\ n \in 1..Len(wire[c]) /\ wire[c] # <<>>
         /\ wire' \in [Client -> Seq(Byte)]
         /\ Took(wire[c], n, wire'[c])
         /\ \A d \in Client : d # c => wire'[d] = wire[d]
         /\ SubSeq(wire[c], 1, n) \in Seq(Byte) /\ Len(SubSeq(wire[c], 1, n)) = n
         /\ \A i \in 1..n : SubSeq(wire[c], 1, n)[i] = wire[c][i]
<1>1. wire[c] \in Seq(Byte) /\ Len(wire[c]) \in Nat  BY ClientTypes
<1>2. n > 0 /\ n <= Len(wire[c]) /\ n \in 1..Len(wire[c])  BY <1>1 DEF RecvAll
<1> PICK t : t = SubSeq(wire[c], n + 1, Len(wire[c]))  OBVIOUS
<1>3. /\ t \in Seq(Byte) /\ Len(t) = Len(wire[c]) - n
      /\ \A i \in 1..(Len(wire[c]) - n) : t[i] = wire[c][n + i]
  BY <1>1, <1>2
<1>4. wire' = [wire EXCEPT ![c] = t]  BY DEF RecvAll
<1>5. wire' \in [Client -> Seq(Byte)] /\ wire'[c] = t /\ \A d \in Client : d # c => wire'[d] = wire[d]
  BY <1>3, <1>4 DEF SimpleTypeOK
<1>6. Took(wire[c], n, wire'[c])  BY <1>3, <1>5 DEF Took
<1>7. /\ SubSeq(wire[c], 1, n) \in Seq(Byte) /\ Len(SubSeq(wire[c], 1, n)) = n
      /\ \A i \in 1..n : SubSeq(wire[c], 1, n)[i] = wire[c][i]
  BY <1>1, <1>2
<1>8. wire[c] # <<>>  BY <1>1, <1>2, EmptySeq
<1> QED BY <1>2, <1>5, <1>6, <1>7, <1>8

\* A size that is read is that of the next message.
LEMMA SizeTaken ==
  ASSUME Up, NEW c \in Client, ~short[c], thread[c] = "size", RecvAll(c, Hdr),
         NEW n, n \in SizeFields(SubSeq(wire[c], 1, Hdr)),
         size'[c] = n, thread'[c] = "payload", UNCHANGED <<got, sent, peer>>
  PROVE  /\ IsStream(sent'[c], wire'[c]) /\ Complete(sent'[c], wire'[c])
         /\ InPlace(c, Len(got[c]))' /\ Heard(c)'
<1>t. SimpleTypeOK /\ StreamInv(c)  BY DEF Up, RpcInv
<1>0. /\ IsStream(sent[c], wire[c]) /\ Complete(sent[c], wire[c])
      /\ InPlace(c, Len(got[c])) /\ Heard(c)
  BY <1>t DEF StreamInv
<1>1. /\ sent[c] \in Seq(Nat) /\ wire[c] \in Seq(Byte) /\ Len(wire[c]) \in Nat
      /\ Len(got[c]) \in Nat /\ Len(sent[c]) \in Nat
  BY <1>t, ClientTypes
<1>h. Hdr \in Nat /\ Hdr > 0  BY NumbersAssumption
<1> PICK k \in Nat : k = Len(got[c])  BY <1>1
<1> PICK b : b = SubSeq(wire[c], 1, Hdr)  OBVIOUS
<1>2. /\ Hdr \in 1..Len(wire[c]) /\ wire[c] # <<>> /\ Took(wire[c], Hdr, wire'[c])
      /\ \A i \in 1..Hdr : b[i] = wire[c][i]
  BY <1>t, <1>h, RecvAllTakes
<1>3. wire[c][1].msg = k + 1 /\ wire[c][1].at = 1
  BY <1>0, <1>2 DEF InPlace, Begins
<1>4. /\ k + 1 \in 1..Len(sent[c])
      /\ \A i \in 1..Len(wire[c]) : 1 + i <= End(sent[c], k + 1) + 1 =>
           /\ wire[c][i].msg = k + 1 /\ wire[c][i].at = 1 + (i - 1)
           /\ wire[c][i].size = sent[c][k + 1]
  <2>1. RestIs(sent[c], wire[c], k + 1, 1)  BY <1>0, <1>1, <1>2, <1>3, RestOfFrame
  <2> QED BY <2>1 DEF RestIs
<1>5. /\ End(sent[c], k + 1) = Hdr + sent[c][k + 1] /\ sent[c][k + 1] \in Nat
      /\ End(sent[c], k + 1) \in Nat
  BY <1>1, <1>4, EndType
<1>6. \A i \in 1..Hdr : b[i].at = i /\ b[i].size = sent[c][k + 1]
  <2>1. ASSUME NEW i \in 1..Hdr
        PROVE  i \in 1..Len(wire[c]) /\ 1 + i <= End(sent[c], k + 1) + 1 /\ 1 + (i - 1) = i
    <3>1. i \in Nat /\ i <= Hdr /\ Hdr <= Len(wire[c]) /\ i >= 1  BY <1>1, <1>2, <1>h
    <3>2. \A h, m, e \in Nat : e = h + m => 1 + h <= e + 1  OBVIOUS
    <3>3. 1 + Hdr <= End(sent[c], k + 1) + 1  BY <1>5, <1>h, <3>2
    <3>n. End(sent[c], k + 1) \in Nat /\ Len(wire[c]) \in Nat  BY <1>1, <1>5
    <3> QED BY <1>h, <3>n, <3>1, <3>3
  <2> QED BY <1>2, <1>4, <2>1
<1>7. n = sent[c][k + 1]
  <2>1. 1 \in 1..Hdr  BY <1>h
  <2> QED BY <1>6, <2>1 DEF SizeFields
<1>8. IsStream(sent[c], wire'[c]) /\ Complete(sent[c], wire'[c])
  BY <1>0, <1>1, <1>2, StreamDrop
<1>9. n > 0 => wire'[c] # <<>> /\ wire'[c][1].msg = k + 1 /\ wire'[c][1].at = Hdr + 1
  <2>0. NextIs(sent[c], k + 1, 1, Hdr, wire'[c])
    BY <1>0, <1>1, <1>2, <1>3, AfterBytes
  <2>1. 1 + Hdr <= End(sent[c], k + 1) =>
          wire'[c] # <<>> /\ wire'[c][1].msg = k + 1 /\ wire'[c][1].at = 1 + Hdr
    BY <2>0 DEF NextIs
  <2>2. n > 0 => 1 + Hdr <= End(sent[c], k + 1)  BY <1>5, <1>7, <1>h
  <2>3. 1 + Hdr = Hdr + 1  BY <1>h
  <2> QED BY <2>1, <2>2, <2>3
<1>10. k + 1 <= Len(sent[c])  BY <1>4
<1>11. InPlace(c, k)'  BY <1>7, <1>9, <1>10 DEF InPlace
<1>12. Heard(c)'  BY <1>0 DEF Heard, Whole
<1> QED BY <1>8, <1>11, <1>12

LEMMA ReadSizeKeeps ==
  ASSUME Up, NEW c \in Client, ReadSize(c)
  PROVE  RpcInv'
<1>t. SimpleTypeOK /\ SocketsInv /\ \A d \in Client : StreamInv(d)  BY DEF Up, RpcInv
<1>h. Hdr \in Nat /\ Hdr > 0  BY NumbersAssumption
<1>1. ASSUME RecvAll(c, Hdr), NEW n \in SizeFields(SubSeq(wire[c], 1, Hdr)),
             size' = [size EXCEPT ![c] = n],
             thread' = [thread EXCEPT ![c] = "payload"],
             UNCHANGED <<limit, server, fds, valid, clean, got, peer, sent, short, replies>>
      PROVE  RpcInv'
  <2>0. thread[c] = "size"  BY DEF ReadSize
  <2>1. /\ wire' \in [Client -> Seq(Byte)] /\ \A d \in Client : d # c => wire'[d] = wire[d]
        /\ SubSeq(wire[c], 1, Hdr) \in Seq(Byte) /\ Len(SubSeq(wire[c], 1, Hdr)) = Hdr
    BY <1>t, <1>1, <1>h, RecvAllTakes
  <2>2. n \in Nat
    <3>1. SubSeq(wire[c], 1, Hdr)[1] \in Byte  BY <1>h, <2>1, ElementOfSeq
    <3>2. SubSeq(wire[c], 1, Hdr)[1].size \in Nat  BY <3>1 DEF Byte
    <3> QED BY <1>1, <3>2, SizesAssumption DEF SizeFields
  <2>3. SimpleTypeOK'  BY <1>t, <1>1, <2>1, <2>2 DEF SimpleTypeOK
  <2>4. /\ \A d \in Client : thread'[d] = IF d = c THEN "payload" ELSE thread[d]
        /\ \A d \in Client : size'[d] = IF d = c THEN n ELSE size[d]
    BY <1>t, <1>1 DEF SimpleTypeOK
  <2>5. SocketsInv'
    <3>1. fds' = {d \in Client : thread'[d] # "none"}  BY <1>t, <1>1, <2>0, <2>4 DEF SocketsInv
    <3> QED BY <1>t, <1>1, <2>0, <2>4, <3>1 DEF SocketsInv
  <2>6. TerminatesOnlyIf'  BY <1>1 DEF TerminatesOnlyIf, Up
  <2>7. ASSUME NEW d \in Client PROVE StreamInv(d)'
    <3>1. CASE d # c
      <4>1. thread'[d] = thread[d] /\ size'[d] = size[d] /\ wire'[d] = wire[d]
        BY <2>1, <2>4, <3>1
      <4> QED BY <1>t, <1>1, <4>1, StreamKept DEF Ended
    <3>2. CASE d = c
      <4>1. SUFFICES ASSUME ~short[c] PROVE StreamInv(c)'
        BY <1>1, <3>2 DEF StreamInv
      <4>2. thread'[c] = "payload" /\ size'[c] = n  BY <2>4
      <4>3. /\ IsStream(sent'[c], wire'[c]) /\ Complete(sent'[c], wire'[c])
            /\ InPlace(c, Len(got[c]))' /\ Heard(c)'
        BY <1>1, <2>0, <4>1, <4>2, SizeTaken
      <4> QED BY <4>3 DEF StreamInv
    <3> QED BY <3>1, <3>2
  <2> QED BY <2>3, <2>5, <2>6, <2>7 DEF RpcInv
<1>2. ASSUME RecvZero(c, Hdr), Caught PROVE RpcInv'
  BY <1>2, RecvZeroKeeps DEF ReadSize, Receives
<1>3. ASSUME RecvFails(c, Hdr) PROVE RpcInv'
  BY <1>3, RecvFailsKeeps DEF ReadSize, Receives
<1> QED BY <1>1, <1>2, <1>3 DEF ReadSize, clientVars

\* A message that is read is the next one, whole.
LEMMA MessageTaken ==
  ASSUME Up, NEW c \in Client, ~short[c], thread[c] = "payload", RecvAll(c, size[c]),
         got'[c] = Append(got[c], SubSeq(wire[c], 1, size[c])),
         thread'[c] = "deliver", UNCHANGED <<size, sent, peer>>
  PROVE  /\ IsStream(sent'[c], wire'[c]) /\ Complete(sent'[c], wire'[c])
         /\ InPlace(c, Len(got[c]))' /\ Heard(c)'
<1>t. SimpleTypeOK /\ StreamInv(c)  BY DEF Up, RpcInv
<1>0. /\ IsStream(sent[c], wire[c]) /\ Complete(sent[c], wire[c])
      /\ InPlace(c, Len(got[c])) /\ Heard(c)
  BY <1>t DEF StreamInv
<1>1. /\ sent[c] \in Seq(Nat) /\ wire[c] \in Seq(Byte) /\ Len(wire[c]) \in Nat
      /\ got[c] \in Seq(Seq(Byte)) /\ Len(got[c]) \in Nat /\ Len(sent[c]) \in Nat
      /\ size[c] \in Nat
  BY <1>t, ClientTypes
<1>h. Hdr \in Nat  BY NumbersAssumption
<1> PICK k \in Nat : k = Len(got[c])  BY <1>1
<1> PICK n \in Nat : n = size[c]  BY <1>1
<1>b. PICK b : b = SubSeq(wire[c], 1, n)  OBVIOUS
<1>2. /\ n \in 1..Len(wire[c]) /\ wire[c] # <<>> /\ Took(wire[c], n, wire'[c])
      /\ b \in Seq(Byte) /\ Len(b) = n /\ \A i \in 1..n : b[i] = wire[c][i]
  BY <1>t, <1>b, RecvAllTakes
<1>3. n > 0  BY <1>2
<1>4. /\ k + 1 <= Len(sent[c]) /\ n = sent[c][k + 1]
      /\ wire[c][1].msg = k + 1 /\ wire[c][1].at = Hdr + 1
  BY <1>0, <1>3 DEF InPlace
<1>5. /\ k + 1 \in 1..Len(sent[c])
      /\ \A i \in 1..Len(wire[c]) : (Hdr + 1) + i <= End(sent[c], k + 1) + 1 =>
           /\ wire[c][i].msg = k + 1 /\ wire[c][i].at = (Hdr + 1) + (i - 1)
           /\ wire[c][i].size = sent[c][k + 1]
  <2>1. RestIs(sent[c], wire[c], k + 1, Hdr + 1)
    BY <1>0, <1>1, <1>2, <1>4, RestOfFrame
  <2> QED BY <2>1 DEF RestIs
<1>6. (Hdr + 1) + n = End(sent[c], k + 1) + 1
  <2>1. (Hdr + 1) + sent[c][k + 1] = End(sent[c], k + 1) + 1
    BY <1>1, <1>5, EndType, Zenon
  <2> QED BY <1>4, <2>1, Zenon
<1>7. b = Whole(c, k + 1)
  <2>1. ASSUME NEW i \in 1..n
        PROVE  b[i] = [msg |-> k + 1, at |-> Hdr + i, size |-> n]
    <3>0. i \in 1..Len(wire[c]) /\ i <= n /\ (Hdr + 1) + (i - 1) = Hdr + i
      BY <1>1, <1>2, <1>h
    <3>1. /\ i \in 1..Len(wire[c]) /\ (Hdr + 1) + i <= End(sent[c], k + 1) + 1
          /\ (Hdr + 1) + (i - 1) = Hdr + i
      BY <1>1, <1>6, <1>h, <3>0
    <3>2. b[i].msg = k + 1 /\ b[i].at = Hdr + i /\ b[i].size = n
      BY <1>2, <1>4, <1>5, <1>6, <3>1
    <3>3. b[i] \in Byte  BY <1>2, ElementOfSeq
    <3> QED BY <3>2, <3>3 DEF Byte
  <2>2. b = [i \in 1..n |-> b[i]]  BY <1>2
  <2>3. b = [i \in 1..n |-> [msg |-> k + 1, at |-> Hdr + i, size |-> n]]
    BY <2>1, <2>2
  <2> QED BY <1>4, <2>3 DEF Whole
<1>8. IsStream(sent[c], wire'[c]) /\ Complete(sent[c], wire'[c])
  <2>1. n \in 0..Len(wire[c])  BY <1>2
  <2> QED BY <1>0, <1>1, <1>2, <2>1, StreamDrop
<1>9. Begins(sent[c], wire'[c], (k + 1) + 1)
  <2>1. NextIs(sent[c], k + 1, Hdr + 1, n, wire'[c])
    BY <1>0, <1>1, <1>2, <1>4, AfterBytes
  <2> QED BY <1>6, <2>1 DEF NextIs
<1>10. /\ Len(got'[c]) = k + 1 /\ got'[c][k + 1] = b
       /\ \A i \in 1..k : got'[c][i] = got[c][i]
  BY <1>1, <1>2, <1>b, AppendProperties
<1>11. InPlace(c, k + 1)'  BY <1>9 DEF InPlace
<1>12. Heard(c)'
  <2>1. Whole(c, k + 1)' = Whole(c, k + 1)  BY DEF Whole
  <2>2. ASSUME NEW i \in 1..(k + 1) PROVE sent'[c][i] > 0 /\ got'[c][i] = Whole(c, i)'
    <3>1. CASE i = k + 1  BY <1>3, <1>4, <1>7, <1>10, <2>1, <3>1
    <3>2. CASE i # k + 1
      <4>1. i \in 1..k  BY <3>2
      <4>2. sent[c][i] > 0 /\ got[c][i] = Whole(c, i)  BY <1>0, <4>1 DEF Heard
      <4>3. Whole(c, i)' = Whole(c, i)  BY DEF Whole
      <4> QED BY <1>10, <4>1, <4>2, <4>3
    <3> QED BY <3>1, <3>2
  <2> QED BY <1>4, <1>10, <2>2 DEF Heard
<1> QED BY <1>8, <1>10, <1>11, <1>12

LEMMA ReadPayloadKeeps ==
  ASSUME Up, NEW c \in Client, ReadPayload(c)
  PROVE  RpcInv'
<1>t. SimpleTypeOK /\ SocketsInv /\ \A d \in Client : StreamInv(d)  BY DEF Up, RpcInv
<1>0. thread[c] = "payload" /\ size[c] \in Nat /\ got[c] \in Seq(Seq(Byte))
  BY <1>t, ClientTypes DEF ReadPayload
<1>1. ASSUME RecvAll(c, size[c]),
             got' = [got EXCEPT ![c] = Append(got[c], SubSeq(wire[c], 1, size[c]))],
             thread' = [thread EXCEPT ![c] = "deliver"],
             UNCHANGED <<limit, server, fds, valid, clean, size, peer, sent, short, replies>>
      PROVE  RpcInv'
  <2>1. /\ wire' \in [Client -> Seq(Byte)] /\ \A d \in Client : d # c => wire'[d] = wire[d]
        /\ SubSeq(wire[c], 1, size[c]) \in Seq(Byte)
    BY <1>t, <1>0, <1>1, RecvAllTakes
  <2>2. got' \in [Client -> Seq(Seq(Byte))]
    <3>1. Append(got[c], SubSeq(wire[c], 1, size[c])) \in Seq(Seq(Byte))
      BY <1>0, <2>1, AppendProperties
    <3> QED BY <1>t, <1>1, <3>1 DEF SimpleTypeOK
  <2>3. SimpleTypeOK'  BY <1>t, <1>1, <2>1, <2>2 DEF SimpleTypeOK
  <2>4. /\ \A d \in Client : thread'[d] = IF d = c THEN "deliver" ELSE thread[d]
        /\ \A d \in Client : d # c => got'[d] = got[d]
        /\ got'[c] = Append(got[c], SubSeq(wire[c], 1, size[c]))
    BY <1>t, <1>1 DEF SimpleTypeOK
  <2>5. SocketsInv'
    <3>1. fds' = {d \in Client : thread'[d] # "none"}  BY <1>t, <1>0, <1>1, <2>4 DEF SocketsInv
    <3> QED BY <1>t, <1>0, <1>1, <2>4, <3>1 DEF SocketsInv
  <2>6. TerminatesOnlyIf'  BY <1>1 DEF TerminatesOnlyIf, Up
  <2>7. ASSUME NEW d \in Client PROVE StreamInv(d)'
    <3>1. CASE d # c
      <4>1. thread'[d] = thread[d] /\ got'[d] = got[d] /\ wire'[d] = wire[d]
        BY <2>1, <2>4, <3>1
      <4> QED BY <1>t, <1>1, <4>1, StreamKept DEF Ended
    <3>2. CASE d = c
      <4>1. SUFFICES ASSUME ~short[c] PROVE StreamInv(c)'
        BY <1>1, <3>2 DEF StreamInv
      <4>2. thread'[c] = "deliver"  BY <2>4
      <4>3. /\ IsStream(sent'[c], wire'[c]) /\ Complete(sent'[c], wire'[c])
            /\ InPlace(c, Len(got[c]))' /\ Heard(c)'
        BY <1>0, <1>1, <2>4, <4>1, <4>2, MessageTaken
      <4> QED BY <4>3 DEF StreamInv
    <3> QED BY <3>1, <3>2
  <2> QED BY <2>3, <2>5, <2>6, <2>7 DEF RpcInv
<1>2. ASSUME RecvZero(c, size[c]), Caught PROVE RpcInv'
  BY <1>0, <1>2, RecvZeroKeeps DEF Receives
<1>3. ASSUME RecvFails(c, size[c]) PROVE RpcInv'
  BY <1>0, <1>3, RecvFailsKeeps DEF Receives
<1> QED BY <1>1, <1>2, <1>3 DEF ReadPayload, clientVars

\* The stream of a thread that goes from deliver_new_event back to its loop.
LEMMA DeliveredStream ==
  ASSUME NEW c \in Client, StreamInv(c), thread[c] = "deliver", thread'[c] = "size",
         UNCHANGED <<size, got, sent, short, wire>>
  PROVE  StreamInv(c)'
<1>1. InPlace(c, Len(got[c])) => InPlace(c, Len(got[c]))'  BY DEF InPlace
<1>2. Heard(c) => Heard(c)'  BY DEF Heard, Whole
<1> QED BY <1>1, <1>2 DEF StreamInv

\* A reply only sends the socket from valid to not valid if it was reset.
LEMMA DeliverKeeps ==
  ASSUME Up, NEW c \in Client, Deliver(c)
  PROVE  RpcInv'
<1>t. SimpleTypeOK /\ SocketsInv /\ \A d \in Client : StreamInv(d)  BY DEF Up, RpcInv
<1>0. thread[c] = "deliver" /\ UNCHANGED <<limit, fds, clean, size, got, sent, short, wire>>
  BY DEF Deliver
<1>1. ASSUME thread' = [thread EXCEPT ![c] = "size"], UNCHANGED server,
             SimpleTypeOK', \A d \in Client : Ended(d) => Ended(d)',
             \A d \in Client : d # c => valid'[d] = valid[d],
             \A d \in Client : peer[d] = "reset" => peer'[d] = "reset",
             valid'[c] \/ peer'[c] = "reset"
      PROVE  RpcInv'
  <2>1. \A d \in Client : thread'[d] = IF d = c THEN "size" ELSE thread[d]
    BY <1>t, <1>1 DEF SimpleTypeOK
  <2>2. SocketsInv'
    <3>1. fds' = {d \in Client : thread'[d] # "none"}  BY <1>t, <1>0, <2>1 DEF SocketsInv
    <3> QED BY <1>t, <1>1, <2>1, <3>1 DEF SocketsInv
  <2>3. TerminatesOnlyIf'  BY <1>1 DEF TerminatesOnlyIf, Up
  <2>4. ASSUME NEW d \in Client PROVE StreamInv(d)'
    <3>1. CASE d # c
      <4>1. thread'[d] = thread[d]  BY <2>1, <3>1
      <4> QED BY <1>t, <1>0, <1>1, <4>1, StreamKept
    <3>2. CASE d = c
      <4>1. thread'[c] = "size"  BY <2>1
      <4> QED BY <1>t, <1>0, <3>2, <4>1, DeliveredStream
    <3> QED BY <3>1, <3>2
  <2> QED BY <1>1, <2>2, <2>3, <2>4 DEF RpcInv
<1>2. CASE /\ valid[c] /\ peer[c] = "open" /\ replies' = [replies EXCEPT ![c] = replies[c] + 1]
           /\ thread' = [thread EXCEPT ![c] = "size"] /\ UNCHANGED <<server, valid, peer>>
  <2>1. replies[c] + 1 \in Nat  BY <1>t DEF SimpleTypeOK
  <2>2. SimpleTypeOK'  BY <1>t, <1>0, <1>2, <2>1 DEF SimpleTypeOK
  <2> QED BY <1>1, <1>2, <2>2 DEF Ended
<1>3. CASE /\ valid[c] /\ peer[c] = "closed" /\ peer' = [peer EXCEPT ![c] = "reset"]
           /\ thread' = [thread EXCEPT ![c] = "size"] /\ UNCHANGED <<server, valid, replies>>
  <2>1. SimpleTypeOK'  BY <1>t, <1>0, <1>3 DEF SimpleTypeOK
  <2>2. \A d \in Client : peer'[d] = IF d = c THEN "reset" ELSE peer[d]
    BY <1>t, <1>3 DEF SimpleTypeOK
  <2> QED BY <1>1, <1>3, <2>1, <2>2 DEF Ended
<1>4. CASE /\ valid[c] /\ peer[c] = "reset" /\ valid' = [valid EXCEPT ![c] = FALSE]
           /\ thread' = [thread EXCEPT ![c] = "size"] /\ UNCHANGED <<server, peer, replies>>
  <2>1. SimpleTypeOK'  BY <1>t, <1>0, <1>4 DEF SimpleTypeOK
  <2>2. \A d \in Client : d # c => valid'[d] = valid[d]
    BY <1>t, <1>4 DEF SimpleTypeOK
  <2> QED BY <1>1, <1>4, <2>1, <2>2 DEF Ended
<1>5. CASE /\ (~valid[c] \/ peer[c] = "reset") /\ server' = "terminated"
           /\ UNCHANGED <<thread, valid, peer, replies>>
  <2>0. server' = "terminated" /\ UNCHANGED <<thread, valid, peer, replies>>
    BY <1>5
  <2>1. SimpleTypeOK'  BY <1>t, <1>0, <2>0 DEF SimpleTypeOK
  <2>2. SocketsInv'  BY <1>t, <1>0, <2>0 DEF SocketsInv
  <2>3. peer'[c] = "reset"  BY <1>t, <1>0, <1>5, <2>0 DEF SocketsInv
  <2>4. TerminatesOnlyIf'  BY <2>3 DEF TerminatesOnlyIf
  <2>5. \A d \in Client : StreamInv(d)'  BY <1>t, <1>0, <2>0, StreamKept DEF Ended
  <2> QED BY <2>1, <2>2, <2>4, <2>5 DEF RpcInv
<1> QED BY <1>2, <1>3, <1>4, <1>5 DEF Deliver

LEMMA RpcInit == Init => RpcInv
<1> SUFFICES ASSUME Init PROVE RpcInv  OBVIOUS
<1>1. limit \in Nat  BY NumbersAssumption DEF Init
<1>2. SimpleTypeOK  BY <1>1, EmptySeq DEF Init, SimpleTypeOK
<1>3. SocketsInv  BY DEF Init, SocketsInv
<1>4. TerminatesOnlyIf  BY DEF Init, TerminatesOnlyIf
<1>5. ASSUME NEW c \in Client PROVE StreamInv(c)
  <2>1. /\ sent[c] = <<>> /\ wire[c] = <<>> /\ got[c] = <<>> /\ thread[c] = "none"
    BY DEF Init
  <2>2. Len(sent[c]) = 0 /\ Len(wire[c]) = 0 /\ Len(got[c]) = 0  BY <2>1
  <2>3. IsStream(sent[c], wire[c]) /\ Complete(sent[c], wire[c])
    BY <2>1, <2>2 DEF IsStream, Complete
  <2>4. InPlace(c, Len(got[c]))  BY <2>1, <2>2 DEF InPlace, Begins
  <2>5. Heard(c)  BY <2>2 DEF Heard
  <2> QED BY <2>3, <2>4, <2>5 DEF StreamInv
<1> QED BY <1>2, <1>3, <1>4, <1>5 DEF RpcInv

LEMMA RpcStep == RpcInv /\ [Next]_vars => RpcInv'
<1>1. ASSUME RpcInv, UNCHANGED vars PROVE RpcInv'
  <2>1. UNCHANGED <<limit, server, thread, fds, valid, clean, size, got, peer, sent, short, wire, replies>>
    BY <1>1 DEF vars, serverVars, clientVars
  <2>2. SimpleTypeOK'  BY <1>1, <2>1 DEF RpcInv, SimpleTypeOK
  <2>3. SocketsInv'  BY <1>1, <2>1 DEF RpcInv, SocketsInv
  <2>4. TerminatesOnlyIf'  BY <1>1, <2>1 DEF RpcInv, TerminatesOnlyIf
  <2>5. \A c \in Client : StreamInv(c)'  BY <1>1, <2>1, StreamKept DEF RpcInv, Ended
  <2> QED BY <2>2, <2>3, <2>4, <2>5 DEF RpcInv
<1>2. ASSUME RpcInv, Acceptor PROVE RpcInv'
  BY <1>2, AcceptKeeps, AcceptFailsKeeps DEF Acceptor, Up
<1>3. ASSUME RpcInv, NEW c \in Client, Thread(c) PROVE RpcInv'
  BY <1>3, ReadSizeKeeps, ReadPayloadKeeps, DeliverKeeps DEF Thread, Up
<1>4. ASSUME RpcInv, NEW c \in Client, User(c) PROVE RpcInv'
  BY <1>4, ConnectKeeps, CloseKeeps, SendKeeps DEF User, Up
<1>5. ASSUME RpcInv, NEW c \in Client, Answered(c) PROVE RpcInv'
  BY <1>5, ReplyKeeps DEF Answered, Up
<1> QED BY <1>1, <1>2, <1>3, <1>4, <1>5 DEF Next

----------------------------------------------------------------------------
(* The theorems.                                                           *)

\* A set of numbers has a least one.
LEMMA LeastNumber ==
  ASSUME NEW S \in SUBSET Nat, S # {}
  PROVE  \E x \in S : \A y \in S : x <= y
<1>1. IsWellFoundedOn(OpToRel(<, Nat), Nat)  BY NatLessThanWellFounded
<1>2. \E x \in S : \A y \in S : ~(<<y, x>> \in OpToRel(<, Nat))  BY <1>1, WFMin
<1>3. PICK x \in S : \A y \in S : ~(y < x)  BY <1>2 DEF OpToRel
<1>4. \A y \in S : x <= y
  <2>1. \A y \in S : y \in Nat /\ x \in Nat  OBVIOUS
  <2> QED BY <1>3, <2>1
<1> QED BY <1>4

\* The messages that are no longer read begin with the first of size 0.
LEMMA ReadableUpTo ==
  ASSUME SimpleTypeOK, NEW c \in Client, NEW k \in Nat, k <= Len(sent[c]),
         \A j \in 1..k : sent[c][j] > 0
  PROVE  /\ Readable(c) \in Nat /\ k <= Readable(c)
         /\ k = Len(sent[c]) => Readable(c) = k
         /\ k + 1 <= Len(sent[c]) /\ sent[c][k + 1] = 0 => Readable(c) = k
<1> DEFINE zeros == {j \in 1..Len(sent[c]) : sent[c][j] = 0}
           least == CHOOSE j \in zeros : \A i \in zeros : j <= i
<1>1. Len(sent[c]) \in Nat  BY ClientTypes
<1>2. \A j \in zeros : j \in Nat /\ j <= Len(sent[c]) /\ k + 1 <= j
  <2>1. ASSUME NEW j \in zeros, ~(k + 1 <= j) PROVE FALSE
    <3>1. j \in 1..k  BY <1>1, <2>1
    <3>2. sent[c][j] > 0 /\ sent[c][j] = 0  BY <2>1, <3>1
    <3> QED BY <3>2
  <2> QED BY <1>1, <2>1
<1>3. Readable(c) = IF zeros = {} THEN Len(sent[c]) ELSE least - 1
  BY DEF Readable
<1>4. zeros # {} => least \in zeros /\ \A i \in zeros : least <= i
  <2>1. zeros \in SUBSET Nat  BY <1>2
  <2> HIDE DEF zeros
  <2>2. zeros # {} => \E j \in zeros : \A i \in zeros : j <= i  BY <2>1, LeastNumber
  <2> QED BY <2>2
<1> HIDE DEF least
<1>5. k + 1 <= Len(sent[c]) /\ sent[c][k + 1] = 0 => k + 1 \in zeros
  BY <1>1
<1>6. k = Len(sent[c]) => zeros = {}
  <2>1. ASSUME NEW j \in zeros, k = Len(sent[c]) PROVE FALSE
    BY <1>1, <1>2, <2>1
  <2> QED BY <2>1
<1> HIDE DEF zeros
<1>7. CASE zeros = {}  BY <1>1, <1>3, <1>5, <1>7
<1>8. CASE zeros # {}
  <2>1. least \in Nat /\ k + 1 <= least /\ Readable(c) = least - 1
    BY <1>2, <1>3, <1>4, <1>8
  <2>2. k + 1 \in zeros => least <= k + 1  BY <1>4, <1>8
  <2> QED BY <1>1, <1>5, <1>6, <1>8, <2>1, <2>2
<1> QED BY <1>7, <1>8

\* deliver_new_event is given the client's messages, each with all its bytes and
\* no other, in order and once, unless a sendmsg was cut short
\* (simple_rpc.cpp 21-31 against 93-100).
THEOREM DeliversWhole == Spec => []DeliveredWhole
<1>1. ASSUME RpcInv, NEW c \in Client, ~short[c]
      PROVE  /\ Len(got[c]) <= Readable(c)
             /\ \A k \in 1..Len(got[c]) : got[c][k] = Whole(c, k)
  <2>1. SimpleTypeOK /\ Heard(c)  BY <1>1 DEF RpcInv, StreamInv
  <2>2. Len(got[c]) \in Nat  BY <2>1, ClientTypes
  <2>3. Len(got[c]) <= Readable(c)  BY <2>1, <2>2, ReadableUpTo DEF Heard
  <2> QED BY <2>1, <2>3 DEF Heard
<1>2. RpcInv => DeliveredWhole  BY <1>1 DEF DeliveredWhole
<1> QED BY <1>2, RpcInit, RpcStep, PTL DEF Spec

\* A thread that ended had given the user every message the client sent before
\* it closed, or before the message of size 0 (simple_rpc.cpp 96-107,
\* Socket.cpp 133-153).
THEOREM EndedHeard == Spec => []EndedHeardAll
<1>1. ASSUME RpcInv, NEW c \in Client, thread[c] = "ended", ~short[c]
      PROVE  Len(got[c]) = Readable(c)
  <2>1. SimpleTypeOK /\ Heard(c) /\ InPlace(c, Len(got[c]))
    BY <1>1 DEF RpcInv, StreamInv
  <2>2. Len(got[c]) \in Nat  BY <2>1, ClientTypes
  <2>3. \/ Len(got[c]) + 1 <= Len(sent[c]) /\ sent[c][Len(got[c]) + 1] = 0
        \/ Len(got[c]) = Len(sent[c])
    BY <1>1, <2>1 DEF InPlace
  <2> QED BY <2>1, <2>2, <2>3, ReadableUpTo DEF Heard
<1>2. RpcInv => EndedHeardAll  BY <1>1 DEF EndedHeardAll
<1> QED BY <1>2, RpcInit, RpcStep, PTL DEF Spec

\* One connection ends the process of all only if it was reset or a sendmsg was
\* cut short on it, or when so many connections have been that no descriptor is
\* left (simple_rpc.cpp 105-108, Socket.cpp 14-20 and 143-149, ServerSocket.cpp
\* 60-95).
THEOREM TerminationJustified == Spec => []TerminatesOnlyIf
<1>1. RpcInv => TerminatesOnlyIf  BY DEF RpcInv
<1> QED BY <1>1, RpcInit, RpcStep, PTL DEF Spec
=============================================================================
