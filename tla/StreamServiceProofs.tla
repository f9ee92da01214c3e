------------------------ MODULE StreamServiceProofs ------------------------
(***************************************************************************)
(* No stream loses a payload before it ends (NoLoss), and every stream     *)
(* keeps the promises of StreamLines (PromisesKept): for any number of     *)
(* streams, any bounds and any capacities.  Where writes do not give up,   *)
(* no live stream is refused either, and EOF means all (EOFAfterClose).    *)
(*                                                                         *)
(* FlowInv says what the end of a stream has to do with the payloads on    *)
(* their way.  With the invariants of the other proofs it shows what each  *)
(* step does to what may still be received on each line (MoveOn), and that *)
(* each step of MessageConn is a step of StreamLines, or none.             *)
(***************************************************************************)
EXTENDS StreamService, MessageConnStageProofs

\* The frames by which a sender ends a stream.
IsFin(f, i) == f.id = i /\ f.flag \in {"closewrite", "close"}

\* A frame f may come before a frame g on the way of stream i, whose sender
\* had sent n payloads when it ended the stream.
MayPrecede(f, g, i, n) == IsFin(f, i) /\ IsData(g, i) => n # -1 /\ n < g.seq
Arranged(q, i, n) == \A j, k \in DOMAIN q : j < k => MayPrecede(q[j], q[k], i, n)
Apart(q, r, i, n) == \A j \in DOMAIN q, k \in DOMAIN r : MayPrecede(q[j], r[k], i, n)
NoFins(q, i) == \A k \in DOMAIN q : ~IsFin(q[k], i)

\* recvCh, the loop's hands and the wire, as in Ordered.
Finishes(rq, h, w, i, n) ==
  /\ Arranged(rq, i, n) /\ Arranged(h, i, n) /\ Arranged(w, i, n)
  /\ Apart(rq, h, i, n) /\ Apart(rq, w, i, n) /\ Apart(h, w, i, n)
  /\ n = -1 => NoFins(rq, i) /\ NoFins(h, i) /\ NoFins(w, i)

FinInv ==
  \A e \in Ends : \A i \in Ids :
    /\ Finishes(recvCh[e][i], Hand(e, i), wire[e], i, finAt[Peer(e)][i])
    /\ finAt[e][i] <= sent[e][i]

\* The kinds of frames in each place.
KindOf(e, i) ==
  /\ \A k \in DOMAIN wire[e] : wire[e][k].id = i => wire[e][k].flag # "raw"
  /\ loop[e] = "push" => cur[e].flag \in {"data", "closewrite"}
  /\ loop[e] = "error" => cur[e].flag = "error"
  /\ \A k \in DOMAIN recvCh[e][i] :
       recvCh[e][i][k].flag \in {"data", "closewrite", "error"}
KindInv == \A e \in Ends : \A i \in Ids : KindOf(e, i)

\* How the stream came to be cancelled.
Refused(e, i) == \E k \in DOMAIN recvCh[e][i] : recvCh[e][i][k].flag = "error"
CancelOf(e, i) ==
  /\ stage[e][i] \in {"none", "alloc"} =>
       recvCh[e][i] = <<>> /\ ~cancelled[e][i] /\ ~chClosed[e][i]
  /\ chClosed[e][i] => cancelled[e][i]
  /\ cancelled[e][i] /\ i \in streams[e] =>
       ~Live(e, i) \/ (loop[e] = "error" /\ cur[e].id = i)
  /\ Refused(e, i) => i \notin streams[e] /\ Over(e, i)
CancelInv == \A e \in Ends : \A i \in Ids : CancelOf(e, i)

\* After the peer's Close only what was sent past it is on the wire.
ShutInv ==
  \A e \in Ends : \A i \in Ids :
    chClosed[e][i] /\ Live(e, i) =>
      /\ finAt[Peer(e)][i] # -1
      /\ \A k \in DOMAIN wire[e] :
           IsData(wire[e][k], i) => finAt[Peer(e)][i] < wire[e][k].seq

FlowInv == FinInv /\ KindInv /\ CancelInv /\ ShutInv

-----------------------------------------------------------------------------
(* What a step does to the three places of a line, and to their numbers.   *)
LEMMA FinAppend ==
  ASSUME NEW rq \in Seq(Frames), NEW h \in Seq(Frames), NEW w \in Seq(Frames),
         NEW x \in Frames, NEW i, NEW n \in Nat \cup {-1}, NEW s \in Nat, n <= s,
         Finishes(rq, h, w, i, n), IsData(x, i) => x.seq = s + 1
  PROVE  Finishes(rq, h, Append(w, x), i, IF IsFin(x, i) /\ n = -1 THEN s ELSE n)
<1> DEFINE v == Append(w, x)  m == IF IsFin(x, i) /\ n = -1 THEN s ELSE n
<1>1. /\ \A k \in DOMAIN w : v[k] = w[k] /\ k \in Nat /\ k < Len(w) + 1
      /\ v[Len(w) + 1] = x
      /\ \A k \in DOMAIN v : k \in DOMAIN w \/ k = Len(w) + 1
      /\ Len(w) \in Nat
  BY AppendOf
<1>2. ~(IsFin(x, i) /\ IsData(x, i))
  BY DEF IsFin, IsData
<1> HIDE DEF v
<1>3. CASE IsFin(x, i) /\ n = -1
  <2>1. NoFins(rq, i) /\ NoFins(h, i) /\ NoFins(w, i) /\ m = s
    BY <1>3 DEF Finishes
  <2>2. Arranged(rq, i, s) /\ Arranged(h, i, s) /\ Apart(rq, h, i, s)
        /\ Apart(rq, v, i, s) /\ Apart(h, v, i, s)
    BY <2>1 DEF NoFins, Arranged, Apart, MayPrecede
  <2>3. Arranged(v, i, s)
    BY <1>1, <1>2, <1>3, <2>1 DEF NoFins, Arranged, MayPrecede
  <2> QED
    BY <2>1, <2>2, <2>3 DEF Finishes, v
<1>4. CASE ~(IsFin(x, i) /\ n = -1)
  <2>1. m = n
    BY <1>4
  <2>2. IsData(x, i) /\ n # -1 => n < x.seq
    OBVIOUS
  <2>3. Arranged(v, i, n)
    <3> SUFFICES ASSUME NEW j \in DOMAIN v, NEW k \in DOMAIN v, j < k
                 PROVE  MayPrecede(v[j], v[k], i, n)
      BY DEF Arranged
    <3>1. j \in DOMAIN w
      BY <1>1
    <3>2. CASE k \in DOMAIN w
      BY <1>1, <3>1, <3>2 DEF Finishes, Arranged
    <3>3. CASE k = Len(w) + 1
      <4>1. v[j] = w[j] /\ v[k] = x
        BY <1>1, <3>1, <3>3
      <4> QED
        BY <2>2, <3>1, <4>1 DEF Finishes, MayPrecede, NoFins
    <3> QED
      BY <1>1, <3>2, <3>3
  <2>4. Apart(rq, v, i, n) /\ Apart(h, v, i, n)
    BY <1>1, <2>2 DEF Finishes, Apart, MayPrecede, NoFins
  <2>5. n = -1 => NoFins(v, i)
    BY <1>1, <1>4 DEF Finishes, NoFins
  <2> QED
    BY <2>1, <2>3, <2>4, <2>5 DEF Finishes, v
<1> QED
  BY <1>3, <1>4

LEMMA FinRead ==
  ASSUME NEW rq \in Seq(Frames), NEW w \in Seq(Frames), w # <<>>, NEW i, NEW n,
         Finishes(rq, <<>>, w, i, n)
  PROVE  /\ Finishes(rq, <<Head(w)>>, Tail(w), i, n)
         /\ Finishes(rq, <<>>, Tail(w), i, n)
<1> DEFINE v == Tail(w)  h == <<Head(w)>>
<1>1. /\ DOMAIN v \subseteq Nat \ {0} /\ 1 \in DOMAIN w /\ Head(w) = w[1]
      /\ \A k \in DOMAIN v : k + 1 \in DOMAIN w /\ v[k] = w[k + 1]
  BY TailOf
<1>2. DOMAIN h = {1} /\ h[1] = w[1] /\ DOMAIN <<>> = {}
  BY <1>1
<1> HIDE DEF v, h
<1>3. Arranged(v, i, n)
  <2>1. \A j, k \in DOMAIN v : j < k => j + 1 < k + 1
    BY <1>1
  <2> QED
    BY <1>1, <2>1 DEF Finishes, Arranged
<1>4. Apart(h, v, i, n)
  <2>1. \A k \in DOMAIN v : 1 < k + 1
    BY <1>1
  <2> QED
    BY <1>1, <1>2, <2>1 DEF Finishes, Arranged, Apart
<1>5. Arranged(h, i, n) /\ Arranged(<<>>, i, n)
  BY <1>2 DEF Arranged
<1>6. Apart(rq, v, i, n) /\ Apart(rq, h, i, n) /\ Apart(<<>>, v, i, n) /\ Apart(rq, <<>>, i, n)
  BY <1>1, <1>2 DEF Finishes, Apart
<1>7. n = -1 => NoFins(v, i) /\ NoFins(h, i) /\ NoFins(<<>>, i)
  BY <1>1, <1>2 DEF Finishes, NoFins
<1> QED
  BY <1>3, <1>4, <1>5, <1>6, <1>7 DEF Finishes, v, h

LEMMA FinDrop ==
  ASSUME NEW rq, NEW h, NEW w, NEW i, NEW n, Finishes(rq, h, w, i, n)
  PROVE  Finishes(rq, <<>>, w, i, n) /\ Finishes(rq, h, <<>>, i, n)
<1>1. DOMAIN <<>> = {}
  OBVIOUS
<1> QED
  BY <1>1 DEF Finishes, Arranged, Apart, NoFins

LEMMA FinPush ==
  ASSUME NEW rq \in Seq(Frames), NEW x \in Frames, NEW w, NEW i, NEW n,
         Finishes(rq, <<x>>, w, i, n)
  PROVE  Finishes(Append(rq, x), <<>>, w, i, n)
<1> DEFINE v == Append(rq, x)  h == <<x>>
<1>1. /\ \A k \in DOMAIN rq : v[k] = rq[k] /\ k \in Nat /\ k < Len(rq) + 1
      /\ v[Len(rq) + 1] = x
      /\ \A k \in DOMAIN v : k \in DOMAIN rq \/ k = Len(rq) + 1
      /\ Len(rq) \in Nat
  BY AppendOf
<1>2. DOMAIN h = {1} /\ h[1] = x /\ DOMAIN <<>> = {}
  OBVIOUS
<1> HIDE DEF v, h
<1>3. Finishes(rq, h, w, i, n)
  BY DEF h
<1>4. Arranged(v, i, n)
  BY <1>1, <1>2, <1>3 DEF Finishes, Arranged, Apart
<1>5. Apart(v, w, i, n) /\ Apart(v, <<>>, i, n) /\ Apart(<<>>, w, i, n)
  BY <1>1, <1>2, <1>3 DEF Finishes, Apart
<1>6. Arranged(<<>>, i, n) /\ (n = -1 => NoFins(v, i) /\ NoFins(<<>>, i))
  BY <1>1, <1>2, <1>3 DEF Finishes, Arranged, NoFins
<1> QED
  BY <1>3, <1>4, <1>5, <1>6 DEF Finishes, v

LEMMA FinRecv ==
  ASSUME NEW rq \in Seq(Frames), rq # <<>>, NEW h, NEW w, NEW i, NEW n,
         Finishes(rq, h, w, i, n)
  PROVE  Finishes(Tail(rq), h, w, i, n)
<1> DEFINE v == Tail(rq)
<1>1. /\ DOMAIN v \subseteq Nat \ {0}
      /\ \A k \in DOMAIN v : k + 1 \in DOMAIN rq /\ v[k] = rq[k + 1]
  BY TailOf
<1> HIDE DEF v
<1>2. Arranged(v, i, n)
  <2>1. \A j, k \in DOMAIN v : j < k => j + 1 < k + 1
    BY <1>1
  <2> QED
    BY <1>1, <2>1 DEF Finishes, Arranged
<1> QED
  BY <1>1, <1>2 DEF Finishes, Apart, NoFins, v

\* The payloads of a sequence of frames.
LEMMA InPayloads ==
  ASSUME NEW i, NEW q, NEW m
  PROVE  m \in Payloads(i, q) <=> \E k \in DOMAIN q : IsData(q[k], i) /\ q[k].seq = m
  BY DEF Payloads, DataOf, IsData

Own(f, i) == IF IsData(f, i) THEN {f.seq} ELSE {}

LEMMA PayAppend ==
  ASSUME NEW i, NEW q \in Seq(Frames), NEW x \in Frames
  PROVE  Payloads(i, Append(q, x)) = Payloads(i, q) \cup Own(x, i)
<1> DEFINE v == Append(q, x)
<1>1. /\ DOMAIN q \subseteq DOMAIN v /\ Len(q) + 1 \in DOMAIN v
      /\ \A k \in DOMAIN q : v[k] = q[k]
      /\ v[Len(q) + 1] = x
      /\ \A k \in DOMAIN v : k \in DOMAIN q \/ k = Len(q) + 1
  BY AppendOf
<1> HIDE DEF v
<1> QED
  BY <1>1 DEF Payloads, DataOf, Own, IsData, v

LEMMA PayTail ==
  ASSUME NEW i, NEW q \in Seq(Frames), q # <<>>
  PROVE  Payloads(i, q) = Payloads(i, Tail(q)) \cup Own(Head(q), i)
<1> DEFINE v == Tail(q)  x == Head(q)
<1>1. /\ 1 \in DOMAIN q /\ x = q[1] /\ DOMAIN q \subseteq Nat \ {0}
      /\ \A k \in DOMAIN v : k + 1 \in DOMAIN q /\ v[k] = q[k + 1]
      /\ \A k \in DOMAIN q : k # 1 => k - 1 \in DOMAIN v /\ v[k - 1] = q[k]
  BY TailOf
<1> HIDE DEF v, x
<1>2. Own(x, i) \subseteq Payloads(i, q) /\ Payloads(i, v) \subseteq Payloads(i, q)
  BY <1>1, InPayloads DEF Own
<1>3. ASSUME NEW m \in Payloads(i, q) PROVE m \in Payloads(i, v) \cup Own(x, i)
  <2>1. PICK k \in DOMAIN q : IsData(q[k], i) /\ q[k].seq = m
    BY InPayloads
  <2>2. CASE k = 1
    BY <1>1, <2>1, <2>2 DEF Own
  <2>3. CASE k # 1
    BY <1>1, <2>1, <2>3, InPayloads
  <2> QED
    BY <2>2, <2>3
<1> QED
  BY <1>2, <1>3 DEF v, x

LEMMA PayShort ==
  ASSUME NEW i, NEW x
  PROVE  Payloads(i, <<>>) = {} /\ Payloads(i, <<x>>) = Own(x, i)
<1> DEFINE v == <<x>>
<1>1. DOMAIN v = {1} /\ v[1] = x /\ DOMAIN <<>> = {}
  OBVIOUS
<1> HIDE DEF v
<1>2. Payloads(i, <<>>) = {}
  BY <1>1 DEF Payloads, DataOf
<1>3. Payloads(i, v) = Own(x, i)
  BY <1>1 DEF Payloads, DataOf, Own, IsData
<1> QED
  BY <1>2, <1>3 DEF v

LEMMA PayJoin ==
  ASSUME NEW i, NEW q \in Seq(Frames), NEW r \in Seq(Frames)
  PROVE  Payloads(i, q \o r) = Payloads(i, q) \cup Payloads(i, r)
<1> DEFINE v == q \o r
<1>1. /\ \A k \in DOMAIN q : k \in DOMAIN v /\ v[k] = q[k]
      /\ \A k \in DOMAIN r : k + Len(q) \in DOMAIN v /\ v[k + Len(q)] = r[k]
      /\ \A k \in DOMAIN v : k \in DOMAIN q \/ (k - Len(q) \in DOMAIN r /\ v[k] = r[k - Len(q)])
  <2>1. /\ DOMAIN q = 1 .. Len(q) /\ DOMAIN r = 1 .. Len(r)
        /\ Len(q) \in Nat /\ Len(r) \in Nat
        /\ DOMAIN v = 1 .. (Len(q) + Len(r))
        /\ \A k \in DOMAIN q : v[k] = q[k]
        /\ \A k \in DOMAIN v \ DOMAIN q : k - Len(q) \in DOMAIN r /\ v[k] = r[k - Len(q)]
        /\ \A k \in DOMAIN r : v[k + Len(q)] = r[k]
    BY ConcatProperties
  <2> HIDE DEF v
  <2> QED
    BY <2>1
<1> HIDE DEF v
<1>2. \A k \in DOMAIN q : IsData(v[k], i) <=> IsData(q[k], i)
  BY <1>1
<1>3. \A k \in DOMAIN r : IsData(v[k + Len(q)], i) <=> IsData(r[k], i)
  BY <1>1
<1>4. ASSUME NEW m \in Payloads(i, q) PROVE m \in Payloads(i, v)
  <2>1. PICK k \in DOMAIN q : IsData(q[k], i) /\ q[k].seq = m
    BY InPayloads
  <2> QED
    BY <1>1, <1>2, <2>1, InPayloads
<1>5. ASSUME NEW m \in Payloads(i, r) PROVE m \in Payloads(i, v)
  <2>1. PICK k \in DOMAIN r : IsData(r[k], i) /\ r[k].seq = m
    BY InPayloads
  <2>2. k + Len(q) \in DOMAIN v /\ IsData(v[k + Len(q)], i) /\ v[k + Len(q)].seq = m
    BY <1>1, <1>3, <2>1
  <2> QED
    BY <2>2, InPayloads
<1>6. ASSUME NEW m \in Payloads(i, v) PROVE m \in Payloads(i, q) \cup Payloads(i, r)
  <2>1. PICK k \in DOMAIN v : IsData(v[k], i) /\ v[k].seq = m
    BY InPayloads
  <2>2. CASE k \in DOMAIN q
    BY <1>1, <2>1, <2>2, InPayloads
  <2>3. CASE k \notin DOMAIN q
    BY <1>1, <2>1, <2>3, InPayloads
  <2> QED
    BY <2>2, <2>3
<1> QED
  BY <1>4, <1>5, <1>6 DEF v

-----------------------------------------------------------------------------
(* What a step does to the line to d on stream j.                          *)
Rests(d, j)   == recvCh'[d][j] = recvCh[d][j] /\ Hand(d, j)' = Hand(d, j)
Numbers(d, j) == /\ sent'[Peer(d)][j] = sent[Peer(d)][j]
                 /\ finAt'[Peer(d)][j] = finAt[Peer(d)][j]

Joins(d, j) ==
  \E x \in Frames :
    LET s == sent[Peer(d)][j]  n == finAt[Peer(d)][j] IN
    /\ wire'[d] = Append(wire[d], x) /\ Rests(d, j)
    /\ IsData(x, j) => x.seq = s + 1
    /\ sent'[Peer(d)][j] = IF IsData(x, j) THEN s + 1 ELSE s
    /\ finAt'[Peer(d)][j] = IF IsFin(x, j) /\ n = -1 THEN s ELSE n
    /\ x.id # RawId => x.flag # "raw"

Taken(d, j) ==
  /\ wire[d] # <<>> /\ wire'[d] = Tail(wire[d])
  /\ recvCh'[d][j] = recvCh[d][j] /\ Numbers(d, j)
  /\ Hand(d, j) = <<>>
  /\ \/ Hand(d, j)' = <<Head(wire[d])>>
     \/ /\ Hand(d, j)' = <<>>
        /\ IsData(Head(wire[d]), j) => cancelled[d][j]

Grasped(d, j) == loop[d] \in {"push", "error"} /\ cur[d].id = j

GivenUp(d, j) ==
  /\ Grasped(d, j) /\ Hand(d, j)' = <<>> /\ cancelled[d][j]
  /\ wire'[d] = wire[d] /\ recvCh'[d][j] = recvCh[d][j] /\ Numbers(d, j)

Pushed(d, j) ==
  /\ Grasped(d, j) /\ Hand(d, j)' = <<>>
  /\ recvCh'[d][j] = Append(recvCh[d][j], cur[d])
  /\ loop[d] = "error" => j \notin streams'[d]
  /\ wire'[d] = wire[d] /\ Numbers(d, j)

Cleared(d, j) ==
  /\ wire'[d] = <<>> /\ conn'[d] = "closed"
  /\ Rests(d, j) /\ Numbers(d, j)

Drawn(d, j) ==
  /\ stage[d][j] = "held" /\ recvCh[d][j] # <<>>
  /\ recvCh'[d][j] = Tail(recvCh[d][j])
  /\ LET f == Head(recvCh[d][j]) IN
       rcvd'[d][j] = IF f.flag \in {"closewrite", "error"} THEN rcvd[d][j] ELSE f.seq
  /\ Hand(d, j)' = Hand(d, j) /\ wire'[d] = wire[d] /\ Numbers(d, j)

LineMove(d, j) ==
  \/ /\ rcvd'[d][j] = rcvd[d][j]
     /\ \/ Rests(d, j) /\ wire'[d] = wire[d] /\ Numbers(d, j)
        \/ Joins(d, j) \/ Taken(d, j) \/ GivenUp(d, j) \/ Pushed(d, j)
        \/ Cleared(d, j)
  \/ Drawn(d, j)

\* What it does to what ends the stream there.
Unborn == {"none", "alloc"}

Kept(d, j) ==
  /\ cancelled'[d][j] = cancelled[d][j] /\ chClosed'[d][j] = chClosed[d][j]
  /\ j \in streams'[d] => j \in streams[d]
Born(d, j) ==
  /\ stage[d][j] \in Unborn /\ stage'[d][j] \notin Unborn
  /\ ~cancelled'[d][j] /\ ~chClosed'[d][j] /\ recvCh'[d][j] = <<>>
Cancelled(d, j) ==
  /\ stage[d][j] \notin Unborn
  /\ cancelled'[d][j] /\ chClosed'[d][j] = chClosed[d][j]
  /\ j \in streams'[d] => j \in streams[d]
  /\ ~Live(d, j)' \/ Refused(d, j) \/ (loop'[d] = "error" /\ cur'[d].id = j)
Shut(d, j) ==
  /\ stage[d][j] \notin Unborn
  /\ cancelled'[d][j] /\ chClosed'[d][j]
  /\ j \in streams[d] /\ j \notin streams'[d] /\ loop[d] = "read"
  /\ \/ ~Live(d, j)'
     \/ /\ wire[d] # <<>> /\ IsFin(Head(wire[d]), j)
        /\ wire'[d] = Tail(wire[d]) /\ Numbers(d, j)

CtxMove(d, j) ==
  /\ Live(d, j)' => Live(d, j)
  /\ stage'[d][j] \in Unborn => stage[d][j] \in Unborn
  /\ Kept(d, j) \/ Born(d, j) \/ Cancelled(d, j) \/ Shut(d, j)
  /\ Grasped(d, j) /\ loop[d] = "error" =>
       (loop'[d] = loop[d] /\ cur'[d] = cur[d]) \/ j \notin streams'[d]

\* What it puts into the hands of the loop of d.
Grips(d) ==
  \/ loop'[d] = loop[d] /\ cur'[d] = cur[d]
  \/ loop'[d] \notin {"push", "error"}
  \/ loop'[d] = "push" /\ cur'[d].flag \in {"data", "closewrite"}
  \/ loop'[d] = "error" /\ cur'[d].flag = "error"

Step(d, j) == LineMove(d, j) /\ CtxMove(d, j) /\ Grips(d)

LEMMA StepSame ==
  ASSUME NEW d \in Ends, NEW j \in Ids
  PROVE  /\ /\ recvCh'[d][j] = recvCh[d][j] /\ wire'[d] = wire[d]
            /\ rcvd'[d][j] = rcvd[d][j]
            /\ loop'[d] = loop[d] /\ cur'[d] = cur[d] /\ Numbers(d, j)
            => LineMove(d, j)
         /\ loop'[d] = loop[d] /\ cur'[d] = cur[d] => Hand(d, j)' = Hand(d, j) /\ Grips(d)
         /\ /\ conn'[d] = conn[d] /\ loop'[d] = loop[d] /\ cur'[d] = cur[d]
            /\ closes'[d][j] = closes[d][j] /\ stage'[d][j] = stage[d][j]
            /\ Kept(d, j)
            => CtxMove(d, j)
<1>1. loop'[d] = loop[d] /\ cur'[d] = cur[d] => Hand(d, j)' = Hand(d, j) /\ Grips(d)
  BY DEF Hand, Grips
<1>2. /\ recvCh'[d][j] = recvCh[d][j] /\ wire'[d] = wire[d]
      /\ rcvd'[d][j] = rcvd[d][j]
      /\ loop'[d] = loop[d] /\ cur'[d] = cur[d] /\ Numbers(d, j)
      => LineMove(d, j)
  BY <1>1 DEF LineMove, Rests
<1>3. /\ conn'[d] = conn[d] /\ loop'[d] = loop[d] /\ cur'[d] = cur[d]
      /\ closes'[d][j] = closes[d][j] /\ stage'[d][j] = stage[d][j]
      /\ Kept(d, j)
      => CtxMove(d, j)
  BY DEF CtxMove, Live, ReadLoopErr
<1> QED
  BY <1>1, <1>2, <1>3

\* The end e writes frame x.
LEMMA StepWrite ==
  ASSUME TypeInv, NEW e \in Ends, NEW x \in Frames, Write(e, x), UNCHANGED <<recvCh, rcvd>>,
         \A d \in Ends : \A j \in Ids : Hand(d, j)' = Hand(d, j),
         \A d \in Ends : \A j \in Ids :
           LET s == sent[d][j]  n == finAt[d][j] IN
           /\ d = e /\ IsData(x, j) => x.seq = s + 1
           /\ sent'[d][j] = IF d = e /\ IsData(x, j) THEN s + 1 ELSE s
           /\ finAt'[d][j] = IF d = e /\ IsFin(x, j) /\ n = -1 THEN s ELSE n,
         x.id # RawId => x.flag # "raw"
  PROVE  \A d \in Ends : \A j \in Ids : LineMove(d, j)
<1> SUFFICES ASSUME NEW d \in Ends, NEW j \in Ids PROVE LineMove(d, j)
  OBVIOUS
<1>1. /\ wire' = [wire EXCEPT ![Peer(e)] = Append(wire[Peer(e)], x)]
      /\ wire \in [Ends -> Seq(Frames)] /\ Peer(e) \in Ends /\ Peer(d) \in Ends
      /\ d # Peer(e) => Peer(d) # e
      /\ d = Peer(e) => Peer(d) = e
  BY Owners DEF Write, TypeInv, TypeOK
<1>2. Rests(d, j) /\ rcvd'[d][j] = rcvd[d][j]
  BY DEF Rests
<1>3. CASE d = Peer(e)
  <2>1. wire'[d] = Append(wire[d], x)
    BY <1>1, <1>3
  <2>2. Joins(d, j)
    BY <1>1, <1>2, <1>3, <2>1 DEF Joins
  <2> QED
    BY <2>2 DEF LineMove
<1>4. CASE d # Peer(e)
  <2>1. wire'[d] = wire[d]
    BY <1>1, <1>4
  <2>2. Numbers(d, j)
    BY <1>1, <1>4 DEF Numbers
  <2> QED
    BY <1>2, <2>1, <2>2 DEF LineMove
<1> QED
  BY <1>3, <1>4

\* The lines and the numbers an action of one stream leaves alone.
LEMMA StepOther ==
  ASSUME NEW e \in Ends, NEW i \in Ids, UNCHANGED <<wire, loop, cur, sent, finAt, conn>>,
         \A d \in Ends : \A j \in Ids : d # e \/ j # i =>
           /\ recvCh'[d][j] = recvCh[d][j] /\ rcvd'[d][j] = rcvd[d][j]
           /\ closes'[d][j] = closes[d][j]
           /\ stage'[d][j] = stage[d][j] /\ Kept(d, j),
         LineMove(e, i), CtxMove(e, i)
  PROVE  \A d \in Ends : \A j \in Ids : Step(d, j)
<1> SUFFICES ASSUME NEW d \in Ends, NEW j \in Ids PROVE Step(d, j)
  OBVIOUS
<1>1. /\ wire'[d] = wire[d] /\ loop'[d] = loop[d] /\ cur'[d] = cur[d]
      /\ conn'[d] = conn[d] /\ Numbers(d, j)
  BY DEF Numbers
<1>2. Grips(d)
  BY <1>1 DEF Grips
<1>3. CASE d = e /\ j = i
  BY <1>2, <1>3 DEF Step
<1>4. CASE d # e \/ j # i
  BY <1>1, <1>2, <1>4, StepSame DEF Step
<1> QED
  BY <1>3, <1>4

LEMMA StepCalls ==
  ASSUME TypeInv, StageInv, CancelInv, NEW e \in Ends, NEW i \in Ids,
         \/ Proceed(e, i) \/ Receive(e, i)
         \/ SendCheck(e, i) \/ CloseWrite(e, i) \/ CloseCancel(e, i)
  PROVE  \A d \in Ends : \A j \in Ids : Step(d, j)
<1> USE DEF connVars, loopVars, routeVars, streamVars, clientVars, histVars, rawVars
<1>1. /\ LifeOK /\ StreamOK /\ ClientOK /\ HistOK
      /\ Life(e, i) /\ CancelOf(e, i)
  BY LifeTypes, TypeParts DEF StageInv, LifeInv, CancelInv, TypeInv
<1>2. ASSUME UNCHANGED <<loop, cur>>
      PROVE  \A d \in Ends : Grips(d) /\ \A j \in Ids : Hand(d, j)' = Hand(d, j)
  BY <1>2 DEF Grips, Hand
<1>3. ASSUME UNCHANGED <<conn, loop, cur, closes, stage, cancelled, chClosed, streams>>
      PROVE  \A d \in Ends : \A j \in Ids : CtxMove(d, j)
  BY <1>3, StepSame DEF Kept
<1>4. ASSUME UNCHANGED <<recvCh, loop, cur, wire, sent, finAt, rcvd>>
      PROVE  \A d \in Ends : \A j \in Ids : LineMove(d, j)
  BY <1>4, StepSame DEF Numbers
<1>5. ASSUME NEW x \in Frames, Write(e, x), UNCHANGED <<recvCh, loop, cur, sent, finAt, rcvd>>,
             \A j \in Ids : ~IsData(x, j) /\ ~IsFin(x, j), x.id # RawId => x.flag # "raw"
      PROVE  \A d \in Ends : \A j \in Ids : LineMove(d, j)
  <2>1. \A d \in Ends : \A j \in Ids : Hand(d, j)' = Hand(d, j)
    BY <1>2, <1>5
  <2> QED
    BY <1>5, <2>1, StepWrite
<1>6. ASSUME NEW x \in Frames, Write(e, x), Finished(e, i), IsFin(x, i),
             UNCHANGED <<recvCh, loop, cur, sent, rcvd>>
      PROVE  \A d \in Ends : \A j \in Ids : LineMove(d, j)
  <2>1. \A d \in Ends : \A j \in Ids : Hand(d, j)' = Hand(d, j)
    BY <1>2, <1>6
  <2>2. \A j \in Ids : ~IsData(x, j) /\ (IsFin(x, j) <=> j = i)
    BY <1>6 DEF IsFin, IsData
  <2>3. \A d \in Ends : \A j \in Ids :
          finAt'[d][j] = IF d = e /\ IsFin(x, j) /\ finAt[d][j] = -1 THEN sent[d][j]
                         ELSE finAt[d][j]
    BY <1>1, <1>6, <2>2 DEF Finished, HistOK
  <2>4. x.flag # "raw"
    BY <1>6 DEF IsFin
  <2> QED
    BY <1>6, <2>1, <2>2, <2>3, <2>4, StepWrite
<1>7. CASE StartRegister(e, i)
  <2>1. /\ stage[e][i] = "alloc" /\ Fresh(e, i) /\ Moves(e, i, "reg")
        /\ UNCHANGED <<wire, loop, cur, sent, finAt, rcvd, conn, closes>>
    BY <1>7 DEF StartRegister, Moves
  <2>2. /\ stage'[e][i] = "reg"
        /\ \A d \in Ends : \A j \in Ids : d # e \/ j # i => stage'[d][j] = stage[d][j]
    BY <1>1, <2>1, StageMoves
  <2>3. recvCh[e][i] = <<>>
    BY <1>1, <2>1 DEF CancelOf
  <2>4. /\ recvCh'[e][i] = <<>> /\ ~chClosed'[e][i] /\ ~cancelled'[e][i]
        /\ \A d \in Ends : \A j \in Ids : d # e \/ j # i =>
             recvCh'[d][j] = recvCh[d][j] /\ Kept(d, j)
    BY <1>1, <2>1 DEF Fresh, StreamOK, Kept
  <2>5. LineMove(e, i)
    BY <2>1, <2>3, <2>4, StepSame DEF Numbers
  <2>6. CtxMove(e, i)
    BY <2>1, <2>2, <2>4 DEF CtxMove, Born, Unborn, Live, ReadLoopErr, Grasped
  <2> QED
    BY <2>1, <2>2, <2>4, <2>5, <2>6, StepOther
<1>8. CASE StartWrite(e, i)
  <2> DEFINE x == Frame(i, "start", 0)
  <2>1. /\ Write(e, x) /\ Moves(e, i, "held") /\ stage[e][i] = "reg"
        /\ UNCHANGED <<recvCh, loop, cur, sent, finAt, rcvd, conn, streams, cancelled, chClosed, closes>>
    BY <1>8 DEF StartWrite, Moves
  <2>2. x \in Frames /\ x.flag = "start"
    BY FrameType DEF Flags
  <2> HIDE DEF x
  <2>3. \A d \in Ends : \A j \in Ids : LineMove(d, j)
    BY <1>5, <2>1, <2>2 DEF IsData, IsFin
  <2>4. /\ stage'[e][i] = "held"
        /\ \A d \in Ends : \A j \in Ids : d # e \/ j # i => stage'[d][j] = stage[d][j]
    BY <1>1, <2>1, StageMoves
  <2>5. \A d \in Ends : \A j \in Ids :
          /\ Live(d, j)' => Live(d, j)
          /\ stage'[d][j] \in Unborn => stage[d][j] \in Unborn
    BY <2>1, <2>4 DEF Live, ReadLoopErr, Unborn
  <2>6. \A d \in Ends : \A j \in Ids : CtxMove(d, j)
    BY <2>1, <2>5 DEF CtxMove, Kept
  <2> QED
    BY <1>2, <2>1, <2>3, <2>6 DEF Step
<1>9. CASE StartFail(e, i)
  <2>1. /\ streams' = [streams EXCEPT ![e] = @ \ {i}] /\ Moves(e, i, "failed")
        /\ UNCHANGED <<wire, recvCh, loop, cur, sent, finAt, rcvd, conn, cancelled, chClosed, closes>>
    BY <1>9 DEF StartFail, Moves
  <2>2. /\ stage'[e][i] = "failed"
        /\ \A d \in Ends : \A j \in Ids : d # e \/ j # i => stage'[d][j] = stage[d][j]
    BY <1>1, <2>1, StageMoves
  <2>3. \A d \in Ends : \A j \in Ids : Kept(d, j)
    BY <1>1, <2>1 DEF Kept, StreamOK
  <2>4. \A d \in Ends : \A j \in Ids :
          /\ Live(d, j)' => Live(d, j)
          /\ stage'[d][j] \in Unborn => stage[d][j] \in Unborn
    BY <2>1, <2>2 DEF Live, ReadLoopErr, Unborn
  <2>5. \A d \in Ends : \A j \in Ids : CtxMove(d, j)
    BY <2>1, <2>3, <2>4 DEF CtxMove
  <2> QED
    BY <1>2, <1>4, <2>1, <2>5 DEF Step
<1>10. CASE SendWrite(e, i)
  <2> DEFINE x == Frame(i, "data", sent[e][i] + 1)
  <2>1. /\ Write(e, x) /\ sent' = [sent EXCEPT ![e][i] = @ + 1]
        /\ UNCHANGED <<recvCh, loop, cur, finAt, rcvd, conn, closes, stage, cancelled,
                       chClosed, streams>>
    BY <1>10 DEF SendWrite
  <2>2. x \in Frames /\ x.id = i /\ x.flag = "data" /\ x.seq = sent[e][i] + 1
    <3>1. sent[e][i] + 1 \in Nat
      BY <1>1 DEF HistOK
    <3> QED
      BY <3>1, FrameType DEF Flags
  <2> HIDE DEF x
  <2>3. \A j \in Ids : ~IsFin(x, j) /\ (IsData(x, j) <=> j = i)
    BY <2>2 DEF IsFin, IsData
  <2>4. \A d \in Ends : \A j \in Ids :
          sent'[d][j] = IF d = e /\ IsData(x, j) THEN sent[d][j] + 1 ELSE sent[d][j]
    BY <1>1, <2>1, <2>3 DEF HistOK
  <2>5. \A d \in Ends : \A j \in Ids : Hand(d, j)' = Hand(d, j)
    BY <1>2, <2>1
  <2>6. \A d \in Ends : \A j \in Ids : LineMove(d, j)
    BY <2>1, <2>2, <2>3, <2>4, <2>5, StepWrite
  <2> QED
    BY <1>2, <1>3, <2>1, <2>6 DEF Step
<1>11. CASE CloseWrite(e, i)
  <2> DEFINE x == Frame(i, "closewrite", 0)
  <2>1. /\ Write(e, x) /\ Finished(e, i)
        /\ UNCHANGED <<recvCh, loop, cur, sent, rcvd, conn, closes, stage, cancelled,
                       chClosed, streams>>
    BY <1>11 DEF CloseWrite
  <2>2. x \in Frames /\ IsFin(x, i)
    BY FrameType DEF Flags, IsFin
  <2> HIDE DEF x
  <2> QED
    BY <1>2, <1>3, <1>6, <2>1, <2>2 DEF Step
<1>12. CASE CloseFrame(e, i)
  <2> DEFINE x == Frame(i, "close", 0)
  <2>1. /\ Write(e, x) /\ Finished(e, i)
        /\ UNCHANGED <<recvCh, loop, cur, sent, rcvd, conn, closes, stage, cancelled,
                       chClosed, streams>>
    BY <1>12 DEF CloseFrame
  <2>2. x \in Frames /\ IsFin(x, i)
    BY FrameType DEF Flags, IsFin
  <2> HIDE DEF x
  <2> QED
    BY <1>2, <1>3, <1>6, <2>1, <2>2 DEF Step
<1>13. CASE SendFail(e, i) \/ CloseFrameLost(e, i) \/ SendCheck(e, i) \/ RecvEnd(e, i)
  <2>1. UNCHANGED <<recvCh, loop, cur, wire, sent, finAt, rcvd, conn, closes, stage,
                    cancelled, chClosed, streams>>
    BY <1>13 DEF SendFail, CloseFrameLost, SendCheck, RecvEnd
  <2> QED
    BY <1>2, <1>3, <1>4, <2>1 DEF Step
<1>14. CASE CloseRemove(e, i)
  <2>1. /\ streams' = [streams EXCEPT ![e] = @ \ {i}]
        /\ UNCHANGED <<recvCh, loop, cur, wire, sent, finAt, rcvd, conn, closes, stage,
                       cancelled, chClosed>>
    BY <1>14 DEF CloseRemove
  <2>2. \A d \in Ends : \A j \in Ids : Kept(d, j)
    BY <1>1, <2>1 DEF Kept, StreamOK
  <2>3. \A d \in Ends : \A j \in Ids : CtxMove(d, j)
    BY <2>1, <2>2, StepSame
  <2> QED
    BY <1>2, <1>4, <2>1, <2>3 DEF Step
<1>15. CASE CloseCancel(e, i)
  <2>1. /\ stage[e][i] = "held"
        /\ cancelled' = [cancelled EXCEPT ![e][i] = TRUE]
        /\ closes' = [closes EXCEPT ![e][i] = @ + 1]
        /\ UNCHANGED <<recvCh, loop, cur, wire, sent, finAt, rcvd, conn, stage,
                       chClosed, streams>>
    BY <1>15 DEF CloseCancel, Held
  <2>2. /\ cancelled'[e][i] /\ closes'[e][i] = closes[e][i] + 1 /\ closes[e][i] \in Nat
        /\ \A d \in Ends : \A j \in Ids : d # e \/ j # i =>
             cancelled'[d][j] = cancelled[d][j] /\ closes'[d][j] = closes[d][j]
    BY <1>1, <2>1 DEF StreamOK, ClientOK
  <2>3. closes'[e][i] # 0
    BY <2>2
  <2>4. LineMove(e, i)
    BY <1>4, <2>1
  <2>5. CtxMove(e, i)
    BY <2>1, <2>2, <2>3 DEF CtxMove, Cancelled, Unborn, Live, Grasped
  <2>6. \A d \in Ends : \A j \in Ids : d # e \/ j # i => Kept(d, j)
    BY <2>1, <2>2 DEF Kept
  <2> QED
    BY <2>1, <2>2, <2>4, <2>5, <2>6, StepOther
<1>16. CASE RecvFrame(e, i)
  <2> DEFINE f == Head(recvCh[e][i])
  <2>1. /\ stage[e][i] = "held" /\ recvCh[e][i] # <<>>
        /\ recvCh' = [recvCh EXCEPT ![e][i] = Tail(@)]
        /\ rcvd' = [rcvd EXCEPT ![e][i] =
                      IF f.flag \in {"closewrite", "error"} THEN @ ELSE f.seq]
        /\ cancelled' = [cancelled EXCEPT ![e][i] = @ \/ f.flag = "error"]
        /\ UNCHANGED <<wire, loop, cur, sent, finAt, conn, closes, stage, chClosed, streams>>
    BY <1>16 DEF RecvFrame, Held
  <2>2. /\ recvCh'[e][i] = Tail(recvCh[e][i])
        /\ rcvd'[e][i] = IF f.flag \in {"closewrite", "error"} THEN rcvd[e][i] ELSE f.seq
        /\ cancelled'[e][i] <=> cancelled[e][i] \/ f.flag = "error"
        /\ cancelled'[e][i] \in BOOLEAN /\ cancelled[e][i] \in BOOLEAN
        /\ \A d \in Ends : \A j \in Ids : d # e \/ j # i =>
             /\ cancelled'[d][j] = cancelled[d][j] /\ recvCh'[d][j] = recvCh[d][j]
             /\ rcvd'[d][j] = rcvd[d][j]
    BY <1>1, <2>1 DEF StreamOK, HistOK
  <2>3. f.flag = "error" => Refused(e, i)
    <3>1. recvCh[e][i] \in Seq(Frames)
      BY <1>1 DEF StreamOK
    <3> QED
      BY <2>1, <3>1, TailOf DEF Refused
  <2> HIDE DEF f
  <2>4. LineMove(e, i)
    <3>1. Hand(e, i)' = Hand(e, i)
      BY <1>2, <2>1
    <3>2. Drawn(e, i)
      BY <2>1, <2>2, <3>1 DEF Drawn, Numbers, f
    <3> QED
      BY <3>2 DEF LineMove
  <2>5. Kept(e, i) \/ Cancelled(e, i)
    BY <2>1, <2>2, <2>3 DEF Kept, Cancelled, Unborn
  <2>6. CtxMove(e, i)
    BY <2>1, <2>5 DEF CtxMove, Unborn, Live, ReadLoopErr
  <2>7. \A d \in Ends : \A j \in Ids : d # e \/ j # i => Kept(d, j)
    BY <2>1, <2>2 DEF Kept
  <2> QED
    BY <2>1, <2>2, <2>4, <2>6, <2>7, StepOther
<1> QED
  BY <1>7, <1>8, <1>9, <1>10, <1>11, <1>12, <1>13, <1>14, <1>15, <1>16
  DEF Proceed, Receive

\* The loop of e reads frame f: a payload it does not keep is of a stream
\* that has been cancelled.
LEMMA StepReads ==
  ASSUME TypeInv, NEW e \in Ends, NEW f, NEW l, Reads(e, f, l), UNCHANGED <<sent, finAt, rcvd>>,
         \A d \in Ends : \A j \in Ids : recvCh'[d][j] = recvCh[d][j],
         \A j \in Ids : IsData(f, j) /\ l \notin {"push", "error"} => cancelled[e][j]
  PROVE  /\ \A d \in Ends : \A j \in Ids : LineMove(d, j)
         /\ \A d \in Ends : d # e => loop'[d] = loop[d] /\ cur'[d] = cur[d]
         /\ loop[e] = "read" /\ loop'[e] = l /\ (l # "read" => cur'[e] = f)
         /\ wire[e] # <<>> /\ f = Head(wire[e]) /\ wire'[e] = Tail(wire[e])
<1>1. /\ loop[e] = "read" /\ wire[e] # <<>> /\ f = Head(wire[e])
      /\ wire'[e] = Tail(wire[e]) /\ loop'[e] = l
      /\ cur'[e] = IF l = "read" THEN NoFrame ELSE f
      /\ \A d \in Ends : d # e => /\ wire'[d] = wire[d] /\ loop'[d] = loop[d]
                                  /\ cur'[d] = cur[d]
  BY DEF Reads, TypeInv, TypeOK
<1>2. ASSUME NEW d \in Ends, NEW j \in Ids PROVE LineMove(d, j)
  <2>1. Numbers(d, j)
    BY DEF Numbers
  <2>2. CASE d = e
    <3>1. Hand(e, j) = <<>>
      BY <1>1 DEF Hand
    <3>2. Hand(e, j)' = IF l \in {"push", "error"} /\ f.id = j THEN <<f>> ELSE <<>>
      BY <1>1 DEF Hand
    <3>3. l \in {"push", "error"} /\ f.id # j => ~IsData(f, j)
      BY DEF IsData
    <3>4. Taken(e, j)
      BY <1>1, <2>1, <2>2, <3>1, <3>2, <3>3 DEF Taken
    <3> QED
      BY <2>2, <3>4 DEF LineMove
  <2>3. CASE d # e
    BY <1>1, <2>1, <2>3, StepSame
  <2> QED
    BY <2>2, <2>3
<1> QED
  BY <1>1, <1>2

\* Only what is at e changes besides the lines.
LEMMA StepEnd ==
  ASSUME NEW e \in Ends,
         \A d \in Ends : \A j \in Ids : LineMove(d, j),
         \A d \in Ends : d # e =>
           /\ loop'[d] = loop[d] /\ cur'[d] = cur[d] /\ conn'[d] = conn[d]
           /\ \A j \in Ids : /\ closes'[d][j] = closes[d][j]
                             /\ stage'[d][j] = stage[d][j] /\ Kept(d, j),
         \A j \in Ids : CtxMove(e, j), Grips(e)
  PROVE  \A d \in Ends : \A j \in Ids : Step(d, j)
<1> SUFFICES ASSUME NEW d \in Ends, NEW j \in Ids PROVE Step(d, j)
  OBVIOUS
<1>1. CASE d = e
  BY <1>1 DEF Step
<1>2. CASE d # e
  <2>1. CtxMove(d, j) /\ Grips(d)
    BY <1>2, StepSame
  <2> QED
    BY <2>1 DEF Step
<1> QED
  BY <1>1, <1>2

\* The loop of e goes on, and the stream stays what it was.
LEMMA CtxGoesOn ==
  ASSUME NEW e \in Ends, NEW j \in Ids, UNCHANGED <<conn, closes>>,
         stage'[e][j] = stage[e][j], loop[e] \notin {"failed", "done"}, Kept(e, j),
         Grasped(e, j) /\ loop[e] = "error" => j \notin streams'[e]
  PROVE  CtxMove(e, j)
  BY DEF CtxMove, Live, ReadLoopErr

\* What CloseStreams does to each stream.
LEMMA ClosesSome ==
  ASSUME TypeInv, NEW e \in Ends, NEW S, CloseStreams(e, S)
  PROVE  /\ \A j \in Ids : j \in S =>
              cancelled'[e][j] /\ chClosed'[e][j] /\ j \notin streams'[e]
         /\ \A j \in Ids : j \notin S => Kept(e, j)
         /\ \A d \in Ends : \A j \in Ids : d # e => Kept(d, j)
<1>1. StreamOK
  BY TypeParts DEF TypeInv
<1>2. /\ cancelled'[e] = [i \in Ids |-> cancelled[e][i] \/ i \in S]
      /\ chClosed'[e] = [i \in Ids |-> chClosed[e][i] \/ i \in S]
      /\ streams'[e] = streams[e] \ S
      /\ \A d \in Ends : d # e => /\ cancelled'[d] = cancelled[d]
                                  /\ chClosed'[d] = chClosed[d]
                                  /\ streams'[d] = streams[d]
  BY <1>1 DEF CloseStreams, StreamOK
<1>3. ASSUME NEW j \in Ids, j \notin S PROVE Kept(e, j)
  <2>1. /\ cancelled'[e][j] = (cancelled[e][j] \/ j \in S)
        /\ chClosed'[e][j] = (chClosed[e][j] \/ j \in S)
    BY <1>2
  <2>2. cancelled[e][j] \in BOOLEAN /\ chClosed[e][j] \in BOOLEAN
    BY <1>1 DEF StreamOK
  <2>3. cancelled'[e][j] = cancelled[e][j] /\ chClosed'[e][j] = chClosed[e][j]
    BY <1>3, <2>1, <2>2
  <2> QED
    BY <1>2, <2>3 DEF Kept
<1> QED
  BY <1>2, <1>3 DEF Kept

LEMMA StepLoop ==
  ASSUME TypeInv, StageInv, KindInv, CancelInv, NEW e \in Ends, Loop(e)
  PROVE  \A d \in Ends : \A j \in Ids : Step(d, j)
<1> USE DEF connVars, loopVars, routeVars, streamVars, clientVars, histVars, rawVars
<1> DEFINE f == Head(wire[e])
<1>1. /\ LifeOK /\ StreamOK /\ ClientOK /\ HistOK /\ LoopOK
      /\ Hands(e) /\ \A j \in Ids : Life(e, j) /\ CancelOf(e, j)
  BY LifeTypes, TypeParts DEF StageInv, LifeInv, HandInv, CancelInv, TypeInv
<1>2. wire[e] # <<>> =>
        /\ f \in Frames /\ (f.id # RawId => f.id \in Ids)
        /\ f.id # RawId /\ f.flag = "start" => stage[e][f.id] = "none"
        /\ f.id # RawId /\ f.flag # "start" => stage[e][f.id] \in Known
        /\ f.id # RawId => f.flag # "raw"
  <2>1. ASSUME wire[e] # <<>> PROVE f.id # RawId => f.flag # "raw"
    <3>1. wire[e] \in Seq(Frames)
      BY DEF TypeInv, TypeOK
    <3>2. 1 \in DOMAIN wire[e] /\ f = wire[e][1]
      BY <2>1, <3>1, TailOf
    <3>3. f.id # RawId => f.id \in Ids
      BY <2>1, HeadOf DEF f
    <3> QED
      BY <3>2, <3>3 DEF KindInv, KindOf
  <2> QED
    BY <2>1, HeadOf
<1>3. "none" \in Unborn /\ Known \cap Unborn = {} /\ Mapped \cap Unborn = {}
  BY DEF Known, Mapped, Unborn
<1> HIDE DEF f
<1>4. \A j \in streams[e] : stage[e][j] \notin Unborn /\ j \in Ids
  BY <1>1, <1>3 DEF Life, StreamOK
<1>5. ASSUME UNCHANGED <<cancelled, chClosed, streams>>
      PROVE  \A d \in Ends : \A j \in Ids : Kept(d, j)
  BY <1>5 DEF Kept
<1>6. \A j \in Ids : loop[e] # "error" => ~(Grasped(e, j) /\ loop[e] = "error")
  OBVIOUS
\* The loop reads a frame, and changes nothing else.
<1>7. ASSUME NEW l, Reads(e, f, l), l \notin {"failed", "done"},
             UNCHANGED <<conn, closes, stage, streams, cancelled, chClosed, recvCh,
                         sent, finAt, rcvd>>,
             \A j \in Ids : IsData(f, j) /\ l \notin {"push", "error"} => cancelled[e][j],
             l = "push" => f.flag \in {"data", "closewrite"}, l # "error"
      PROVE  \A d \in Ends : \A j \in Ids : Step(d, j)
  <2>1. /\ \A d \in Ends : \A j \in Ids : LineMove(d, j)
        /\ \A d \in Ends : d # e => loop'[d] = loop[d] /\ cur'[d] = cur[d]
        /\ loop[e] = "read" /\ loop'[e] = l /\ (l # "read" => cur'[e] = f)
    BY <1>7, StepReads
  <2>2. \A j \in Ids : CtxMove(e, j)
    BY <1>5, <1>6, <1>7, <2>1, CtxGoesOn
  <2>3. Grips(e)
    BY <1>7, <2>1 DEF Grips
  <2> QED
    BY <1>5, <1>7, <2>1, <2>2, <2>3, StepEnd
<1>8. CASE LoopRaw(e)
  <2>1. /\ wire[e] # <<>> /\ f.id = RawId /\ Reads(e, f, "raw")
        /\ UNCHANGED <<conn, closes, stage, streams, cancelled, chClosed, recvCh, sent, finAt, rcvd>>
    BY <1>8 DEF LoopRaw, f
  <2>2. \A j \in Ids : ~IsData(f, j)
    BY <2>1, Owners DEF IsData
  <2> QED
    BY <1>7, <2>1, <2>2
<1>9. CASE LoopUnknown(e)
  <2>1. /\ wire[e] # <<>> /\ f.id # RawId /\ f.id \notin streams[e] /\ f.flag # "start"
        /\ Reads(e, f, "reply")
        /\ UNCHANGED <<conn, closes, stage, streams, cancelled, chClosed, recvCh, sent, finAt, rcvd>>
    BY <1>9 DEF LoopUnknown, f
  <2>2. cancelled[e][f.id]
    BY <1>1, <1>2, <2>1 DEF Life, Mapped
  <2>3. \A j \in Ids : IsData(f, j) => cancelled[e][j]
    BY <2>2 DEF IsData
  <2> QED
    BY <1>7, <2>1, <2>3
<1>10. CASE LoopData(e)
  <2>1. /\ wire[e] # <<>> /\ f.id \in streams[e] /\ f.flag \notin {"close", "error"}
        /\ Reads(e, f, "push")
        /\ UNCHANGED <<conn, closes, stage, streams, cancelled, chClosed, recvCh, sent, finAt, rcvd>>
    BY <1>10 DEF LoopData, f
  <2>2. f.id \in Ids /\ f.id # RawId /\ stage[e][f.id] \notin Unborn
    BY <1>4, <2>1, Owners
  <2>3. f.flag \in {"data", "closewrite"}
    BY <1>2, <1>3, <2>1, <2>2 DEF Frames, Flags
  <2> QED
    BY <1>7, <2>1, <2>3
<1>11. CASE LoopError(e)
  <2>1. /\ wire[e] # <<>> /\ f.id \in streams[e] /\ f.flag = "error"
        /\ Reads(e, f, "error")
        /\ cancelled' = [cancelled EXCEPT ![e][f.id] = TRUE]
        /\ UNCHANGED <<conn, closes, stage, streams, chClosed, recvCh, sent, finAt, rcvd>>
    BY <1>11 DEF LoopError, f
  <2>0. PICK i \in Ids : i = f.id
    BY <1>4, <2>1
  <2>2. /\ \A d \in Ends : \A j \in Ids : LineMove(d, j)
        /\ \A d \in Ends : d # e => loop'[d] = loop[d] /\ cur'[d] = cur[d]
        /\ loop[e] = "read" /\ loop'[e] = "error" /\ cur'[e] = f
    BY <2>0, <2>1, StepReads
  <2>3. /\ i \in Ids /\ stage[e][i] \notin Unborn /\ cancelled'[e][i]
        /\ \A d \in Ends : \A j \in Ids : d # e \/ j # i => cancelled'[d][j] = cancelled[d][j]
    BY <1>1, <1>4, <2>0, <2>1 DEF StreamOK
  <2>4. \A d \in Ends : \A j \in Ids : d # e \/ j # i => Kept(d, j)
    BY <2>0, <2>1, <2>3 DEF Kept
  <2>5. CtxMove(e, i)
    BY <2>0, <2>1, <2>2, <2>3 DEF CtxMove, Cancelled, Live, ReadLoopErr, Grasped
  <2>6. \A j \in Ids : CtxMove(e, j)
    BY <1>6, <2>0, <2>1, <2>2, <2>4, <2>5, CtxGoesOn
  <2>7. Grips(e)
    BY <2>0, <2>1, <2>2 DEF Grips
  <2> QED
    BY <2>0, <2>1, <2>2, <2>4, <2>6, <2>7, StepEnd
<1>12. CASE LoopClose(e)
  <2>1. /\ wire[e] # <<>> /\ f.id \in streams[e] /\ f.flag = "close"
        /\ Reads(e, f, "read") /\ CloseStreams(e, {f.id})
        /\ UNCHANGED <<conn, closes, stage, recvCh, sent, finAt, rcvd>>
    BY <1>12 DEF LoopClose, f
  <2>0. PICK i \in Ids : i = f.id
    BY <1>4, <2>1
  <2>2. \A j \in Ids : ~IsData(f, j)
    BY <2>0, <2>1 DEF IsData
  <2>3. /\ \A d \in Ends : \A j \in Ids : LineMove(d, j)
        /\ \A d \in Ends : d # e => loop'[d] = loop[d] /\ cur'[d] = cur[d]
        /\ loop[e] = "read" /\ loop'[e] = "read"
        /\ wire[e] # <<>> /\ f = Head(wire[e]) /\ wire'[e] = Tail(wire[e])
    BY <2>0, <2>1, <2>2, StepReads
  <2>4. i \in Ids /\ stage[e][i] \notin Unborn
    BY <1>4, <2>0, <2>1
  <2>5. /\ cancelled'[e][i] /\ chClosed'[e][i] /\ i \notin streams'[e]
        /\ \A d \in Ends : \A j \in Ids : d # e \/ j # i => Kept(d, j)
    BY <2>0, <2>1, <2>4, ClosesSome
  <2>6. Shut(e, i)
    <3>1. IsFin(f, i) /\ Numbers(e, i)
      BY <2>0, <2>1 DEF IsFin, Numbers
    <3> QED
      BY <2>0, <2>1, <2>3, <2>4, <2>5, <3>1 DEF Shut
  <2>7. CtxMove(e, i)
    BY <2>0, <2>1, <2>3, <2>6 DEF CtxMove, Live, ReadLoopErr, Grasped
  <2>8. \A j \in Ids : CtxMove(e, j)
    BY <1>6, <2>0, <2>1, <2>3, <2>5, <2>7, CtxGoesOn
  <2>9. Grips(e)
    BY <2>3 DEF Grips
  <2> QED
    BY <2>0, <2>1, <2>3, <2>5, <2>8, <2>9, StepEnd
<1>13. CASE LoopStart(e)
  <2>1. PICK l \in {"read", "accept"}, v \in Known :
          /\ wire[e] # <<>> /\ f.id # RawId /\ f.flag = "start"
          /\ Reads(e, f, l) /\ Fresh(e, f.id) /\ Moves(e, f.id, v)
          /\ UNCHANGED <<conn, closes, sent, finAt, rcvd>>
    <3> DEFINE served == routed[f.id] /\ handled[e]
    <3>1. CASE served
      BY <1>13, <3>1 DEF LoopStart, f, Known, Moves
    <3>2. CASE ~served
      BY <1>13, <3>2 DEF LoopStart, f, Known, Moves
    <3> QED
      BY <3>1, <3>2
  <2>0. PICK i \in Ids : i = f.id
    BY <1>2, <2>1
  <2>2. i \in Ids /\ stage[e][i] = "none" /\ recvCh[e][i] = <<>>
    BY <1>1, <1>2, <2>0, <2>1 DEF CancelOf
  <2>3. /\ recvCh'[e][i] = <<>> /\ ~chClosed'[e][i] /\ ~cancelled'[e][i]
        /\ \A d \in Ends : \A j \in Ids : d # e \/ j # i =>
             recvCh'[d][j] = recvCh[d][j] /\ Kept(d, j)
    BY <1>1, <2>0, <2>1, <2>2 DEF Fresh, StreamOK, Kept
  <2>4. \A d \in Ends : \A j \in Ids : recvCh'[d][j] = recvCh[d][j]
    BY <2>0, <2>2, <2>3
  <2>5. \A j \in Ids : ~IsData(f, j)
    BY <2>0, <2>1 DEF IsData
  <2>6. /\ \A d \in Ends : \A j \in Ids : LineMove(d, j)
        /\ \A d \in Ends : d # e => loop'[d] = loop[d] /\ cur'[d] = cur[d]
        /\ loop[e] = "read" /\ loop'[e] = l
    BY <2>0, <2>1, <2>4, <2>5, StepReads
  <2>7. /\ stage'[e][i] = v
        /\ \A d \in Ends : \A j \in Ids : d # e \/ j # i => stage'[d][j] = stage[d][j]
    BY <2>0, <2>1, <2>2, StageMoves
  <2>8. CtxMove(e, i)
    <3>1. Born(e, i)
      BY <1>3, <2>0, <2>2, <2>3, <2>7 DEF Born
    <3>2. Live(e, i)' => Live(e, i)
      BY <2>0, <2>1, <2>2, <2>6 DEF Live, ReadLoopErr
    <3> QED
      BY <1>3, <2>0, <2>2, <2>6, <3>1, <3>2 DEF CtxMove
  <2>9. \A j \in Ids : CtxMove(e, j)
    BY <1>6, <2>0, <2>1, <2>3, <2>6, <2>7, <2>8, CtxGoesOn
  <2>10. Grips(e)
    BY <2>6 DEF Grips
  <2> QED
    BY <2>0, <2>1, <2>3, <2>6, <2>7, <2>9, <2>10, StepEnd
\* The loop has done with its frame.
<1>14. ASSUME Returns(e)
       PROVE  /\ \A d \in Ends : d # e => loop'[d] = loop[d] /\ cur'[d] = cur[d]
              /\ loop'[e] = "read" /\ Grips(e)
  BY <1>1, <1>14 DEF Returns, LoopOK, Grips
<1>15. CASE LoopPushRaw(e) \/ LoopAccept(e) \/ LoopReply(e)
  <2>1. /\ loop[e] \in {"raw", "accept", "reply"} /\ Returns(e)
        /\ UNCHANGED <<conn, closes, stage, streams, cancelled, chClosed, recvCh, sent, finAt, rcvd>>
        /\ UNCHANGED wire \/ (loop[e] = "reply" /\ Write(e, Frame(cur[e].id, "error", 0)))
    BY <1>15 DEF LoopPushRaw, LoopAccept, LoopReply
  <2>2. \A d \in Ends : \A j \in Ids : Hand(d, j)' = Hand(d, j)
    BY <1>14, <2>1 DEF Hand
  <2>3. \A d \in Ends : \A j \in Ids : LineMove(d, j)
    <3>1. CASE UNCHANGED wire
      BY <2>1, <2>2, <3>1 DEF LineMove, Rests, Numbers
    <3>2. CASE loop[e] = "reply" /\ Write(e, Frame(cur[e].id, "error", 0))
      <4> DEFINE x == Frame(cur[e].id, "error", 0)
      <4>1. x \in Frames /\ x.flag = "error"
        BY <3>2, FrameType DEF Flags, TypeInv, CurInv
      <4> HIDE DEF x
      <4>2. Write(e, x)
        BY <3>2 DEF x
      <4>3. \A j \in Ids : ~IsData(x, j) /\ ~IsFin(x, j)
        BY <4>1 DEF IsData, IsFin
      <4> QED
        BY <2>1, <2>2, <4>1, <4>2, <4>3, StepWrite
    <3> QED
      BY <2>1, <3>1, <3>2
  <2>4. \A j \in Ids : CtxMove(e, j)
    BY <1>5, <1>6, <2>1, CtxGoesOn
  <2> QED
    BY <1>5, <1>14, <2>1, <2>3, <2>4, StepEnd
<1>16. CASE LoopPush(e) \/ LoopPushError(e)
  <2>0. PICK i \in Ids : i = cur[e].id
    <3>1. loop[e] \in {"push", "error"}
      BY <1>16 DEF LoopPush, LoopPushError
    <3> QED
      BY <3>1 DEF TypeInv, CurInv
  <2>1. /\ loop[e] \in {"push", "error"} /\ Push(e, i) /\ Returns(e)
        /\ UNCHANGED <<conn, closes, stage, cancelled, chClosed, wire, sent, finAt, rcvd>>
        /\ \/ loop[e] = "push" /\ UNCHANGED streams
           \/ loop[e] = "error" /\ streams' = [streams EXCEPT ![e] = @ \ {i}]
    BY <1>16, <2>0 DEF LoopPush, LoopPushError
  <2>3. /\ loop[e] = "error" => i \notin streams'[e]
        /\ \A d \in Ends : \A j \in Ids : Kept(d, j)
    BY <1>1, <2>0, <2>1 DEF Kept, StreamOK
  <2>4. \A d \in Ends : \A j \in Ids : d # e \/ j # i =>
          recvCh'[d][j] = recvCh[d][j] /\ Hand(d, j)' = Hand(d, j)
    BY <1>1, <1>14, <2>0, <2>1 DEF Push, StreamOK, Hand
  <2>5. Hand(e, i)' = <<>> /\ Grasped(e, i)
    BY <1>14, <2>0, <2>1 DEF Hand, Grasped
  <2>6. \/ cancelled[e][i] /\ recvCh'[e][i] = recvCh[e][i]
        \/ recvCh'[e][i] = Append(recvCh[e][i], cur[e])
    BY <1>1, <2>0, <2>1 DEF Push, StreamOK
  <2>7. \A d \in Ends : \A j \in Ids :
          wire'[d] = wire[d] /\ rcvd'[d][j] = rcvd[d][j] /\ Numbers(d, j)
    BY <2>0, <2>1 DEF Numbers
  <2>8. LineMove(e, i)
    BY <2>3, <2>5, <2>6, <2>7 DEF LineMove, GivenUp, Pushed
  <2>9. \A d \in Ends : \A j \in Ids : LineMove(d, j)
    BY <2>4, <2>7, <2>8 DEF LineMove, Rests
  <2>10. \A j \in Ids : CtxMove(e, j)
    <3> SUFFICES ASSUME NEW j \in Ids PROVE CtxMove(e, j)
      OBVIOUS
    <3>1. Grasped(e, j) /\ loop[e] = "error" => j \notin streams'[e]
      BY <2>0, <2>3 DEF Grasped
    <3>2. UNCHANGED <<conn, closes>> /\ stage'[e][j] = stage[e][j]
      BY <2>1
    <3>3. loop[e] \notin {"failed", "done"} /\ Kept(e, j)
      BY <2>1, <2>3
    <3> QED
      BY <3>1, <3>2, <3>3, CtxGoesOn
  <2> QED
    BY <1>14, <2>1, <2>3, <2>9, <2>10, StepEnd
<1>17. CASE LoopFail(e)
  <2>1. /\ loop[e] = "read" /\ loop' = [loop EXCEPT ![e] = "failed"]
        /\ CloseStreams(e, streams[e])
        /\ UNCHANGED <<conn, wire, cur, stage, recvCh, closes, sent, finAt, rcvd>>
    BY <1>17 DEF LoopFail, ReadFails
  <2>2. loop'[e] = "failed" /\ \A d \in Ends : d # e => loop'[d] = loop[d]
    BY <1>1, <2>1 DEF LoopOK
  <2>3. \A d \in Ends : \A j \in Ids : LineMove(d, j)
    BY <2>1, <2>2 DEF LineMove, Rests, Numbers, Hand
  <2>4. \A j \in Ids : ~Live(e, j)' /\ ~Grasped(e, j)
    BY <2>1, <2>2 DEF Live, ReadLoopErr, Grasped
  <2>5. \A d \in Ends : \A j \in Ids : d # e => Kept(d, j)
    BY <2>1, ClosesSome
  <2>6. \A j \in Ids : Kept(e, j) \/ Shut(e, j)
    BY <1>4, <2>1, <2>4, ClosesSome DEF Shut
  <2>7. \A j \in Ids : CtxMove(e, j)
    BY <2>1, <2>4, <2>6 DEF CtxMove
  <2>8. Grips(e)
    BY <2>2 DEF Grips
  <2> QED
    BY <2>1, <2>2, <2>3, <2>5, <2>7, <2>8, StepEnd
<1>18. CASE LoopExit(e)
  <2>1. /\ loop[e] = "failed" /\ loop' = [loop EXCEPT ![e] = "done"]
        /\ UNCHANGED <<conn, wire, cur, stage, recvCh, closes, sent, finAt, rcvd, streams,
                       cancelled, chClosed>>
    BY <1>18 DEF LoopExit
  <2>2. loop'[e] = "done" /\ \A d \in Ends : d # e => loop'[d] = loop[d]
    BY <1>1, <2>1 DEF LoopOK
  <2>3. \A d \in Ends : \A j \in Ids : LineMove(d, j)
    BY <2>1, <2>2 DEF LineMove, Rests, Numbers, Hand
  <2>4. \A j \in Ids : CtxMove(e, j)
    BY <1>5, <2>1, <2>2 DEF CtxMove, Live, ReadLoopErr, Grasped
  <2>5. Grips(e)
    BY <2>2 DEF Grips
  <2> QED
    BY <1>5, <2>1, <2>2, <2>3, <2>4, <2>5, StepEnd
<1> QED
  BY <1>8, <1>9, <1>10, <1>11, <1>12, <1>13, <1>15, <1>16, <1>17, <1>18 DEF Loop

LEMMA StepApplication ==
  ASSUME TypeInv, StageInv, CancelInv, NEW e \in Ends,
         \/ StartAlloc(e) \/ WriteData(e) \/ RegisterHandler(e)
         \/ ConnCancel(e) \/ ConnClose(e) \/ Take(e)
  PROVE  \A d \in Ends : \A j \in Ids : Step(d, j)
<1> USE DEF connVars, loopVars, routeVars, streamVars, clientVars, histVars, rawVars
<1>1. StreamOK /\ ClientOK /\ LifeOK /\ NumInv /\ HandInv
  BY LifeTypes, TypeParts DEF StageInv, TypeInv
<1>2. ASSUME UNCHANGED <<loop, cur>>
      PROVE  \A d \in Ends : Grips(d) /\ \A j \in Ids : Hand(d, j)' = Hand(d, j)
  BY <1>2 DEF Grips, Hand
<1>3. ASSUME UNCHANGED <<conn, loop, cur, closes, stage, cancelled, chClosed, streams>>
      PROVE  \A d \in Ends : \A j \in Ids : CtxMove(d, j)
  BY <1>3, StepSame DEF Kept
<1>4. ASSUME UNCHANGED <<recvCh, loop, cur, wire, sent, finAt, rcvd>>
      PROVE  \A d \in Ends : \A j \in Ids : LineMove(d, j)
  BY <1>4, StepSame DEF Numbers
\* Only the stage of one stream moves on.
<1>5. ASSUME NEW i \in Ids, NEW v \in {"alloc", "held"}, Moves(e, i, v),
             stage[e][i] \in Known \cup {"none"},
             v = "held" => stage[e][i] \in Known, v = "alloc" => stage[e][i] = "none",
             UNCHANGED <<conn, loop, cur, closes, cancelled, chClosed, streams, recvCh,
                         wire, sent, finAt, rcvd>>
      PROVE  \A d \in Ends : \A j \in Ids : Step(d, j)
  <2>1. /\ stage'[e][i] = v
        /\ \A d \in Ends : \A j \in Ids : d # e \/ j # i => stage'[d][j] = stage[d][j]
    BY <1>5, StageMoves
  <2>2. \A d \in Ends : \A j \in Ids :
          /\ Live(d, j)' => Live(d, j)
          /\ stage'[d][j] \in Unborn => stage[d][j] \in Unborn
    BY <1>5, <2>1 DEF Live, ReadLoopErr, Unborn, Known
  <2>3. \A d \in Ends : \A j \in Ids : CtxMove(d, j)
    BY <1>5, <2>2 DEF CtxMove, Kept
  <2> QED
    BY <1>2, <1>4, <1>5, <2>3 DEF Step
<1>6. CASE StartAlloc(e)
  <2>1. PICK i \in Ids : i = nextStreamID[e]
    BY <1>6 DEF StartAlloc
  <2>2. /\ Moves(e, i, "alloc")
        /\ UNCHANGED <<conn, loop, cur, closes, cancelled, chClosed, streams, recvCh,
                       wire, sent, finAt, rcvd>>
    BY <1>6, <2>1 DEF StartAlloc, Moves
  <2>3. stage[e][i] = "none"
    BY <1>1, <2>1, IdsAreNat DEF NumInv
  <2> QED
    BY <1>5, <2>2, <2>3
<1>7. CASE AcceptStream(e)
  <2>1. acceptCh[e] \in Seq(Ids) /\ acceptCh[e] # <<>>
    BY <1>7 DEF AcceptStream, TypeInv, TypeOK
  <2>2. PICK i \in Ids : i = Head(acceptCh[e])
    BY <2>1
  <2>3. /\ Moves(e, i, "held")
        /\ UNCHANGED <<conn, loop, cur, closes, cancelled, chClosed, streams, recvCh,
                       wire, sent, finAt, rcvd>>
    BY <1>7, <2>2 DEF AcceptStream, Moves
  <2>4. stage[e][i] \in Known
    <3>1. 1 \in DOMAIN acceptCh[e] /\ i = acceptCh[e][1]
      BY <2>1, <2>2
    <3> QED
      BY <1>1, <3>1 DEF HandInv, Hands
  <2> QED
    BY <1>5, <2>3, <2>4
<1>8. CASE WriteData(e)
  <2> DEFINE x == Frame(RawId, "raw", rawSent[e] + 1)
  <2>1. /\ Write(e, x)
        /\ UNCHANGED <<conn, loop, cur, closes, stage, cancelled, chClosed, streams,
                       recvCh, sent, finAt, rcvd>>
    BY <1>8 DEF WriteData
  <2>2. x \in Frames /\ x.id = RawId /\ x.flag = "raw"
    <3>1. rawSent[e] + 1 \in Nat
      BY DEF TypeInv, TypeOK
    <3> QED
      BY <3>1, FrameType DEF Flags
  <2> HIDE DEF x
  <2>3. \A j \in Ids : ~IsData(x, j) /\ ~IsFin(x, j)
    BY <2>2 DEF IsData, IsFin
  <2>4. \A d \in Ends : \A j \in Ids : LineMove(d, j)
    BY <1>2, <2>1, <2>2, <2>3, StepWrite
  <2> QED
    BY <1>2, <1>3, <2>1, <2>4 DEF Step
<1>9. CASE RegisterHandler(e) \/ ReadData(e)
  <2>1. UNCHANGED <<conn, loop, cur, closes, stage, cancelled, chClosed, streams,
                    recvCh, wire, sent, finAt, rcvd>>
    BY <1>9 DEF RegisterHandler, ReadData
  <2> QED
    BY <1>2, <1>3, <1>4, <2>1 DEF Step
<1>10. CASE ConnCancel(e)
  <2>1. /\ conn' = [conn EXCEPT ![e] = "cancelled"]
        /\ cancelled' = [cancelled EXCEPT ![e] = [i \in Ids |-> @[i] \/ i \in streams[e]]]
        /\ UNCHANGED <<loop, cur, closes, stage, chClosed, streams, recvCh, wire, sent, finAt, rcvd>>
    BY <1>10 DEF ConnCancel
  <2>2. /\ conn'[e] = "cancelled" /\ \A d \in Ends : d # e => conn'[d] = conn[d]
        /\ cancelled'[e] = [i \in Ids |-> cancelled[e][i] \/ i \in streams[e]]
        /\ \A d \in Ends : d # e => cancelled'[d] = cancelled[d]
    BY <1>1, <2>1 DEF ClientOK, StreamOK
  <2>3. \A j \in Ids : ~Live(e, j)'
    BY <2>2 DEF Live
  <2>4. \A d \in Ends : \A j \in Ids : d # e => Kept(d, j)
    BY <2>1, <2>2 DEF Kept
  <2>5. \A j \in Ids : CtxMove(e, j)
    <3> SUFFICES ASSUME NEW j \in Ids PROVE CtxMove(e, j)
      OBVIOUS
    <3>1. cancelled'[e][j] = (cancelled[e][j] \/ j \in streams[e])
      BY <2>2
    <3>2. cancelled[e][j] \in BOOLEAN
      BY <1>1 DEF StreamOK
    <3>3. stage[e][j] \in Mapped => stage[e][j] \notin Unborn
      BY DEF Mapped, Known, Unborn
    <3>4. j \in streams[e] => stage[e][j] \notin Unborn
      BY <3>3 DEF StageInv, LifeInv, Life
    <3>5. Kept(e, j) \/ Cancelled(e, j)
      <4>1. CASE j \in streams[e]
        BY <2>1, <2>3, <3>1, <3>4, <4>1 DEF Cancelled
      <4>2. CASE j \notin streams[e]
        <5>1. cancelled'[e][j] = cancelled[e][j]
          BY <3>1, <3>2, <4>2
        <5> QED
          BY <2>1, <5>1 DEF Kept
      <4> QED
        BY <4>1, <4>2
    <3> QED
      BY <2>1, <2>3, <3>5 DEF CtxMove
  <2> QED
    BY <1>2, <1>4, <2>1, <2>2, <2>4, <2>5, StepEnd
<1>11. CASE ConnClose(e)
  <2>1. /\ conn[e] \in {"cancelled", "closing"}
        /\ UNCHANGED <<loop, cur, closes, stage, cancelled, chClosed, streams, recvCh,
                       sent, finAt, rcvd>>
    BY <1>11 DEF ConnClose
  <2>2. /\ conn'[e] # "open" /\ \A d \in Ends : d # e => conn'[d] = conn[d]
        /\ wire'[e] = wire[e] \/ (wire'[e] = <<>> /\ conn'[e] = "closed")
        /\ \A d \in Ends : d # e => wire'[d] = wire[d]
    BY <1>1, <1>11 DEF ConnClose, Released, ClientOK, TypeInv, TypeOK
  <2>3. \A d \in Ends : \A j \in Ids :
          Numbers(d, j) /\ Kept(d, j) /\ Rests(d, j) /\ rcvd'[d][j] = rcvd[d][j]
    BY <1>2, <2>1 DEF Numbers, Kept, Rests
  <2>4. \A d \in Ends : \A j \in Ids : LineMove(d, j)
    BY <2>2, <2>3 DEF LineMove, Cleared
  <2>5. \A j \in Ids : CtxMove(e, j)
    BY <2>1, <2>2, <2>3 DEF CtxMove, Live
  <2> QED
    BY <1>2, <2>1, <2>2, <2>3, <2>4, <2>5, StepEnd
<1> QED
  BY <1>6, <1>7, <1>8, <1>9, <1>10, <1>11 DEF Take

LEMMA StepNext ==
  ASSUME TypeInv, StageInv, FlowInv, [Next]_vars
  PROVE  \A d \in Ends : \A j \in Ids : Step(d, j)
<1>1. CASE UNCHANGED vars
  <2>1. UNCHANGED <<recvCh, loop, cur, wire, sent, finAt, rcvd, conn, closes, stage, cancelled,
                    chClosed, streams>>
    BY <1>1 DEF vars, connVars, loopVars, routeVars, streamVars, clientVars, histVars
  <2> QED
    BY <2>1, StepSame DEF Step, Numbers, Kept
<1>2. CASE Next
  BY <1>2, StepLoop, StepApplication, StepCalls DEF Next, Decide, FlowInv
<1> QED
  BY <1>1, <1>2

-----------------------------------------------------------------------------
(* The invariant.                                                          *)
LEMMA FlowTypes ==
  ASSUME TypeInv, NEW d \in Ends, NEW j \in Ids
  PROVE  /\ recvCh[d][j] \in Seq(Frames) /\ wire[d] \in Seq(Frames)
         /\ cur[d] \in Frames /\ Hand(d, j) \in Seq(Frames)
         /\ finAt[Peer(d)][j] \in Nat \cup {-1} /\ sent[Peer(d)][j] \in Nat
         /\ Peer(d) \in Ends /\ Peer(Peer(d)) = d
<1>1. Peer(d) \in Ends /\ Peer(Peer(d)) = d
  BY Owners
<1> QED
  BY <1>1, LineTypes DEF TypeInv, TypeOK

\* The frames stay arranged on every line.
LEMMA MoveFin ==
  ASSUME TypeInv, FinInv, NEW d \in Ends, NEW j \in Ids, LineMove(d, j)
  PROVE  /\ Finishes(recvCh[d][j], Hand(d, j), wire[d], j, finAt[Peer(d)][j])'
         /\ (finAt[Peer(d)][j] <= sent[Peer(d)][j])'
<1> DEFINE p == Peer(d)
           rq == recvCh[d][j]  h == Hand(d, j)  w == wire[d]  n == finAt[p][j]  s == sent[p][j]
           rq2 == recvCh'[d][j]  h2 == Hand(d, j)'  w2 == wire'[d]
           n2 == finAt'[p][j]  s2 == sent'[p][j]
<1>1. /\ rq \in Seq(Frames) /\ w \in Seq(Frames) /\ cur[d] \in Frames /\ h \in Seq(Frames)
      /\ n \in Nat \cup {-1} /\ s \in Nat
  BY FlowTypes
<1>2. Finishes(rq, h, w, j, n) /\ n <= s
  BY FlowTypes DEF FinInv
<1>3. \A c \in Frames : h = <<c>> => <<c>> = h
  OBVIOUS
<1> SUFFICES Finishes(rq2, h2, w2, j, n2) /\ n2 <= s2
  OBVIOUS
<1>4. CASE Rests(d, j) /\ wire'[d] = wire[d] /\ Numbers(d, j)
  BY <1>2, <1>4 DEF Rests, Numbers
<1>5. CASE Joins(d, j)
  <2>1. PICK x \in Frames :
          /\ w2 = Append(w, x) /\ rq2 = rq /\ h2 = h
          /\ IsData(x, j) => x.seq = s + 1
          /\ s2 = IF IsData(x, j) THEN s + 1 ELSE s
          /\ n2 = IF IsFin(x, j) /\ n = -1 THEN s ELSE n
    BY <1>5 DEF Joins, Rests
  <2> HIDE DEF rq, h, w, n, s, rq2, h2, w2, n2, s2
  <2>2. Finishes(rq, h, Append(w, x), j, IF IsFin(x, j) /\ n = -1 THEN s ELSE n)
    BY <1>1, <1>2, <2>1, FinAppend
  <2>3. n2 <= s2
    BY <1>1, <1>2, <2>1
  <2> QED
    BY <2>1, <2>2, <2>3
<1>6. CASE Taken(d, j)
  <2>1. /\ w # <<>> /\ w2 = Tail(w) /\ rq2 = rq /\ h = <<>> /\ n2 = n /\ s2 = s
        /\ h2 = <<Head(w)>> \/ h2 = <<>>
    BY <1>6 DEF Taken, Numbers
  <2> HIDE DEF rq, h, w, n, s, rq2, h2, w2, n2, s2
  <2>2. Finishes(rq, <<Head(w)>>, Tail(w), j, n) /\ Finishes(rq, <<>>, Tail(w), j, n)
    <3>1. Finishes(rq, <<>>, w, j, n)
      BY <1>2, <2>1
    <3> QED
      BY <1>1, <2>1, <3>1, FinRead
  <2> QED
    BY <1>2, <2>1, <2>2
<1>7. CASE GivenUp(d, j) \/ Cleared(d, j)
  <2>1. /\ rq2 = rq /\ n2 = n /\ s2 = s
        /\ \/ h2 = <<>> /\ w2 = w
           \/ h2 = h /\ w2 = <<>>
    BY <1>7 DEF GivenUp, Cleared, Rests, Numbers
  <2> HIDE DEF rq, h, w, n, s, rq2, h2, w2, n2, s2
  <2>2. Finishes(rq, <<>>, w, j, n) /\ Finishes(rq, h, <<>>, j, n)
    BY <1>2, FinDrop
  <2> QED
    BY <1>2, <2>1, <2>2
<1>8. CASE Pushed(d, j)
  <2>1. /\ h = <<cur[d]>> /\ h2 = <<>> /\ rq2 = Append(rq, cur[d]) /\ w2 = w /\ n2 = n /\ s2 = s
    BY <1>8 DEF Pushed, Grasped, Hand, Numbers
  <2> HIDE DEF rq, h, w, n, s, rq2, h2, w2, n2, s2
  <2>2. Finishes(rq, <<cur[d]>>, w, j, n)
    BY <1>2, <2>1
  <2>3. Finishes(Append(rq, cur[d]), <<>>, w, j, n)
    BY <1>1, <2>2, FinPush
  <2> QED
    BY <1>2, <2>1, <2>3
<1>9. CASE Drawn(d, j)
  <2>1. /\ rq # <<>> /\ rq2 = Tail(rq) /\ h2 = h /\ w2 = w /\ n2 = n /\ s2 = s
    BY <1>9 DEF Drawn, Numbers
  <2> HIDE DEF rq, h, w, n, s, rq2, h2, w2, n2, s2
  <2>2. Finishes(Tail(rq), h, w, j, n)
    BY <1>1, <1>2, <2>1, FinRecv
  <2> QED
    BY <1>2, <2>1, <2>2
<1> QED
  BY <1>4, <1>5, <1>6, <1>7, <1>8, <1>9 DEF LineMove

\* Each place holds the kinds of frames it did.
LEMMA MoveKind ==
  ASSUME TypeInv, FlowInv, NEW d \in Ends, NEW j \in Ids, Step(d, j)
  PROVE  KindOf(d, j)'
<1> DEFINE rq == recvCh[d][j]  w == wire[d]  rq2 == recvCh'[d][j]  w2 == wire'[d]
<1>1. rq \in Seq(Frames) /\ w \in Seq(Frames) /\ cur[d] \in Frames
  BY FlowTypes
<1>2. /\ \A k \in DOMAIN w : w[k].id = j => w[k].flag # "raw"
      /\ loop[d] = "push" => cur[d].flag \in {"data", "closewrite"}
      /\ loop[d] = "error" => cur[d].flag = "error"
      /\ \A k \in DOMAIN rq : rq[k].flag \in {"data", "closewrite", "error"}
  BY DEF FlowInv, KindInv, KindOf
<1>3. \/ w2 = w
      \/ w # <<>> /\ w2 = Tail(w)
      \/ w2 = <<>>
      \/ \E x \in Frames : w2 = Append(w, x) /\ (x.id = j => x.flag # "raw")
  BY Owners DEF Step, LineMove, Rests, Joins, Taken, GivenUp, Pushed, Cleared, Drawn
<1>4. \/ rq2 = rq
      \/ rq # <<>> /\ rq2 = Tail(rq)
      \/ loop[d] \in {"push", "error"} /\ rq2 = Append(rq, cur[d])
  BY DEF Step, LineMove, Rests, Joins, Taken, GivenUp, Pushed, Grasped, Cleared, Drawn
<1>5. /\ loop'[d] = "push" => cur'[d].flag \in {"data", "closewrite"}
      /\ loop'[d] = "error" => cur'[d].flag = "error"
  BY <1>2 DEF Step, Grips
<1> HIDE DEF rq, w, rq2, w2
<1>6. \A k \in DOMAIN w2 : w2[k].id = j => w2[k].flag # "raw"
  <2>1. CASE w2 = w
    BY <1>2, <2>1
  <2>2. CASE w # <<>> /\ w2 = Tail(w)
    BY <1>1, <1>2, <2>2, TailOf
  <2>3. CASE w2 = <<>>
    BY <2>3
  <2>4. CASE \E x \in Frames : w2 = Append(w, x) /\ (x.id = j => x.flag # "raw")
    <3>1. PICK x \in Frames : w2 = Append(w, x) /\ (x.id = j => x.flag # "raw")
      BY <2>4
    <3>2. \A k \in DOMAIN w2 : (k \in DOMAIN w /\ w2[k] = w[k]) \/ w2[k] = x
      BY <1>1, <3>1, AppendOf
    <3> QED
      BY <1>2, <3>1, <3>2
  <2> QED
    BY <1>3, <2>1, <2>2, <2>3, <2>4
<1>7. \A k \in DOMAIN rq2 : rq2[k].flag \in {"data", "closewrite", "error"}
  <2>1. CASE rq2 = rq
    BY <1>2, <2>1
  <2>2. CASE rq # <<>> /\ rq2 = Tail(rq)
    BY <1>1, <1>2, <2>2, TailOf
  <2>3. CASE loop[d] \in {"push", "error"} /\ rq2 = Append(rq, cur[d])
    <3>1. \A k \in DOMAIN rq2 : (k \in DOMAIN rq /\ rq2[k] = rq[k]) \/ rq2[k] = cur[d]
      BY <1>1, <2>3, AppendOf
    <3> QED
      BY <1>2, <2>3, <3>1
  <2> QED
    BY <1>4, <2>1, <2>2, <2>3
<1> QED
  BY <1>5, <1>6, <1>7 DEF KindOf, rq, w, rq2, w2

\* A stream that is over for an end stays over.
LEMMA OverStep ==
  ASSUME TypeInv, FlowInv, NEW d \in Ends, NEW j \in Ids, CtxMove(d, j), Over(d, j)
  PROVE  Over(d, j)'
<1>1. CancelOf(d, j)
  BY DEF FlowInv, CancelInv
<1>2. CASE ~Live(d, j)
  BY <1>2 DEF CtxMove, Over
<1>3. CASE Live(d, j) /\ cancelled[d][j] /\ ~chClosed[d][j]
  <2>1. ~Born(d, j)
    BY <1>1, <1>3 DEF Born, CancelOf, Unborn
  <2>2. ASSUME Shut(d, j) PROVE ~Live(d, j)'
    BY <1>1, <1>3, <2>2 DEF Shut, CancelOf
  <2> QED
    BY <1>3, <2>1, <2>2 DEF CtxMove, Over, Kept, Cancelled
<1> QED
  BY <1>2, <1>3 DEF Over

LEMMA MoveCancel ==
  ASSUME TypeInv, StageInv, NoPanic, FlowInv, NEW d \in Ends, NEW j \in Ids, Step(d, j)
  PROVE  CancelOf(d, j)'
<1>1. /\ CancelOf(d, j) /\ CtxMove(d, j) /\ LineMove(d, j) /\ Hands(d)
      /\ recvCh[d][j] \in Seq(Frames) /\ cur[d] \in Frames
  BY FlowTypes DEF FlowInv, CancelInv, Step, StageInv, HandInv
<1>2. Grasped(d, j) => stage[d][j] \in Known /\ ~chClosed[d][j]
  BY <1>1 DEF Grasped, Hands, NoPanic
<1>3. Known \cap Unborn = {} /\ "held" \notin Unborn
  BY DEF Known, Unborn
\* What becomes of recvCh.
<1>4. \/ recvCh'[d][j] = recvCh[d][j]
      \/ /\ recvCh[d][j] # <<>> /\ recvCh'[d][j] = Tail(recvCh[d][j])
         /\ stage[d][j] = "held"
      \/ /\ Grasped(d, j) /\ recvCh'[d][j] = Append(recvCh[d][j], cur[d])
         /\ loop[d] = "error" => j \notin streams'[d]
  BY <1>1 DEF LineMove, Rests, Joins, Taken, GivenUp, Pushed, Cleared, Drawn
<1>5. stage'[d][j] \in Unborn =>
        recvCh'[d][j] = <<>> /\ ~cancelled'[d][j] /\ ~chClosed'[d][j]
  <2>1. ASSUME stage'[d][j] \in Unborn
        PROVE  stage[d][j] \in Unborn /\ Kept(d, j)
    BY <1>1, <2>1 DEF CtxMove, Born, Cancelled, Shut
  <2>2. ASSUME stage[d][j] \in Unborn PROVE recvCh'[d][j] = recvCh[d][j]
    BY <1>2, <1>3, <1>4, <2>2
  <2> QED
    BY <1>1, <2>1, <2>2 DEF CancelOf, Kept, Unborn
<1>6. chClosed'[d][j] => cancelled'[d][j]
  BY <1>1 DEF CtxMove, CancelOf, Kept, Born, Cancelled, Shut
<1>7. cancelled'[d][j] /\ j \in streams'[d] =>
        ~Live(d, j)' \/ (loop'[d] = "error" /\ cur'[d].id = j)
  <2>1. ASSUME Kept(d, j), cancelled'[d][j], j \in streams'[d]
        PROVE  ~Live(d, j)' \/ (loop'[d] = "error" /\ cur'[d].id = j)
    <3>1. ~Live(d, j) \/ (loop[d] = "error" /\ cur[d].id = j)
      BY <1>1, <2>1 DEF CancelOf, Kept
    <3>2. CASE ~Live(d, j)
      BY <1>1, <3>2 DEF CtxMove
    <3>3. CASE loop[d] = "error" /\ cur[d].id = j
      BY <1>1, <2>1, <3>3 DEF CtxMove, Grasped
    <3> QED
      BY <3>1, <3>2, <3>3
  <2>2. Refused(d, j) => j \notin streams[d]
    BY <1>1 DEF CancelOf
  <2> QED
    BY <1>1, <2>1, <2>2 DEF CtxMove, Born, Cancelled, Shut
<1>8. Refused(d, j)' => j \notin streams'[d] /\ Over(d, j)'
  <2>1. SUFFICES ASSUME Refused(d, j)' PROVE j \notin streams'[d] /\ Over(d, j)'
    OBVIOUS
  <2>2. ~Born(d, j)
    BY <2>1 DEF Refused, Born
  <2>3. j \in streams'[d] => j \in streams[d]
    BY <1>1, <2>2 DEF CtxMove, Kept, Cancelled, Shut
  <2>4. CASE Refused(d, j)
    BY <1>1, <2>3, <2>4, OverStep DEF CancelOf
  <2>5. CASE ~Refused(d, j)
    <3>1. /\ Grasped(d, j) /\ recvCh'[d][j] = Append(recvCh[d][j], cur[d])
          /\ loop[d] = "error" => j \notin streams'[d]
      <4>1. recvCh'[d][j] # recvCh[d][j]
        BY <2>1, <2>5 DEF Refused
      <4>2. ASSUME recvCh[d][j] # <<>>, recvCh'[d][j] = Tail(recvCh[d][j]) PROVE FALSE
        BY <1>1, <2>1, <2>5, <4>2, TailOf DEF Refused
      <4> QED
        BY <1>4, <4>1, <4>2
    <3>2. cur[d].flag = "error"
      <4>1. \A k \in DOMAIN recvCh'[d][j] :
              (k \in DOMAIN recvCh[d][j] /\ recvCh'[d][j][k] = recvCh[d][j][k])
                \/ recvCh'[d][j][k] = cur[d]
        BY <1>1, <3>1, AppendOf
      <4> QED
        BY <2>1, <2>5, <4>1 DEF Refused
    <3>3. loop[d] = "error"
      BY <3>1, <3>2 DEF FlowInv, KindInv, KindOf, Grasped
    <3>4. cancelled[d][j] /\ ~chClosed[d][j]
      BY <1>1, <1>2, <3>1, <3>3 DEF Hands, Grasped
    <3>5. Over(d, j)
      BY <3>4 DEF Over
    <3> QED
      BY <1>1, <3>1, <3>3, <3>5, OverStep
  <2> QED
    BY <2>4, <2>5
<1> QED
  BY <1>5, <1>6, <1>7, <1>8 DEF CancelOf, Unborn

LEMMA MoveShut ==
  ASSUME TypeInv, FlowInv, NEW d \in Ends, NEW j \in Ids, Step(d, j),
         chClosed'[d][j], Live(d, j)'
  PROVE  /\ finAt'[Peer(d)][j] # -1
         /\ \A k \in DOMAIN wire'[d] :
              IsData(wire'[d][k], j) => finAt'[Peer(d)][j] < wire'[d][k].seq
<1> DEFINE p == Peer(d)
           w == wire[d]  n == finAt[p][j]  s == sent[p][j]  w2 == wire'[d]  n2 == finAt'[p][j]
<1>1. /\ CtxMove(d, j) /\ LineMove(d, j) /\ Live(d, j)
      /\ w \in Seq(Frames) /\ n \in Nat \cup {-1} /\ s \in Nat
  BY FlowTypes DEF Step, CtxMove
<1>2. Finishes(recvCh[d][j], Hand(d, j), w, j, n) /\ n <= s
  BY FlowTypes DEF FlowInv, FinInv
<1>3. chClosed[d][j] \/ Shut(d, j)
  BY <1>1 DEF CtxMove, Kept, Born, Cancelled
<1>4. CASE Shut(d, j)
  <2>1. w # <<>> /\ IsFin(Head(w), j) /\ w2 = Tail(w) /\ n2 = n
    BY <1>4 DEF Shut, Numbers
  <2> HIDE DEF w, n, s, w2, n2
  <2>2. /\ 1 \in DOMAIN w /\ Head(w) = w[1]
        /\ \A k \in DOMAIN w2 : k + 1 \in DOMAIN w /\ w2[k] = w[k + 1] /\ 1 < k + 1
    <3>1. DOMAIN Tail(w) \subseteq Nat \ {0}
      BY <1>1, <2>1, TailOf
    <3>2. \A k \in Nat \ {0} : 1 < k + 1
      OBVIOUS
    <3> QED
      BY <1>1, <2>1, <3>1, <3>2, TailOf
  <2>3. n # -1
    BY <1>2, <2>1, <2>2 DEF Finishes, NoFins
  <2>4. \A k \in DOMAIN w2 : IsData(w2[k], j) => n < w2[k].seq
    BY <1>2, <2>1, <2>2 DEF Finishes, Arranged, MayPrecede
  <2> QED
    BY <2>1, <2>3, <2>4 DEF w2, n2
<1>5. CASE chClosed[d][j]
  <2>1. n # -1 /\ \A k \in DOMAIN w : IsData(w[k], j) => n < w[k].seq
    BY <1>1, <1>5 DEF FlowInv, ShutInv
  <2>2. \/ w2 = w /\ n2 = n
        \/ w # <<>> /\ w2 = Tail(w) /\ n2 = n
        \/ w2 = <<>> /\ n2 = n
        \/ \E x \in Frames : /\ w2 = Append(w, x) /\ n2 = n
                             /\ IsData(x, j) => x.seq = s + 1
    BY <1>1, <2>1 DEF LineMove, Rests, Numbers, Joins, Taken, GivenUp, Pushed, Cleared, Drawn
  <2> HIDE DEF w, n, s, w2, n2
  <2>3. CASE w2 = w /\ n2 = n
    BY <2>1, <2>3 DEF w2, n2
  <2>4. CASE w # <<>> /\ w2 = Tail(w) /\ n2 = n
    <3>1. \A k \in DOMAIN w2 : k + 1 \in DOMAIN w /\ w2[k] = w[k + 1]
      BY <1>1, <2>4, TailOf
    <3> QED
      BY <2>1, <2>4, <3>1 DEF w2, n2
  <2>5. CASE w2 = <<>> /\ n2 = n
    BY <2>1, <2>5 DEF w2, n2
  <2>6. ASSUME NEW x \in Frames, w2 = Append(w, x), n2 = n, IsData(x, j) => x.seq = s + 1
        PROVE  \A k \in DOMAIN w2 : IsData(w2[k], j) => n < w2[k].seq
    <3>1. \A k \in DOMAIN w2 : (k \in DOMAIN w /\ w2[k] = w[k]) \/ w2[k] = x
      BY <1>1, <2>6, AppendOf
    <3>2. n < s + 1
      BY <1>1, <1>2
    <3> QED
      BY <2>1, <2>6, <3>1, <3>2
  <2> QED
    BY <2>1, <2>2, <2>3, <2>4, <2>5, <2>6 DEF w2, n2
<1> QED
  BY <1>3, <1>4, <1>5

LEMMA FlowInit == Init => FlowInv
<1> SUFFICES ASSUME Init PROVE FlowInv
  OBVIOUS
<1>1. \A e \in Ends : wire[e] = <<>> /\ loop[e] = "read" /\ streams[e] = {}
  BY DEF Init
<1>2. \A e \in Ends : \A i \in Ids :
        /\ recvCh[e][i] = <<>> /\ Hand(e, i) = <<>> /\ ~cancelled[e][i] /\ ~chClosed[e][i]
        /\ finAt[e][i] = -1 /\ sent[e][i] = 0 /\ finAt[Peer(e)][i] = -1
  BY Owners DEF Init, PerStream, Hand
<1>3. DOMAIN <<>> = {}
  OBVIOUS
<1>4. FinInv
  BY <1>1, <1>2, <1>3 DEF FinInv, Finishes, Arranged, Apart, NoFins
<1>5. KindInv /\ CancelInv /\ ShutInv
  BY <1>1, <1>2, <1>3 DEF KindInv, KindOf, CancelInv, CancelOf, Refused, ShutInv
<1> QED
  BY <1>4, <1>5 DEF FlowInv

LEMMA FlowNext == TypeInv /\ StageInv /\ NoPanic /\ FlowInv /\ [Next]_vars => FlowInv'
<1> SUFFICES ASSUME TypeInv, StageInv, NoPanic, FlowInv, [Next]_vars PROVE FlowInv'
  OBVIOUS
<1>1. \A d \in Ends : \A j \in Ids : Step(d, j)
  BY StepNext
<1>2. FinInv'
  <2> SUFFICES ASSUME NEW d \in Ends, NEW j \in Ids
               PROVE  /\ Finishes(recvCh[d][j], Hand(d, j), wire[d], j, finAt[Peer(d)][j])'
                      /\ (finAt[d][j] <= sent[d][j])'
    BY DEF FinInv
  <2>1. Finishes(recvCh[d][j], Hand(d, j), wire[d], j, finAt[Peer(d)][j])'
    BY <1>1, MoveFin DEF Step, FlowInv
  <2>2. Peer(d) \in Ends /\ Peer(Peer(d)) = d
    BY Owners
  <2>3. (finAt[Peer(Peer(d))][j] <= sent[Peer(Peer(d))][j])'
    BY <1>1, <2>2, MoveFin DEF Step, FlowInv
  <2> QED
    BY <2>1, <2>2, <2>3
<1>3. KindInv'
  BY <1>1, MoveKind DEF KindInv
<1>4. CancelInv'
  BY <1>1, MoveCancel DEF CancelInv
<1>5. ShutInv'
  BY <1>1, MoveShut DEF ShutInv
<1> QED
  BY <1>2, <1>3, <1>4, <1>5 DEF FlowInv

-----------------------------------------------------------------------------
(* What may still be received at the end of a line, and what a step does   *)
(* to it.                                                                  *)
On(d, j) ==
  Payloads(j, recvCh[d][j]) \cup Payloads(j, Hand(d, j)) \cup Payloads(j, wire[d])

LEMMA PayJoins ==
  ASSUME NEW i, NEW q \in Seq(Frames), NEW r \in Seq(Frames), NEW w \in Seq(Frames)
  PROVE  Payloads(i, q \o r \o w) = Payloads(i, q) \cup Payloads(i, r) \cup Payloads(i, w)
<1>1. q \o r \in Seq(Frames) /\ Payloads(i, q \o r) = Payloads(i, q) \cup Payloads(i, r)
  BY PayJoin, ConcatProperties
<1>2. Payloads(i, (q \o r) \o w) = Payloads(i, q \o r) \cup Payloads(i, w)
  BY <1>1, PayJoin
<1> QED
  BY <1>1, <1>2

LEMMA OnLine ==
  ASSUME NEW d \in Ends, NEW j \in Ids
  PROVE  /\ TypeInv => Payloads(j, Line(d, j)) = On(d, j)
         /\ TypeInv' => (Payloads(j, Line(d, j)) = On(d, j))'
<1>1. ASSUME TypeInv PROVE Payloads(j, Line(d, j)) = On(d, j)
  <2>1. recvCh[d][j] \in Seq(Frames) /\ Hand(d, j) \in Seq(Frames) /\ wire[d] \in Seq(Frames)
    BY <1>1, FlowTypes
  <2> QED
    BY <2>1, PayJoins DEF Line, On
<1>2. ASSUME TypeInv' PROVE (Payloads(j, Line(d, j)) = On(d, j))'
  <2>1. recvCh'[d][j] \in Seq(Frames) /\ wire'[d] \in Seq(Frames) /\ cur'[d] \in Frames
    BY <1>2 DEF TypeInv, TypeOK
  <2>2. Hand(d, j)' \in Seq(Frames)
    BY <2>1 DEF Hand
  <2>3. /\ Line(d, j)' = recvCh'[d][j] \o Hand(d, j)' \o wire'[d]
        /\ On(d, j)' = Payloads(j, recvCh'[d][j]) \cup Payloads(j, Hand(d, j)')
                         \cup Payloads(j, wire'[d])
    BY DEF Line, On
  <2> QED
    BY <2>1, <2>2, <2>3, PayJoins
<1> QED
  BY <1>1, <1>2

\* The payloads on a line lie between what was received and what was sent.
LEMMA OnBounds ==
  ASSUME TypeInv, LineInv, NEW d \in Ends, NEW j \in Ids, NEW m \in On(d, j)
  PROVE  m \in Nat /\ rcvd[d][j] < m /\ m <= sent[Peer(d)][j]
<1> DEFINE rq == recvCh[d][j]  h == Hand(d, j)  w == wire[d]
           lo == rcvd[d][j]  hi == sent[Peer(d)][j]
<1>1. rq \in Seq(Frames) /\ h \in Seq(Frames) /\ w \in Seq(Frames)
  BY FlowTypes
<1>2. Ordered(rq, h, w, j, lo, hi)
  BY DEF LineInv, OrderInv
<1>3. m \in Payloads(j, rq) \/ m \in Payloads(j, h) \/ m \in Payloads(j, w)
  BY DEF On
<1> HIDE DEF rq, h, w, lo, hi
<1>4. ASSUME NEW q \in Seq(Frames), Between(q, j, lo, hi), m \in Payloads(j, q)
      PROVE  m \in Nat /\ lo < m /\ m <= hi
  <2>1. PICK k \in DOMAIN q : IsData(q[k], j) /\ q[k].seq = m
    BY <1>4, InPayloads
  <2>2. q[k] \in Frames
    OBVIOUS
  <2> QED
    BY <1>4, <2>1, <2>2, SeqNat DEF Between
<1>5. m \in Nat /\ lo < m /\ m <= hi
  BY <1>1, <1>2, <1>3, <1>4 DEF Ordered
<1> QED
  BY <1>5 DEF lo, hi

\* A frame that is received.
LEMMA DrawnOn ==
  ASSUME TypeInv, LineInv, FlowInv, NEW d \in Ends, NEW j \in Ids, Drawn(d, j)
  PROVE  LET f == Head(recvCh[d][j]) IN
         /\ IF f.flag = "data"
            THEN /\ f.seq \in On(d, j) /\ \A m \in On(d, j) : f.seq <= m
                 /\ On(d, j)' = On(d, j) \ {f.seq} /\ rcvd'[d][j] = f.seq
            ELSE On(d, j)' = On(d, j) /\ rcvd'[d][j] = rcvd[d][j]
         /\ f.flag \in {"data", "closewrite", "error"}
         /\ f.flag = "error" => Refused(d, j)
         /\ f.flag = "closewrite" =>
              finAt[Peer(d)][j] # -1 /\ \A m \in On(d, j) : finAt[Peer(d)][j] < m
<1> DEFINE rq == recvCh[d][j]  h == Hand(d, j)  w == wire[d]  f == Head(rq)  t == Tail(rq)
           n == finAt[Peer(d)][j]  lo == rcvd[d][j]  hi == sent[Peer(d)][j]
           A == Payloads(j, rq)  B == Payloads(j, h)  C == Payloads(j, w)
           T == Payloads(j, t)
<1>1. /\ rq \in Seq(Frames) /\ h \in Seq(Frames) /\ w \in Seq(Frames) /\ t \in Seq(Frames)
      /\ rq # <<>> /\ 1 \in DOMAIN rq /\ f = rq[1] /\ f \in Frames
      /\ DOMAIN t \subseteq Nat \ {0}
      /\ \A k \in DOMAIN t : k + 1 \in DOMAIN rq /\ t[k] = rq[k + 1]
  <2>1. rq \in Seq(Frames) /\ h \in Seq(Frames) /\ w \in Seq(Frames) /\ rq # <<>>
    BY FlowTypes DEF Drawn
  <2> HIDE DEF rq, h, w
  <2> QED
    BY <2>1, TailOf, TakeType
<1>2. /\ f.id = j /\ f.flag \in {"data", "closewrite", "error"}
      /\ Ordered(rq, h, w, j, lo, hi) /\ Finishes(rq, h, w, j, n)
  <2>1. rq[1].id = j
    BY <1>1 DEF LineInv, PlainInv
  <2>2. rq[1].flag \in {"data", "closewrite", "error"}
    BY <1>1 DEF FlowInv, KindInv, KindOf
  <2>3. Ordered(rq, h, w, j, lo, hi) /\ Finishes(rq, h, w, j, n)
    BY DEF LineInv, OrderInv, FlowInv, FinInv
  <2> QED
    BY <1>1, <2>1, <2>2, <2>3
<1>3. /\ On(d, j) = A \cup B \cup C /\ On(d, j)' = T \cup B \cup C
      /\ rcvd'[d][j] = IF f.flag \in {"closewrite", "error"} THEN rcvd[d][j] ELSE f.seq
  BY DEF Drawn, On
<1>4. f.flag = "error" => Refused(d, j)
  BY <1>1 DEF Refused
<1> HIDE DEF rq, h, w, f, t, n, lo, hi
<1>5. A = T \cup Own(f, j)
  BY <1>1, PayTail DEF f, t
<1> HIDE DEF A, B, C, T
\* What comes after the first frame.
<1>6. ASSUME NEW m \in T \cup B \cup C
      PROVE  \/ \E k \in DOMAIN rq : 1 < k /\ IsData(rq[k], j) /\ rq[k].seq = m
             \/ \E k \in DOMAIN h : IsData(h[k], j) /\ h[k].seq = m
             \/ \E k \in DOMAIN w : IsData(w[k], j) /\ w[k].seq = m
  <2>1. CASE m \in T
    <3>1. PICK k \in DOMAIN t : IsData(t[k], j) /\ t[k].seq = m
      BY <2>1, InPayloads DEF T
    <3>2. k \in Nat \ {0}
      BY <1>1
    <3>3. 1 < k + 1 /\ k + 1 \in DOMAIN rq /\ IsData(rq[k + 1], j) /\ rq[k + 1].seq = m
      BY <1>1, <3>1, <3>2
    <3> QED
      BY <3>3
  <2>2. CASE m \in B \/ m \in C
    BY <2>2, InPayloads DEF B, C
  <2> QED
    BY <2>1, <2>2
<1>7. f.flag = "data" => \A m \in T \cup B \cup C : f.seq < m
  <2> SUFFICES ASSUME f.flag = "data", NEW m \in T \cup B \cup C PROVE f.seq < m
    OBVIOUS
  <2>1. IsData(rq[1], j) /\ f.seq = rq[1].seq
    BY <1>1, <1>2 DEF IsData
  <2> QED
    BY <1>1, <1>2, <1>6, <2>1 DEF Ordered, Sorted, Before
<1>8. f.flag = "closewrite" => n # -1 /\ \A m \in T \cup B \cup C : n < m
  <2> SUFFICES ASSUME f.flag = "closewrite"
               PROVE  n # -1 /\ \A m \in T \cup B \cup C : n < m
    OBVIOUS
  <2>1. IsFin(rq[1], j)
    BY <1>1, <1>2 DEF IsFin
  <2>2. n # -1
    BY <1>1, <1>2, <2>1 DEF Finishes, NoFins
  <2>3. ASSUME NEW m \in T \cup B \cup C PROVE n < m
    BY <1>1, <1>2, <1>6, <2>1 DEF Finishes, Arranged, Apart, MayPrecede
  <2> QED
    BY <2>2, <2>3
<1>9. CASE f.flag = "data"
  <2>1. Own(f, j) = {f.seq} /\ f.seq \in Nat
    BY <1>1, <1>2, <1>9, SeqNat DEF Own, IsData
  <2>2. \A m \in T \cup B \cup C : f.seq <= m /\ f.seq # m
    <3> SUFFICES ASSUME NEW m \in T \cup B \cup C PROVE f.seq <= m /\ f.seq # m
      OBVIOUS
    <3>1. f.seq < m
      BY <1>7, <1>9
    <3>2. m \in Nat
      BY <1>3, <1>5, OnBounds
    <3> QED
      BY <2>1, <3>1, <3>2
  <2>3. /\ f.seq \in On(d, j) /\ \A m \in On(d, j) : f.seq <= m
        /\ On(d, j)' = On(d, j) \ {f.seq}
    BY <1>3, <1>5, <2>1, <2>2
  <2> QED
    BY <1>3, <1>9, <2>3 DEF f, rq
<1>10. CASE f.flag # "data"
  <2>1. Own(f, j) = {}
    BY <1>10 DEF Own, IsData
  <2>2. On(d, j)' = On(d, j) /\ On(d, j) = T \cup B \cup C
    BY <1>3, <1>5, <2>1
  <2>3. rcvd'[d][j] = rcvd[d][j]
    BY <1>2, <1>3, <1>10
  <2> QED
    BY <1>2, <1>4, <1>8, <1>10, <2>2, <2>3 DEF f, rq, n
<1> QED
  BY <1>9, <1>10

\* Every step leaves what is on a line there, adds the payload that is sent,
\* takes the one that is received, or loses some of a stream that has ended.
LosesAt(d, j) ==
  /\ sent'[Peer(d)][j] = sent[Peer(d)][j] /\ rcvd'[d][j] = rcvd[d][j]
  /\ On(d, j)' \subseteq On(d, j)
  /\ ~Live(d, j)' \/ cancelled'[d][j]
  /\ ~Over(d, j)' => \A m \in On(d, j) \ On(d, j)' :
                       finAt[Peer(d)][j] # -1 /\ finAt[Peer(d)][j] < m
KeepsAt(d, j) ==
  /\ sent'[Peer(d)][j] = sent[Peer(d)][j] /\ rcvd'[d][j] = rcvd[d][j]
  /\ On(d, j)' = On(d, j)
SendsAt(d, j) ==
  LET s == sent[Peer(d)][j] IN
  /\ sent'[Peer(d)][j] = s + 1 /\ rcvd'[d][j] = rcvd[d][j]
  /\ On(d, j)' = On(d, j) \cup {s + 1}
TakesAt(d, j) ==
  \E m \in On(d, j) :
    /\ \A k \in On(d, j) : m <= k
    /\ sent'[Peer(d)][j] = sent[Peer(d)][j] /\ rcvd'[d][j] = m
    /\ On(d, j)' = On(d, j) \ {m}

LEMMA MoveOn ==
  ASSUME TypeInv, LineInv, StageInv, NoPanic, FlowInv,
         NEW d \in Ends, NEW j \in Ids, Step(d, j)
  PROVE  KeepsAt(d, j) \/ SendsAt(d, j) \/ TakesAt(d, j) \/ LosesAt(d, j)
<1> DEFINE p == Peer(d)
           rq == recvCh[d][j]  h == Hand(d, j)  w == wire[d]  s == sent[p][j]  n == finAt[p][j]
           rq2 == recvCh'[d][j]  h2 == Hand(d, j)'  w2 == wire'[d]
<1>1. /\ rq \in Seq(Frames) /\ w \in Seq(Frames) /\ cur[d] \in Frames /\ h \in Seq(Frames)
      /\ CtxMove(d, j) /\ LineMove(d, j)
  BY FlowTypes DEF Step
<1>2. /\ On(d, j) = Payloads(j, rq) \cup Payloads(j, h) \cup Payloads(j, w)
      /\ On(d, j)' = Payloads(j, rq2) \cup Payloads(j, h2) \cup Payloads(j, w2)
  BY DEF On
<1>3. CASE Rests(d, j) /\ wire'[d] = wire[d] /\ Numbers(d, j) /\ rcvd'[d][j] = rcvd[d][j]
  BY <1>2, <1>3 DEF Rests, Numbers, KeepsAt
<1>4. CASE Joins(d, j) /\ rcvd'[d][j] = rcvd[d][j]
  <2>1. PICK x \in Frames :
          /\ w2 = Append(w, x) /\ rq2 = rq /\ h2 = h
          /\ IsData(x, j) => x.seq = s + 1
          /\ sent'[p][j] = IF IsData(x, j) THEN s + 1 ELSE s
    BY <1>4 DEF Joins, Rests
  <2>2. Payloads(j, Append(w, x)) = Payloads(j, w) \cup Own(x, j)
    BY <1>1, PayAppend
  <2>3. On(d, j)' = On(d, j) \cup Own(x, j)
    BY <1>2, <2>1, <2>2
  <2>4. CASE IsData(x, j)
    BY <1>4, <2>1, <2>3, <2>4 DEF Own, SendsAt
  <2>5. CASE ~IsData(x, j)
    BY <1>4, <2>1, <2>3, <2>5 DEF Own, KeepsAt
  <2> QED
    BY <2>4, <2>5
<1>5. CASE Taken(d, j) /\ rcvd'[d][j] = rcvd[d][j]
  <2>1. /\ w # <<>> /\ w2 = Tail(w) /\ rq2 = rq /\ h = <<>>
        /\ sent'[p][j] = s /\ finAt'[p][j] = n
    BY <1>5 DEF Taken, Numbers
  <2>2. Payloads(j, w) = Payloads(j, w2) \cup Own(Head(w), j) /\ Payloads(j, h) = {}
    BY <1>1, <2>1, PayTail, PayShort
  <2>3. CASE h2 = <<Head(w)>>
    <3>1. Payloads(j, h2) = Own(Head(w), j)
      BY <2>3, PayShort
    <3> QED
      BY <1>2, <1>5, <2>1, <2>2, <3>1 DEF KeepsAt
  <2>4. CASE h2 = <<>> /\ ~IsData(Head(w), j)
    <3>1. Payloads(j, h2) = {} /\ Own(Head(w), j) = {}
      BY <2>4, PayShort DEF Own
    <3> QED
      BY <1>2, <1>5, <2>1, <2>2, <3>1 DEF KeepsAt
  <2>5. CASE h2 = <<>> /\ IsData(Head(w), j) /\ cancelled[d][j]
    <3>1. Payloads(j, h2) = {} /\ Own(Head(w), j) = {Head(w).seq}
      BY <2>5, PayShort DEF Own
    <3>2. On(d, j)' \subseteq On(d, j) /\ On(d, j) \ On(d, j)' \subseteq {Head(w).seq}
      BY <1>2, <2>1, <2>2, <3>1
    <3>3. cancelled'[d][j]
      BY <1>1, <2>5
      DEF CtxMove, Kept, Born, Cancelled, Shut, FlowInv, CancelInv, CancelOf, Unborn
    <3>4. ~Over(d, j)' => n # -1 /\ n < Head(w).seq
      <4> SUFFICES ASSUME ~Over(d, j)' PROVE n # -1 /\ n < Head(w).seq
        OBVIOUS
      <4>1. Live(d, j) /\ chClosed[d][j]
        BY <1>1, <2>5, OverStep DEF Over
      <4>2. 1 \in DOMAIN w /\ Head(w) = w[1]
        BY <1>1, <2>1, TailOf
      <4> QED
        BY <2>5, <4>1, <4>2 DEF FlowInv, ShutInv
    <3> QED
      BY <1>5, <2>1, <3>2, <3>3, <3>4 DEF LosesAt
  <2> QED
    BY <1>5, <2>3, <2>4, <2>5 DEF Taken
<1>6. CASE GivenUp(d, j) /\ rcvd'[d][j] = rcvd[d][j]
  <2>1. /\ w2 = w /\ rq2 = rq /\ h2 = <<>> /\ sent'[p][j] = s /\ finAt'[p][j] = n
        /\ cancelled[d][j] /\ Grasped(d, j)
    BY <1>6 DEF GivenUp, Numbers
  <2>2. On(d, j)' \subseteq On(d, j)
    BY <1>2, <2>1, PayShort
  <2>3. Over(d, j) /\ Over(d, j)'
    BY <1>1, <2>1, OverStep DEF Over, NoPanic, Grasped
  <2> QED
    BY <1>6, <2>1, <2>2, <2>3 DEF LosesAt, Over
<1>7. CASE Pushed(d, j) /\ rcvd'[d][j] = rcvd[d][j]
  <2>1. /\ w2 = w /\ rq2 = Append(rq, cur[d]) /\ h = <<cur[d]>> /\ h2 = <<>>
        /\ sent'[p][j] = s
    BY <1>7 DEF Pushed, Numbers, Grasped, Hand
  <2>2. /\ Payloads(j, rq2) = Payloads(j, rq) \cup Own(cur[d], j)
        /\ Payloads(j, h) = Own(cur[d], j) /\ Payloads(j, h2) = {}
    BY <1>1, <2>1, PayAppend, PayShort
  <2> QED
    BY <1>2, <1>7, <2>1, <2>2 DEF KeepsAt
<1>8. CASE Cleared(d, j) /\ rcvd'[d][j] = rcvd[d][j]
  <2>1. /\ w2 = <<>> /\ rq2 = rq /\ h2 = h /\ sent'[p][j] = s /\ ~Live(d, j)'
    BY <1>8 DEF Cleared, Rests, Numbers, Live
  <2>2. On(d, j)' \subseteq On(d, j)
    BY <1>2, <2>1, PayShort
  <2> QED
    BY <1>8, <2>1, <2>2 DEF LosesAt, Over
<1>9. CASE Drawn(d, j)
  <2>1. sent'[p][j] = s
    BY <1>9 DEF Drawn, Numbers
  <2>2. CASE Head(rq).flag = "data"
    BY <1>9, <2>1, <2>2, DrawnOn DEF TakesAt
  <2>3. CASE Head(rq).flag # "data"
    BY <1>9, <2>1, <2>3, DrawnOn DEF KeepsAt
  <2> QED
    BY <2>2, <2>3
<1> QED
  BY <1>1, <1>3, <1>4, <1>5, <1>6, <1>7, <1>8, <1>9 DEF LineMove

LEMMA LossNext ==
  TypeInv /\ LineInv /\ StageInv /\ NoPanic /\ FlowInv /\ NoLoss /\ [Next]_vars => NoLoss'
<1> SUFFICES ASSUME TypeInv, LineInv, StageInv, NoPanic, FlowInv, NoLoss, [Next]_vars
             PROVE  NoLoss'
  OBVIOUS
<1>1. TypeInv'
  BY TypeNext
<1>2. ASSUME NEW d \in Ends, NEW j \in Ids
      PROVE  {Line(d, j)[k].seq : k \in DataOf(j, Line(d, j))} = On(d, j)
  BY OnLine DEF Payloads
<1>3. ASSUME NEW d \in Ends, NEW j \in Ids
      PROVE  ({Line(d, j)[k].seq : k \in DataOf(j, Line(d, j))} = On(d, j))'
  BY <1>1, OnLine DEF Payloads
<1> SUFFICES ASSUME NEW d \in Ends, NEW j \in Ids, Live(d, j)', ~cancelled'[d][j]
             PROVE  On(d, j)' = (rcvd'[d][j] + 1) .. sent'[Peer(d)][j]
  BY <1>3 DEF NoLoss
<1>4. Step(d, j) /\ CtxMove(d, j) /\ CancelOf(d, j)
  BY StepNext DEF Step, FlowInv, CancelInv
<1>5. Live(d, j) /\ ~cancelled[d][j]
  BY <1>4 DEF CtxMove, Kept, Born, Cancelled, Shut, CancelOf, Unborn
<1> DEFINE lo == rcvd[d][j]  hi == sent[Peer(d)][j]
<1>6. On(d, j) = (lo + 1) .. hi /\ lo \in Nat /\ hi \in Nat /\ lo <= hi
  BY <1>2, <1>5, LineTypes DEF NoLoss, LineInv, OrderInv
<1>7. CASE KeepsAt(d, j)
  BY <1>6, <1>7 DEF KeepsAt
<1>8. CASE SendsAt(d, j)
  BY <1>6, <1>8 DEF SendsAt
<1>9. CASE TakesAt(d, j)
  <2>1. PICK m \in On(d, j) :
          /\ \A k \in On(d, j) : m <= k
          /\ sent'[Peer(d)][j] = hi /\ rcvd'[d][j] = m /\ On(d, j)' = On(d, j) \ {m}
    BY <1>9 DEF TakesAt
  <2>2. m = lo + 1
    BY <1>6, <2>1
  <2> QED
    BY <1>6, <2>1, <2>2
<1>10. ~LosesAt(d, j)
  BY DEF LosesAt
<1> QED
  BY <1>4, <1>7, <1>8, <1>9, <1>10, MoveOn

LEMMA LossInit == Init => NoLoss
<1> SUFFICES ASSUME Init, NEW d \in Ends, NEW j \in Ids
             PROVE  {Line(d, j)[k].seq : k \in DataOf(j, Line(d, j))}
                      = (rcvd[d][j] + 1) .. sent[Peer(d)][j]
  BY DEF NoLoss
<1>1. /\ recvCh[d][j] = <<>> /\ Hand(d, j) = <<>> /\ wire[d] = <<>>
      /\ rcvd[d][j] = 0 /\ sent[Peer(d)][j] = 0
  BY Owners DEF Init, PerStream, Hand
<1>2. Line(d, j) = <<>> \o <<>> \o <<>>
  BY <1>1 DEF Line
<1>3. Line(d, j) = <<>> /\ DOMAIN <<>> = {}
  BY <1>2
<1> QED
  BY <1>1, <1>3 DEF DataOf

\* A stream that neither its end nor a failure has ended loses no payload:
\* what was sent and not received is in recvCh, with the loop or on the wire,
\* for any number of streams and any capacities.
THEOREM NothingLost == Spec => []NoLoss
<1>1. NoPanic /\ TypeInv /\ [Next]_vars => NoPanic'
  BY NoPanicNext
<1>2. Init => NoPanic
  BY DEF Init, NoPanic
<1> QED
  BY <1>1, <1>2, TypeInit, TypeNext, LineInit, LineNext, StageInit, StageNext,
     FlowInit, FlowNext, LossInit, LossNext, PTL DEF Spec

-----------------------------------------------------------------------------
(* The abstract state, line by line.                                       *)
LEMMA LineOf ==
  /\ \A l \in Lines : l[1] \in Ends /\ l[2] \in Ids /\ l = <<l[1], l[2]>>
  /\ \A d \in Ends : \A j \in Ids : <<d, j>> \in Lines /\ <<d, j>>[1] = d /\ <<d, j>>[2] = j
  BY DEF Lines

LEMMA AbstractAt ==
  ASSUME TypeInv, TypeInv', NEW l \in Lines
  PROVE  LET d == l[1]  j == l[2] IN
         /\ Sent[l] = sent[Peer(d)][j] /\ Sent'[l] = sent'[Peer(d)][j]
         /\ Received[l] = rcvd[d][j] /\ Received'[l] = rcvd'[d][j]
         /\ Pending[l] = On(d, j) /\ Pending'[l] = On(d, j)'
         /\ FinAt[l] = finAt[Peer(d)][j] /\ FinAt'[l] = finAt'[Peer(d)][j]
         /\ Ended[l] <=> Over(d, j)
         /\ Ended'[l] <=> Over(d, j)'
         /\ SaidEOF[l] = (last[d][j] = "eof") /\ SaidEOF'[l] = (last'[d][j] = "eof")
<1>1. l[1] \in Ends /\ l[2] \in Ids
  BY LineOf
<1>2. Pending[l] = On(l[1], l[2]) /\ Pending'[l] = On(l[1], l[2])'
  BY <1>1, OnLine DEF Pending
<1>3. /\ Sent[l] = sent[Peer(l[1])][l[2]] /\ Sent'[l] = sent'[Peer(l[1])][l[2]]
      /\ Received[l] = rcvd[l[1]][l[2]] /\ Received'[l] = rcvd'[l[1]][l[2]]
      /\ FinAt[l] = finAt[Peer(l[1])][l[2]] /\ FinAt'[l] = finAt'[Peer(l[1])][l[2]]
  BY DEF Sent, Received, FinAt
<1>4. Ended[l] = Over(l[1], l[2]) /\ Ended'[l] = Over(l[1], l[2])'
  BY DEF Ended
<1>5. /\ SaidEOF[l] = (last[l[1]][l[2]] = "eof")
      /\ SaidEOF'[l] = (last'[l[1]][l[2]] = "eof")
  BY DEF SaidEOF
<1> QED
  BY <1>2, <1>3, <1>4, <1>5

\* A function that changes at one place, or at none.
Tab(f) == f = [l \in Lines |-> f[l]]
LEMMA Tabs ==
  /\ Tab(Sent) /\ Tab(Received) /\ Tab(Pending) /\ Tab(FinAt) /\ Tab(Ended) /\ Tab(SaidEOF)
  /\ Tab(Sent') /\ Tab(Received') /\ Tab(Pending') /\ Tab(FinAt') /\ Tab(Ended')
  /\ Tab(SaidEOF')
<1>1. Tab(Sent) /\ Tab(Sent')
  BY DEF Tab, Sent
<1>2. Tab(Received) /\ Tab(Received')
  BY DEF Tab, Received
<1>3. Tab(Pending) /\ Tab(Pending')
  BY DEF Tab, Pending
<1>4. Tab(FinAt) /\ Tab(FinAt')
  BY DEF Tab, FinAt
<1>5. Tab(Ended) /\ Tab(Ended')
  BY DEF Tab, Ended
<1>6. Tab(SaidEOF) /\ Tab(SaidEOF')
  BY DEF Tab, SaidEOF
<1> QED
  BY <1>1, <1>2, <1>3, <1>4, <1>5, <1>6

LEMMA TabSame ==
  ASSUME NEW f, NEW g, Tab(f), Tab(g), \A l \in Lines : g[l] = f[l]
  PROVE  g = f
  BY DEF Tab

LEMMA TabOne ==
  ASSUME NEW f, NEW g, Tab(f), Tab(g), NEW l \in Lines, NEW v, g[l] = v,
         \A k \in Lines : k # l => g[k] = f[k]
  PROVE  g = [f EXCEPT ![l] = v]
<1>1. \A k \in Lines : g[k] = IF k = l THEN v ELSE f[k]
  OBVIOUS
<1>2. [f EXCEPT ![l] = v] = [k \in Lines |-> IF k = l THEN v ELSE f[k]]
  BY DEF Tab
<1>3. g = [k \in Lines |-> g[k]]
  BY DEF Tab
<1>4. [k \in Lines |-> g[k]] = [k \in Lines |-> IF k = l THEN v ELSE f[k]]
  BY <1>1
<1> QED
  BY <1>2, <1>3, <1>4

\* What a frame that is written adds to the lines.
LEMMA WriteOn ==
  ASSUME TypeInv, NEW e \in Ends, NEW x \in Frames, Write(e, x),
         UNCHANGED <<recvCh, loop, cur>>, NEW d \in Ends, NEW j \in Ids
  PROVE  On(d, j)' = IF d = Peer(e) THEN On(d, j) \cup Own(x, j) ELSE On(d, j)
<1>1. /\ wire[d] \in Seq(Frames)
      /\ wire'[d] = IF d = Peer(e) THEN Append(wire[d], x) ELSE wire[d]
      /\ recvCh'[d][j] = recvCh[d][j] /\ Hand(d, j)' = Hand(d, j)
  BY DEF Write, TypeInv, TypeOK, Hand
<1>2. On(d, j)' = Payloads(j, recvCh'[d][j]) \cup Payloads(j, Hand(d, j)')
                    \cup Payloads(j, wire'[d])
  BY DEF On
<1>3. Payloads(j, Append(wire[d], x)) = Payloads(j, wire[d]) \cup Own(x, j)
  BY <1>1, PayAppend
<1> QED
  BY <1>1, <1>2, <1>3 DEF On

LEMMA OverSame ==
  ASSUME UNCHANGED <<conn, loop, closes, stage, chClosed>>, NEW d, NEW j,
         cancelled'[d][j] = cancelled[d][j]
  PROVE  Over(d, j)' = Over(d, j)
  BY DEF Over, Live, ReadLoopErr

-----------------------------------------------------------------------------
(* Each step is one of StreamLines.                                        *)
AllInv == TypeInv /\ LineInv /\ StageInv /\ NoPanic /\ FlowInv

LEMMA SendMaps ==
  ASSUME AllInv, TypeInv', NEW e \in Ends, NEW i \in Ids, SendWrite(e, i)
  PROVE  Abstract!Send(<<Peer(e), i>>)
<1> USE DEF connVars, loopVars, streamVars, histVars
<1> DEFINE x == Frame(i, "data", sent[e][i] + 1)  l == <<Peer(e), i>>
<1>1. /\ Write(e, x) /\ sent' = [sent EXCEPT ![e][i] = @ + 1]
      /\ UNCHANGED <<recvCh, loop, cur, rcvd, finAt, last, conn, closes, stage, cancelled,
                     chClosed>>
  BY DEF SendWrite
<1>2. /\ TypeInv /\ HistOK /\ Peer(e) \in Ends /\ Peer(Peer(e)) = e
      /\ l \in Lines /\ l[1] = Peer(e) /\ l[2] = i
  BY TypeParts, Owners, LineOf DEF AllInv, TypeInv
<1>3. x \in Frames /\ x.id = i /\ x.flag = "data" /\ x.seq = sent[e][i] + 1
  BY <1>2, WrittenType DEF Frame
<1> HIDE DEF x, l
<1>4. sent'[e][i] = sent[e][i] + 1
      /\ \A d \in Ends : \A j \in Ids : d # e \/ j # i => sent'[d][j] = sent[d][j]
  BY <1>1, <1>2 DEF HistOK
<1>5. \A j \in Ids : Own(x, j) = IF j = i THEN {sent[e][i] + 1} ELSE {}
  BY <1>3 DEF Own, IsData
<1>6. ASSUME NEW k \in Lines
      PROVE  /\ Received'[k] = Received[k] /\ FinAt'[k] = FinAt[k]
             /\ Ended'[k] = Ended[k] /\ SaidEOF'[k] = SaidEOF[k]
             /\ k # l => Sent'[k] = Sent[k] /\ Pending'[k] = Pending[k]
             /\ k = l => /\ Sent'[k] = Sent[k] + 1
                         /\ Pending'[k] = Pending[k] \cup {Sent[k] + 1}
  <2>1. k[1] \in Ends /\ k[2] \in Ids /\ (k # l => k[1] # Peer(e) \/ k[2] # i)
    BY LineOf DEF l
  <2>2. Received'[k] = Received[k] /\ FinAt'[k] = FinAt[k] /\ SaidEOF'[k] = SaidEOF[k]
    BY <1>1, <1>2, AbstractAt
  <2>3. Ended'[k] = Ended[k]
    BY <1>1, OverSame DEF Ended
  <2>4. On(k[1], k[2])' = IF k[1] = Peer(e) THEN On(k[1], k[2]) \cup Own(x, k[2])
                          ELSE On(k[1], k[2])
    BY <1>1, <1>2, <1>3, <2>1, WriteOn
  <2>5. CASE k # l
    <3>1. Peer(k[1]) # e \/ k[2] # i
      BY <2>1, <2>5, Owners
    <3>2. Sent'[k] = Sent[k]
      BY <1>2, <1>4, <2>1, <3>1, Owners, AbstractAt
    <3>3. k[2] # i => Own(x, k[2]) = {}
      BY <1>5, <2>1
    <3>4. On(k[1], k[2])' = On(k[1], k[2])
      BY <2>1, <2>4, <2>5, <3>3
    <3>5. Pending'[k] = Pending[k]
      BY <1>2, <3>4, AbstractAt
    <3> QED
      BY <2>2, <2>3, <2>5, <3>2, <3>5
  <2>6. CASE k = l
    <3>1. k[1] = Peer(e) /\ k[2] = i /\ Peer(k[1]) = e
      BY <1>2, <2>6
    <3>2. /\ Sent[k] = sent[e][i] /\ Sent'[k] = sent'[e][i]
          /\ Pending[k] = On(k[1], k[2]) /\ Pending'[k] = On(k[1], k[2])'
      BY <1>2, <3>1, AbstractAt
    <3>3. Own(x, k[2]) = {sent[e][i] + 1}
      BY <1>5, <3>1
    <3>4. On(k[1], k[2])' = On(k[1], k[2]) \cup {sent[e][i] + 1}
      BY <2>4, <3>1, <3>3
    <3> QED
      BY <1>4, <2>2, <2>3, <2>6, <3>2, <3>4
  <2> QED
    BY <2>5, <2>6
<1>7. /\ Sent' = [Sent EXCEPT ![l] = Sent[l] + 1]
      /\ Pending' = [Pending EXCEPT ![l] = Pending[l] \cup {Sent[l] + 1}]
  BY <1>2, <1>6, Tabs, TabOne
<1>8. Received' = Received /\ FinAt' = FinAt /\ Ended' = Ended /\ SaidEOF' = SaidEOF
  BY <1>6, Tabs, TabSame
<1> QED
  BY <1>7, <1>8 DEF Abstract!Send, l

\* What a step leaves of a line in the abstract state.
LineSame(k) ==
  /\ Sent'[k] = Sent[k] /\ Received'[k] = Received[k] /\ Pending'[k] = Pending[k]
  /\ Ended'[k] = Ended[k]

LEMMA FinishMaps ==
  ASSUME AllInv, TypeInv', NEW e \in Ends, NEW i \in Ids,
         CloseWrite(e, i) \/ CloseFrame(e, i)
  PROVE  \/ Abstract!Finish(<<Peer(e), i>>)
         \/ UNCHANGED <<Sent, Received, Pending, FinAt, Ended, SaidEOF>>
<1> USE DEF connVars, loopVars, streamVars, histVars
<1> DEFINE l == <<Peer(e), i>>
<1>1. PICK g \in {"closewrite", "close"} :
        /\ Write(e, Frame(i, g, 0)) /\ Finished(e, i)
        /\ UNCHANGED <<recvCh, loop, cur, sent, rcvd, last, conn, closes, stage, cancelled,
                       chClosed>>
  <2>1. CASE CloseWrite(e, i)
    BY <2>1 DEF CloseWrite
  <2>2. CASE CloseFrame(e, i)
    BY <2>2 DEF CloseFrame
  <2> QED
    BY <2>1, <2>2
<1> DEFINE x == Frame(i, g, 0)
<1>2. /\ TypeInv /\ HistOK /\ Peer(e) \in Ends /\ Peer(Peer(e)) = e
      /\ l \in Lines /\ l[1] = Peer(e) /\ l[2] = i
  BY TypeParts, Owners, LineOf DEF AllInv, TypeInv
<1>3. x \in Frames /\ \A j \in Ids : Own(x, j) = {}
  BY DEF Frame, Frames, Flags, Own, IsData
<1>4. Write(e, x)
  BY <1>1
<1> HIDE DEF x, l
<1>5. /\ finAt'[e][i] = IF finAt[e][i] = -1 THEN sent[e][i] ELSE finAt[e][i]
      /\ \A d \in Ends : \A j \in Ids : d # e \/ j # i => finAt'[d][j] = finAt[d][j]
  BY <1>1, <1>2 DEF HistOK, Finished
<1>6. ASSUME NEW k \in Lines
      PROVE  /\ LineSame(k) /\ SaidEOF'[k] = SaidEOF[k]
             /\ k # l => FinAt'[k] = FinAt[k]
             /\ k = l => FinAt'[k] = IF FinAt[k] = -1 THEN Sent[k] ELSE FinAt[k]
  <2>1. k[1] \in Ends /\ k[2] \in Ids /\ (k # l => k[1] # Peer(e) \/ k[2] # i)
    BY LineOf DEF l
  <2>2. On(k[1], k[2])' = On(k[1], k[2])
    BY <1>1, <1>2, <1>3, <1>4, <2>1, WriteOn
  <2>3. Received'[k] = Received[k] /\ Sent'[k] = Sent[k] /\ SaidEOF'[k] = SaidEOF[k]
    BY <1>1, <1>2, AbstractAt
  <2>4. Ended'[k] = Ended[k]
    BY <1>1, OverSame DEF Ended
  <2>5. Pending'[k] = Pending[k]
    BY <1>2, <2>2, AbstractAt
  <2>6. CASE k # l
    <3>1. Peer(k[1]) # e \/ k[2] # i
      BY <2>1, <2>6, Owners
    <3>2. finAt'[Peer(k[1])][k[2]] = finAt[Peer(k[1])][k[2]]
      BY <1>5, <2>1, <3>1, Owners
    <3>3. FinAt'[k] = FinAt[k]
      BY <1>2, <3>2, AbstractAt
    <3> QED
      BY <2>3, <2>4, <2>5, <2>6, <3>3 DEF LineSame
  <2>7. CASE k = l
    <3>1. k[2] = i /\ Peer(k[1]) = e
      BY <1>2, <2>7
    <3>2. Sent[k] = sent[e][i] /\ FinAt[k] = finAt[e][i] /\ FinAt'[k] = finAt'[e][i]
      BY <1>2, <3>1, AbstractAt
    <3> QED
      BY <1>5, <2>3, <2>4, <2>5, <2>7, <3>2 DEF LineSame
  <2> QED
    BY <2>6, <2>7
<1>7. Sent' = Sent /\ Received' = Received /\ Pending' = Pending /\ Ended' = Ended
      /\ SaidEOF' = SaidEOF
  BY <1>6, Tabs, TabSame DEF LineSame
<1>8. CASE FinAt[l] = -1
  <2>1. FinAt' = [FinAt EXCEPT ![l] = Sent[l]]
    BY <1>2, <1>6, <1>8, Tabs, TabOne
  <2> QED
    BY <1>7, <1>8, <2>1 DEF Abstract!Finish, l
<1>9. CASE FinAt[l] # -1
  <2>1. FinAt' = FinAt
    BY <1>2, <1>6, <1>9, Tabs, TabSame
  <2> QED
    BY <1>7, <2>1
<1> QED
  BY <1>8, <1>9

LEMMA RecvEndMaps ==
  ASSUME AllInv, TypeInv', NEW e \in Ends, NEW i \in Ids, RecvEnd(e, i)
  PROVE  Abstract!SayEOF(<<e, i>>)
<1> USE DEF connVars, loopVars, streamVars, histVars
<1> DEFINE l == <<e, i>>
<1>1. /\ AtEnd(e, i) /\ last' = [last EXCEPT ![e][i] = "eof"]
      /\ UNCHANGED <<wire, recvCh, loop, cur, sent, rcvd, finAt, conn, closes, stage, cancelled,
                     chClosed>>
  BY DEF RecvEnd, clientVars
<1>2. TypeInv /\ HistOK /\ l \in Lines /\ l[1] = e /\ l[2] = i
  BY TypeParts, LineOf DEF AllInv, TypeInv
<1> HIDE DEF l
<1>3. /\ last'[e][i] = "eof"
      /\ \A d \in Ends : \A j \in Ids : d # e \/ j # i => last'[d][j] = last[d][j]
  BY <1>1, <1>2 DEF HistOK
<1>4. Sent' = Sent /\ Received' = Received /\ Pending' = Pending /\ FinAt' = FinAt
      /\ Ended' = Ended
  BY <1>1 DEF Sent, Received, Pending, FinAt, Ended, Payloads, DataOf, Line, Hand, Over, Live,
              ReadLoopErr
<1>5. SaidEOF'[l] = TRUE /\ \A k \in Lines : k # l => SaidEOF'[k] = SaidEOF[k]
  <2>1. ASSUME NEW k \in Lines
        PROVE  /\ SaidEOF[k] = (last[k[1]][k[2]] = "eof")
               /\ SaidEOF'[k] = (last'[k[1]][k[2]] = "eof")
    BY DEF SaidEOF
  <2>2. SaidEOF'[l] = TRUE
    BY <1>2, <1>3, <2>1
  <2>3. ASSUME NEW k \in Lines, k # l PROVE SaidEOF'[k] = SaidEOF[k]
    <3>1. k[1] \in Ends /\ k[2] \in Ids /\ (k[1] # e \/ k[2] # i)
      BY <2>3, LineOf DEF l
    <3>2. last'[k[1]][k[2]] = last[k[1]][k[2]]
      BY <1>3, <3>1
    <3> QED
      BY <2>1, <3>2
  <2> QED
    BY <2>2, <2>3
<1>6. SaidEOF' = [SaidEOF EXCEPT ![l] = TRUE]
  BY <1>2, <1>5, Tabs, TabOne
<1>7. Ended[l] \/ (FinAt[l] # -1 /\ \A m \in Pending[l] : FinAt[l] # -1 /\ m > FinAt[l])
  <2> SUFFICES ASSUME ~Over(e, i)
               PROVE  /\ finAt[Peer(e)][i] # -1
                      /\ \A m \in On(e, i) : finAt[Peer(e)][i] < m
    BY <1>2, AbstractAt
  <2>1. Live(e, i) /\ chClosed[e][i] /\ recvCh[e][i] = <<>>
    BY <1>1 DEF AtEnd, Over
  <2>2. Hand(e, i) = <<>>
    BY <2>1 DEF AllInv, NoPanic, Hand
  <2>3. On(e, i) = Payloads(i, wire[e])
    BY <2>1, <2>2, PayShort DEF On
  <2>4. /\ finAt[Peer(e)][i] # -1
        /\ \A k \in DOMAIN wire[e] :
             IsData(wire[e][k], i) => finAt[Peer(e)][i] < wire[e][k].seq
    BY <2>1 DEF AllInv, FlowInv, ShutInv
  <2> QED
    BY <2>3, <2>4, InPayloads
<1> QED
  BY <1>4, <1>6, <1>7 DEF Abstract!SayEOF, Abstract!Past, l

LEMMA RecvFrameMaps ==
  ASSUME AllInv, TypeInv', NEW e \in Ends, NEW i \in Ids, RecvFrame(e, i)
  PROVE  LET l == <<e, i>> IN
         Abstract!Receive(l) \/ Abstract!SayEOF(l) \/ Abstract!SayError(l)
<1> DEFINE l == <<e, i>>
           f == Head(recvCh[e][i])
<1>1. /\ Held(e, i) /\ recvCh[e][i] # <<>>
      /\ recvCh' = [recvCh EXCEPT ![e][i] = Tail(recvCh[e][i])]
      /\ rcvd' = [rcvd EXCEPT ![e][i] =
                    IF f.flag \in {"closewrite", "error"} THEN rcvd[e][i] ELSE f.seq]
      /\ last' = [last EXCEPT ![e][i] =
                    IF f.flag = "closewrite" THEN "eof"
                    ELSE IF f.flag = "error" THEN "error" ELSE last[e][i]]
      /\ cancelled' = [cancelled EXCEPT ![e][i] = cancelled[e][i] \/ f.flag = "error"]
  BY DEF RecvFrame
<1>2. UNCHANGED <<wire, loop, cur, sent, finAt, conn, closes, stage, chClosed>>
  BY DEF RecvFrame, connVars, loopVars, clientVars
<1>3. /\ TypeInv /\ HistOK /\ StreamOK /\ l \in Lines /\ l[1] = e /\ l[2] = i
      /\ Peer(e) \in Ends
  BY TypeParts, LineOf, Owners DEF AllInv, TypeInv
<1> HIDE DEF l, f
<1>4. /\ recvCh'[e][i] = Tail(recvCh[e][i])
      /\ rcvd'[e][i] = IF f.flag \in {"closewrite", "error"} THEN rcvd[e][i] ELSE f.seq
      /\ last'[e][i] = IF f.flag = "closewrite" THEN "eof"
                       ELSE IF f.flag = "error" THEN "error" ELSE last[e][i]
      /\ cancelled'[e][i] = (cancelled[e][i] \/ f.flag = "error")
      /\ cancelled[e][i] \in BOOLEAN
  BY <1>1, <1>3 DEF HistOK, StreamOK
<1>5. \A d \in Ends : \A j \in Ids : d # e \/ j # i =>
        /\ recvCh'[d][j] = recvCh[d][j] /\ rcvd'[d][j] = rcvd[d][j]
        /\ last'[d][j] = last[d][j] /\ cancelled'[d][j] = cancelled[d][j]
  BY <1>1, <1>3 DEF HistOK, StreamOK
<1>6. /\ Sent' = Sent /\ FinAt' = FinAt
      /\ \A d \in Ends : \A j \in Ids : Hand(d, j)' = Hand(d, j)
  BY <1>2 DEF Sent, FinAt, Hand
<1>7. ASSUME NEW k \in Lines, k # l
      PROVE  LineSame(k) /\ SaidEOF'[k] = SaidEOF[k]
  <2>1. k[1] \in Ends /\ k[2] \in Ids /\ (k[1] # e \/ k[2] # i)
    BY <1>7, LineOf DEF l
  <2>2. /\ recvCh'[k[1]][k[2]] = recvCh[k[1]][k[2]] /\ rcvd'[k[1]][k[2]] = rcvd[k[1]][k[2]]
        /\ last'[k[1]][k[2]] = last[k[1]][k[2]]
        /\ cancelled'[k[1]][k[2]] = cancelled[k[1]][k[2]]
    BY <1>5, <2>1
  <2>3. On(k[1], k[2])' = On(k[1], k[2])
    BY <1>2, <1>6, <2>1, <2>2 DEF On
  <2>4. Over(k[1], k[2])' = Over(k[1], k[2])
    BY <1>2, <2>2 DEF Over, Live, ReadLoopErr
  <2>5. Pending'[k] = Pending[k] /\ Received'[k] = Received[k]
    BY <1>3, <2>2, <2>3, AbstractAt
  <2>6. Ended'[k] = Ended[k]
    BY <2>4 DEF Ended
  <2>7. SaidEOF'[k] = SaidEOF[k]
    BY <2>2 DEF SaidEOF
  <2> QED
    BY <1>6, <2>5, <2>6, <2>7 DEF LineSame
\* The line itself.
<1>8. Drawn(e, i)
  BY <1>1, <1>2, <1>4, <1>6 DEF Drawn, Numbers, Held, f
<1>9. /\ IF f.flag = "data"
         THEN /\ f.seq \in On(e, i) /\ \A m \in On(e, i) : f.seq <= m
              /\ On(e, i)' = On(e, i) \ {f.seq} /\ rcvd'[e][i] = f.seq
         ELSE On(e, i)' = On(e, i) /\ rcvd'[e][i] = rcvd[e][i]
      /\ f.flag \in {"data", "closewrite", "error"}
      /\ f.flag = "error" => Refused(e, i)
      /\ f.flag = "closewrite" =>
           finAt[Peer(e)][i] # -1 /\ \A m \in On(e, i) : finAt[Peer(e)][i] < m
  BY <1>3, <1>8, DrawnOn DEF AllInv, f
<1>10. /\ Pending[l] = On(e, i) /\ Pending'[l] = On(e, i)'
       /\ Received[l] = rcvd[e][i] /\ Received'[l] = rcvd'[e][i]
       /\ FinAt[l] = finAt[Peer(e)][i]
  BY <1>3, AbstractAt
<1>11. /\ Ended[l] = Over(e, i) /\ Ended'[l] = Over(e, i)'
       /\ SaidEOF[l] = (last[e][i] = "eof") /\ SaidEOF'[l] = (last'[e][i] = "eof")
  <2>1. Ended[l] = Over(l[1], l[2]) /\ Ended'[l] = Over(l[1], l[2])'
    BY <1>3 DEF Ended
  <2>2. /\ SaidEOF[l] = (last[l[1]][l[2]] = "eof")
        /\ SaidEOF'[l] = (last'[l[1]][l[2]] = "eof")
    BY <1>3 DEF SaidEOF
  <2> QED
    BY <1>3, <2>1, <2>2
<1>12. f.flag # "error" => Over(e, i)' = Over(e, i)
  BY <1>2, <1>4 DEF Over, Live, ReadLoopErr
<1>13. CASE f.flag = "data"
  <2>1. Ended' = Ended /\ SaidEOF' = SaidEOF
    <3>1. Ended'[l] = Ended[l] /\ SaidEOF'[l] = SaidEOF[l]
      BY <1>4, <1>11, <1>12, <1>13
    <3> QED
      BY <1>7, <3>1, Tabs, TabSame DEF LineSame
  <2>2. Received' = [Received EXCEPT ![l] = f.seq]
    BY <1>3, <1>7, <1>9, <1>10, <1>13, Tabs, TabOne DEF LineSame
  <2>3. Pending' = [Pending EXCEPT ![l] = Pending[l] \ {f.seq}]
    BY <1>3, <1>7, <1>9, <1>10, <1>13, Tabs, TabOne DEF LineSame
  <2>4. f.seq \in Pending[l] /\ \A m \in Pending[l] : f.seq <= m
    BY <1>9, <1>10, <1>13
  <2>5. Abstract!Receive(l)
    BY <1>6, <2>1, <2>2, <2>3, <2>4 DEF Abstract!Receive
  <2> QED
    BY <2>5 DEF l
<1>14. ASSUME f.flag # "data" PROVE Received' = Received /\ Pending' = Pending
  BY <1>7, <1>9, <1>10, <1>14, Tabs, TabSame DEF LineSame
<1>15. CASE f.flag = "closewrite"
  <2>1. Ended' = Ended
    BY <1>7, <1>11, <1>12, <1>15, Tabs, TabSame DEF LineSame
  <2>2. SaidEOF'[l] = TRUE
    BY <1>4, <1>11, <1>15
  <2>3. SaidEOF' = [SaidEOF EXCEPT ![l] = TRUE]
    BY <1>3, <1>7, <2>2, Tabs, TabOne
  <2>4. FinAt[l] # -1 /\ \A m \in Pending[l] : m > FinAt[l]
    BY <1>9, <1>10, <1>15
  <2>5. Abstract!SayEOF(l)
    BY <1>6, <1>14, <1>15, <2>1, <2>3, <2>4 DEF Abstract!SayEOF, Abstract!Past
  <2> QED
    BY <2>5 DEF l
<1>16. CASE f.flag = "error"
  <2>1. Over(e, i)
    BY <1>9, <1>16 DEF AllInv, FlowInv, CancelInv, CancelOf
  <2>2. Over(e, i)'
    BY <1>2, <1>4, <2>1 DEF Over, Live, ReadLoopErr
  <2>3. Ended'[l] = TRUE
    BY <1>11, <2>2 DEF Over
  <2>4. Ended' = [Ended EXCEPT ![l] = TRUE]
    BY <1>3, <1>7, <2>3, Tabs, TabOne DEF LineSame
  <2>5. SaidEOF'[l] = FALSE
    BY <1>4, <1>11, <1>16
  <2>6. SaidEOF' = [SaidEOF EXCEPT ![l] = FALSE]
    BY <1>3, <1>7, <2>5, Tabs, TabOne
  <2>7. Abstract!SayError(l)
    BY <1>6, <1>14, <1>16, <2>4, <2>6 DEF Abstract!SayError
  <2> QED
    BY <2>7 DEF l
<1> QED
  BY <1>9, <1>13, <1>15, <1>16

\* Every other step leaves the numbers of the Sends and Recvs alone.
LEMMA Silent ==
  ASSUME [Next]_vars
  PROVE  \/ UNCHANGED <<sent, rcvd, finAt, last>>
         \/ \E e \in Ends : \E i \in Ids :
              \/ SendWrite(e, i) \/ CloseWrite(e, i) \/ CloseFrame(e, i)
              \/ RecvFrame(e, i) \/ RecvEnd(e, i)
<1> USE DEF histVars
<1>1. CASE UNCHANGED vars
  BY <1>1 DEF vars
<1>2. ASSUME NEW e \in Ends, Loop(e) PROVE UNCHANGED <<sent, rcvd, finAt, last>>
  BY <1>2 DEF Loop, LoopRaw, LoopStart, LoopUnknown, LoopClose, LoopError, LoopData,
              LoopPushRaw, LoopAccept, LoopReply, LoopPush, LoopPushError, LoopFail, LoopExit
<1>3. ASSUME NEW e \in Ends,
             \/ StartAlloc(e) \/ WriteData(e) \/ RegisterHandler(e) \/ ConnCancel(e)
             \/ Take(e) \/ ConnClose(e)
      PROVE  UNCHANGED <<sent, rcvd, finAt, last>>
  BY <1>3 DEF StartAlloc, WriteData, RegisterHandler, ConnCancel, Take, AcceptStream, ReadData,
              ConnClose
<1>4. ASSUME NEW e \in Ends, NEW i \in Ids,
             \/ SendCheck(e, i) \/ CloseCancel(e, i) \/ StartRegister(e, i)
             \/ StartWrite(e, i) \/ StartFail(e, i) \/ SendFail(e, i)
             \/ CloseFrameLost(e, i) \/ CloseRemove(e, i)
      PROVE  UNCHANGED <<sent, rcvd, finAt, last>>
  BY <1>4 DEF SendCheck, CloseCancel, StartRegister, StartWrite, StartFail, SendFail,
              CloseFrameLost, CloseRemove
<1>5. CASE Next
  BY <1>2, <1>3, <1>4, <1>5 DEF Next, Decide, Proceed, Receive
<1> QED
  BY <1>1, <1>5

LEMMA EndMaps ==
  ASSUME AllInv, TypeInv', [Next]_vars, UNCHANGED <<sent, rcvd, finAt, last>>
  PROVE  Abstract!End
<1>1. /\ Sent' = Sent /\ Received' = Received /\ FinAt' = FinAt /\ SaidEOF' = SaidEOF
      /\ DOMAIN Ended' = Lines /\ DOMAIN Pending' = Lines
  BY DEF Sent, Received, FinAt, SaidEOF, Ended, Pending
<1>2. ASSUME NEW k \in Lines
      PROVE  /\ Ended[k] => Ended'[k]
             /\ Pending'[k] \subseteq Pending[k]
             /\ ~Ended'[k] => \A m \in Pending[k] \ Pending'[k] :
                                FinAt[k] # -1 /\ m > FinAt[k]
  <2>1. PICK d \in Ends, j \in Ids : d = k[1] /\ j = k[2]
    BY LineOf
  <2>2. Step(d, j) /\ CtxMove(d, j)
    BY StepNext DEF AllInv, Step
  <2>3. /\ Pending[k] = On(d, j) /\ Pending'[k] = On(d, j)'
        /\ FinAt[k] = finAt[Peer(d)][j]
    BY <2>1, AbstractAt DEF AllInv
  <2>4. Ended[k] = Over(d, j) /\ Ended'[k] = Over(d, j)'
    BY <2>1 DEF Ended
  <2>5. Over(d, j) => Over(d, j)'
    BY <2>2, OverStep DEF AllInv
  <2>6. sent[Peer(d)][j] \in Nat /\ rcvd[d][j] \in Nat
    BY LineTypes, FlowTypes DEF AllInv, TypeInv, TypeOK
  <2>7. ~SendsAt(d, j)
    BY <2>6 DEF SendsAt
  <2>8. ~TakesAt(d, j)
    <3> SUFFICES ASSUME TakesAt(d, j) PROVE FALSE
      OBVIOUS
    <3>1. PICK m \in On(d, j) : rcvd'[d][j] = m
      BY DEF TakesAt
    <3>2. m \in Nat /\ rcvd[d][j] < m
      BY OnBounds DEF AllInv
    <3> QED
      BY <2>6, <3>1, <3>2
  <2>9. KeepsAt(d, j) \/ LosesAt(d, j)
    BY <2>2, <2>7, <2>8, MoveOn DEF AllInv
  <2>10. CASE KeepsAt(d, j)
    BY <2>3, <2>4, <2>5, <2>10 DEF KeepsAt
  <2>11. CASE LosesAt(d, j)
    BY <2>3, <2>4, <2>5, <2>11 DEF LosesAt
  <2> QED
    BY <2>9, <2>10, <2>11
<1> QED
  BY <1>1, <1>2 DEF Abstract!End, Abstract!Past

-----------------------------------------------------------------------------
LEMMA InitMaps == Init => Abstract!Init
<1> SUFFICES ASSUME Init PROVE Abstract!Init
  OBVIOUS
<1>1. ASSUME NEW k \in Lines
      PROVE  /\ Sent[k] = 0 /\ Received[k] = 0 /\ Pending[k] = {} /\ FinAt[k] = -1
             /\ Ended[k] = FALSE /\ SaidEOF[k] = FALSE
  <2>1. PICK d \in Ends, j \in Ids : d = k[1] /\ j = k[2]
    BY LineOf
  <2>2. Peer(d) \in Ends
    BY Owners
  <2>3. /\ sent[Peer(d)][j] = 0 /\ finAt[Peer(d)][j] = -1 /\ rcvd[d][j] = 0
        /\ last[d][j] = "none" /\ recvCh[d][j] = <<>> /\ wire[d] = <<>> /\ loop[d] = "read"
        /\ conn[d] = "open" /\ closes[d][j] = 0 /\ stage[d][j] = "none" /\ ~cancelled[d][j]
    BY <2>2 DEF Init, PerStream
  <2>4. Hand(d, j) = <<>>
    BY <2>3 DEF Hand
  <2>5. Line(d, j) = <<>>
    BY <2>3, <2>4 DEF Line
  <2>6. Payloads(j, Line(d, j)) = {}
    BY <2>5, PayShort
  <2>7. Over(d, j) = FALSE
    BY <2>3 DEF Over, Live, ReadLoopErr
  <2>8. Sent[k] = 0 /\ Received[k] = 0 /\ FinAt[k] = -1
    BY <2>1, <2>3 DEF Sent, Received, FinAt
  <2>9. Pending[k] = {}
    BY <2>1, <2>6 DEF Pending
  <2>10. Ended[k] = FALSE
    BY <2>1, <2>7 DEF Ended
  <2>11. SaidEOF[k] = FALSE
    BY <2>1, <2>3 DEF SaidEOF
  <2> QED
    BY <2>8, <2>9, <2>10, <2>11
<1>2. /\ Sent = [k \in Lines |-> 0] /\ Received = [k \in Lines |-> 0]
      /\ Pending = [k \in Lines |-> {}] /\ FinAt = [k \in Lines |-> -1]
  BY <1>1, Tabs DEF Tab
<1>3. Ended = [k \in Lines |-> FALSE] /\ SaidEOF = [k \in Lines |-> FALSE]
  BY <1>1, Tabs DEF Tab
<1> QED
  BY <1>2, <1>3 DEF Abstract!Init

LEMMA NextMaps ==
  AllInv /\ TypeInv' /\ [Next]_vars => [Abstract!Next]_(Abstract!vars)
<1> SUFFICES ASSUME AllInv, TypeInv', [Next]_vars
             PROVE  Abstract!Next \/ UNCHANGED Abstract!vars
  OBVIOUS
<1>1. CASE UNCHANGED <<sent, rcvd, finAt, last>>
  BY <1>1, EndMaps DEF Abstract!Next
<1>2. ASSUME NEW e \in Ends, NEW i \in Ids,
             \/ SendWrite(e, i) \/ CloseWrite(e, i) \/ CloseFrame(e, i)
             \/ RecvFrame(e, i) \/ RecvEnd(e, i)
      PROVE  Abstract!Next \/ UNCHANGED Abstract!vars
  <2>1. <<e, i>> \in Lines /\ <<Peer(e), i>> \in Lines
    BY LineOf, Owners
  <2>2. \/ Abstract!Send(<<Peer(e), i>>) \/ Abstract!Finish(<<Peer(e), i>>)
        \/ Abstract!Receive(<<e, i>>) \/ Abstract!SayEOF(<<e, i>>)
        \/ Abstract!SayError(<<e, i>>)
        \/ UNCHANGED <<Sent, Received, Pending, FinAt, Ended, SaidEOF>>
    BY <1>2, SendMaps, FinishMaps, RecvFrameMaps, RecvEndMaps
  <2> QED
    BY <2>1, <2>2 DEF Abstract!Next, Abstract!vars
<1> QED
  BY <1>1, <1>2, Silent

\* Every stream, in each direction, is a line of StreamLines: Recv hands out
\* the payloads in the order of the Sends, loses none of those sent before the
\* sender's Close or CloseWrite, and says EOF only after the last of them, for
\* any number of streams and any capacities.
THEOREM PromisesKept == Spec => StreamsKeepPromises
<1>1. Init => AllInv
  BY TypeInit, LineInit, StageInit, FlowInit DEF AllInv, Init, NoPanic
<1>2. AllInv /\ [Next]_vars => AllInv' /\ TypeInv'
  BY TypeNext, LineNext, StageNext, NoPanicNext, FlowNext DEF AllInv
<1> QED
  BY <1>1, <1>2, InitMaps, NextMaps, PTL DEF Spec, StreamsKeepPromises, Abstract!Spec

(* What follows from StreamLines holds of every stream.                    *)
Promises == INSTANCE StreamLinesProofs WITH
  sent <- Sent, rcvd <- Received, pending <- Pending, finAt <- FinAt,
  ended <- Ended, eof <- SaidEOF

\* A Recv whose own end has not ended the stream says EOF only after every
\* payload sent before the peer's Close or CloseWrite, for any capacities,
\* also when writes give up and streams are refused.
THEOREM EOFComesLast == Spec => []EOFAfterAll
<1>1. Abstract!Init => Promises!Init
  BY DEF Abstract!Init, Promises!Init
<1>2. [Abstract!Next]_(Abstract!vars) => [Promises!Next]_(Promises!vars)
  BY DEF Abstract!Next, Promises!Next, Abstract!vars, Promises!vars, Abstract!Send,
         Promises!Send, Abstract!Finish, Promises!Finish, Abstract!Receive, Promises!Receive,
         Abstract!SayEOF, Promises!SayEOF, Abstract!SayError, Promises!SayError, Abstract!End,
         Promises!End, Abstract!Past, Promises!Past
<1>3. Promises!EOFIsLast => EOFAfterAll
  BY DEF Promises!EOFIsLast, Abstract!EOFIsLast, EOFAfterAll
<1> QED
  BY <1>1, <1>2, <1>3, PromisesKept, Promises!EOFComesLast, PTL
  DEF StreamsKeepPromises, Abstract!Spec, Promises!Spec

-----------------------------------------------------------------------------
(***************************************************************************)
(* When writes do not give up no stream that is alive is refused           *)
(* (TellInv), and the peer's Close is all that can cancel one.             *)
(***************************************************************************)
AliveInv == \A e \in Ends : \A i \in Ids : Live(e, i) => ~Over(e, i)

LEMMA AliveNext ==
  ASSUME AllInv, TypeInv', TellInv', AliveInv, [Next]_vars
  PROVE  AliveInv'
<1> SUFFICES ASSUME NEW d \in Ends, NEW j \in Ids, Live(d, j)', Over(d, j)' PROVE FALSE
  BY DEF AliveInv
<1>1. /\ CtxMove(d, j) /\ CancelOf(d, j) /\ (Live(d, j) => ~Over(d, j))
  BY StepNext DEF AllInv, Step, FlowInv, CancelInv, AliveInv
<1>2. /\ Live(d, j) /\ ~Over(d, j) /\ (cancelled[d][j] => chClosed[d][j])
      /\ cancelled'[d][j] /\ ~chClosed'[d][j]
  BY <1>1 DEF CtxMove, Over
<1>3. Cancelled(d, j) /\ ~Refused(d, j)
  BY <1>1, <1>2 DEF CtxMove, Kept, Born, Shut, CancelOf
<1>4. Holds(d, j, "error")'
  BY <1>3 DEF Cancelled, Holds
<1>5. closes'[d][j] > 0
  BY <1>4 DEF TellInv, Handles
<1> QED
  BY <1>5 DEF Live

\* Recv says EOF on a stream only its peer has closed after every payload that
\* was sent before the peer's Close or CloseWrite, when writes do not give up:
\* no "stream not found" comes between.
THEOREM EOFAfterClose == Spec => [](~Cancels => EOFMeansAll)
<1> DEFINE Inv == AllInv /\ (~Cancels => TellInv /\ AliveInv)
<1>1. Init => Inv
  <2>1. Init => AllInv
    BY TypeInit, LineInit, StageInit, FlowInit DEF AllInv, Init, NoPanic
  <2>2. Init => AliveInv
    BY DEF Init, PerStream, AliveInv, Over
  <2> QED
    BY <2>1, <2>2, TellInit
<1>2. Inv /\ [Next]_vars => Inv' /\ TypeInv'
  <2>1. AllInv /\ [Next]_vars => AllInv' /\ TypeInv'
    BY TypeNext, LineNext, StageNext, NoPanicNext, FlowNext DEF AllInv
  <2>2. Inv /\ [Next]_vars /\ ~Cancels => TellInv'
    BY TellNext DEF AllInv
  <2> QED
    BY <2>1, <2>2, AliveNext
<1>3. Inv /\ EOFAfterAll => (~Cancels => EOFMeansAll)
  <2> SUFFICES ASSUME AliveInv, EOFAfterAll, NEW e \in Ends, NEW i \in Ids,
                      Live(e, i), last[e][i] = "eof"
               PROVE  finAt[Peer(e)][i] # -1 /\ rcvd[e][i] >= finAt[Peer(e)][i]
    BY DEF EOFMeansAll
  <2>1. PICK l \in Lines : l = <<e, i>> /\ l[1] = e /\ l[2] = i
    BY LineOf
  <2>2. /\ FinAt[l] = finAt[Peer(e)][i] /\ Received[l] = rcvd[e][i]
        /\ Ended[l] = Over(e, i) /\ SaidEOF[l] = TRUE
    BY <2>1 DEF FinAt, Received, Ended, SaidEOF
  <2>3. ~Ended[l]
    BY <2>2 DEF AliveInv
  <2> QED
    BY <2>2, <2>3 DEF EOFAfterAll, Abstract!EOFIsLast
<1> HIDE DEF Inv
<1> QED
  BY <1>1, <1>2, <1>3, EOFComesLast, PTL DEF Spec

=============================================================================
