---------------------- MODULE MessageConnStageProofs ----------------------
(***************************************************************************)
(* RejectsOnlyEnded, NoCollision and NoErrorOnLive for any bounds and      *)
(* capacities.                                                             *)
(*                                                                         *)
(* The first two are about what a frame on the wire says of its stream:    *)
(* that the end which started the stream has it, and that a frame which is *)
(* not its Start frame comes after one.  The predicates of a wire are      *)
(* stated of values, with the stage of the stream at its starter (the      *)
(* owner of the ID) and at the other end.  The third relates what is on    *)
(* the two wires (TellInv).                                                *)
(***************************************************************************)
EXTENDS MessageConnProofs

\* The IDs an end numbers its streams with.
OwnIds(e) == {FirstID(e) + 2 * k : k \in Nat}

Known == {"pending", "held"}      \* the stages at which an end has had a stream
Mapped == {"reg"} \cup Known      \* and those at which it is in the map, or was

\* What an end counts up to.
NumInv ==
  \A e \in Ends :
    /\ nextStreamID[e] \in OwnIds(e)
    /\ \A i \in Ids : i \in OwnIds(e) /\ stage[e][i] # "none" => i < nextStreamID[e]

\* One end and one stream.
Life(e, i) ==
  /\ i \in OwnIds(e) => stage[e][i] # "pending"
  /\ i \notin OwnIds(e) => stage[e][i] \in {"none"} \cup Known
  /\ i \in streams[e] => stage[e][i] \in Mapped
  /\ stage[e][i] \in Mapped => cancelled[e][i] \/ i \in streams[e]
  /\ writer[e][i] \/ closer[e][i] # "idle" => stage[e][i] = "held"
  /\ closer[e][i] # "idle" => cancelled[e][i]

LifeInv == \A e \in Ends : \A i \in Ids : Life(e, i)

\* What the loop has in its hands, and what waits to be accepted.
Hands(e) ==
  /\ loop[e] \in {"accept", "reply", "push", "error"} => stage[e][cur[e].id] \in Known
  /\ loop[e] \in {"reply", "error"} => cancelled[e][cur[e].id]
  /\ loop[e] = "push" => cur[e].flag # "start"
  /\ \A k \in DOMAIN acceptCh[e] : stage[e][acceptCh[e][k]] \in Known

\* Frames of stream i on their way to its owner, and away from it.
ToOwner(q, i, there) ==
  \A k \in DOMAIN q : q[k].id = i => q[k].flag # "start" /\ there \in Known
IsStart(f, i) == f.id = i /\ f.flag = "start"
ToOther(q, i, there, here) ==
  \A k \in DOMAIN q : q[k].id = i =>
    /\ there = "held"
    /\ q[k].flag = "start" => /\ here = "none"
                              /\ \A j \in DOMAIN q : j < k => q[j].id # i
    /\ q[k].flag # "start" /\ here = "none" =>
         \E j \in DOMAIN q : j < k /\ IsStart(q[j], i)
HasStart(q, i) == \E k \in DOMAIN q : IsStart(q[k], i)

Road(e, i) ==
  IF i \in OwnIds(e) THEN ToOwner(wire[e], i, stage[Peer(e)][i])
  ELSE /\ ToOther(wire[e], i, stage[Peer(e)][i], stage[e][i])
       /\ stage[e][i] # "none" => stage[Peer(e)][i] = "held"
       /\ Up /\ stage[Peer(e)][i] = "held" /\ stage[e][i] = "none" =>
            HasStart(wire[e], i)

RoadInv == \A e \in Ends : \A i \in Ids : Road(e, i)
HandInv == \A e \in Ends : Hands(e)

StageInv == NumInv /\ LifeInv /\ RoadInv /\ HandInv

-----------------------------------------------------------------------------
LEMMA Owners ==
  /\ \A i \in Ids : \E e \in Ends : i \in OwnIds(e)
  /\ \A e \in Ends : \A i \in OwnIds(e) : i \notin OwnIds(Peer(e))
  /\ \A e \in Ends : Peer(e) \in Ends /\ Peer(Peer(e)) = e /\ Peer(e) # e
  /\ \A d, e \in Ends : d = e \/ d = Peer(e)
  /\ RawId \notin Ids /\ "none" \notin Mapped /\ "none" \notin Known
<1>1. \A i \in Ids : \E e \in Ends : i \in OwnIds(e)
  <2> TAKE i \in Ids
  <2>1. PICK e \in Openers, k \in 0 .. (MaxStreams - 1) : i = FirstID(e) + 2 * k
    BY DEF Ids
  <2>2. e \in Ends /\ k \in Nat
    BY <2>1, ConstantsAssumption
  <2> QED
    BY <2>1, <2>2 DEF OwnIds
<1>2. \A e \in Ends : \A i \in OwnIds(e) : i \notin OwnIds(Peer(e))
  <2> SUFFICES ASSUME NEW e \in Ends, NEW k \in Nat, NEW m \in Nat,
                      FirstID(e) + 2 * k = FirstID(Peer(e)) + 2 * m
               PROVE  FALSE
    BY DEF OwnIds
  <2>1. {FirstID(e), FirstID(Peer(e))} = {1, 2}
    BY DEF FirstID, Peer, Ends
  <2>2. 1 + 2 * k = 2 + 2 * m \/ 2 + 2 * k = 1 + 2 * m
    BY DEF FirstID, Peer, Ends
  <2> QED
    BY <2>2
<1> QED
  BY <1>1, <1>2, IdsAreNat DEF Ends, Peer, RawId, Mapped, Known

\* Sequences of frames.
LEMMA TailOf ==
  ASSUME NEW q \in Seq(Frames), q # <<>>
  PROVE  /\ Tail(q) \in Seq(Frames) /\ 1 \in DOMAIN q /\ Head(q) = q[1]
         /\ DOMAIN q \subseteq Nat \ {0}
         /\ \A k \in DOMAIN Tail(q) : k + 1 \in DOMAIN q /\ Tail(q)[k] = q[k + 1]
         /\ \A k \in DOMAIN q : k # 1 => k - 1 \in DOMAIN Tail(q) /\ Tail(q)[k - 1] = q[k]
         /\ DOMAIN Tail(q) \subseteq Nat \ {0}
  OBVIOUS

LEMMA AppendOf ==
  ASSUME NEW q \in Seq(Frames), NEW x \in Frames
  PROVE  /\ DOMAIN q \subseteq DOMAIN Append(q, x) /\ Len(q) + 1 \in DOMAIN Append(q, x)
         /\ \A k \in DOMAIN q : Append(q, x)[k] = q[k] /\ k \in Nat /\ k < Len(q) + 1
         /\ Append(q, x)[Len(q) + 1] = x
         /\ \A k \in DOMAIN Append(q, x) : k \in DOMAIN q \/ k = Len(q) + 1
  OBVIOUS

\* Frames that join a wire, ...
LEMMA ToOwnerAppend ==
  ASSUME NEW q \in Seq(Frames), NEW x \in Frames, NEW i, NEW there,
         ToOwner(q, i, there),
         x.id = i => x.flag # "start" /\ there \in Known
  PROVE  ToOwner(Append(q, x), i, there)
  BY AppendOf DEF ToOwner

LEMMA ToOtherAppend ==
  ASSUME NEW q \in Seq(Frames), NEW x \in Frames, NEW i, NEW there, NEW here,
         ToOther(q, i, there, here),
         x.id = i => /\ there = "held"
                     /\ x.flag = "start" => /\ here = "none"
                                            /\ \A k \in DOMAIN q : q[k].id # i
                     /\ x.flag # "start" /\ here = "none" => HasStart(q, i)
  PROVE  ToOther(Append(q, x), i, there, here)
<1> DEFINE v == Append(q, x)
<1>1. /\ DOMAIN q \subseteq DOMAIN v /\ Len(q) + 1 \in DOMAIN v
      /\ \A k \in DOMAIN q : v[k] = q[k] /\ k \in Nat /\ k < Len(q) + 1
      /\ v[Len(q) + 1] = x
      /\ \A k \in DOMAIN v : k \in DOMAIN q \/ k = Len(q) + 1
  BY AppendOf
<1>2. \A k, j \in DOMAIN v : k \in DOMAIN q /\ j < k => j \in DOMAIN q
  OBVIOUS
<1> HIDE DEF v
<1> SUFFICES ASSUME NEW k \in DOMAIN v, v[k].id = i
             PROVE  /\ there = "held"
                    /\ v[k].flag = "start" =>
                         here = "none" /\ \A j \in DOMAIN v : j < k => v[j].id # i
                    /\ v[k].flag # "start" /\ here = "none" =>
                         \E j \in DOMAIN v : j < k /\ IsStart(v[j], i)
  BY DEF ToOther, v
<1>3. CASE k \in DOMAIN q
  <2>1. \A j \in DOMAIN v : j < k => j \in DOMAIN q /\ v[j] = q[j]
    BY <1>1, <1>2, <1>3
  <2> QED
    BY <1>1, <1>3, <2>1 DEF ToOther
<1>4. CASE k = Len(q) + 1
  <2>1. v[k] = x /\ x.id = i
    BY <1>1, <1>4
  <2>2. \A j \in DOMAIN v : j < k => j \in DOMAIN q /\ v[j] = q[j]
    <3> SUFFICES ASSUME NEW j \in DOMAIN v, j < k PROVE j \in DOMAIN q
      BY <1>1
    <3>1. Len(q) + 1 \in Nat
      OBVIOUS
    <3>2. j # Len(q) + 1
      BY <1>4, <3>1
    <3> QED
      BY <1>1, <3>2
  <2>3. HasStart(q, i) => \E j \in DOMAIN v : j < k /\ IsStart(v[j], i)
    BY <1>1, <1>4 DEF HasStart
  <2> QED
    BY <2>1, <2>2, <2>3
<1> QED
  BY <1>1, <1>3, <1>4

LEMMA StartAppend ==
  ASSUME NEW q \in Seq(Frames), NEW x \in Frames, NEW i,
         HasStart(q, i) \/ IsStart(x, i)
  PROVE  HasStart(Append(q, x), i)
  BY AppendOf DEF HasStart

\* ... and frames that leave it.
LEMMA ToOwnerTail ==
  ASSUME NEW q \in Seq(Frames), q # <<>>, NEW i, NEW there, ToOwner(q, i, there)
  PROVE  /\ ToOwner(Tail(q), i, there)
         /\ Head(q).id = i => Head(q).flag # "start" /\ there \in Known
  BY TailOf DEF ToOwner

\* A frame that is no Start frame leaves only a wire whose end knows the
\* stream; a Start frame leaves no other behind.
LEMMA ToOtherTail ==
  ASSUME NEW q \in Seq(Frames), q # <<>>, NEW i, NEW there, NEW here,
         ToOther(q, i, there, here)
  PROVE  /\ ~IsStart(Head(q), i) => ToOther(Tail(q), i, there, here)
         /\ Head(q).id = i => there = "held"
         /\ Head(q).id = i /\ Head(q).flag # "start" => here # "none"
         /\ IsStart(Head(q), i) =>
              here = "none" /\ \A now : now # "none" => ToOther(Tail(q), i, there, now)
<1> DEFINE v == Tail(q)
<1>1. /\ 1 \in DOMAIN q /\ Head(q) = q[1] /\ DOMAIN q \subseteq Nat \ {0}
      /\ \A k \in DOMAIN v : k + 1 \in DOMAIN q /\ v[k] = q[k + 1] /\ k \in Nat \ {0}
      /\ \A k \in DOMAIN q : k # 1 => k - 1 \in DOMAIN v /\ v[k - 1] = q[k]
  BY TailOf
<1> HIDE DEF v
<1>2. \A k \in DOMAIN v : 1 < k + 1 /\ \A j \in DOMAIN v : j < k => j + 1 < k + 1
  BY <1>1
<1>3. Head(q).id = i => there = "held"
  BY <1>1 DEF ToOther
<1>4. Head(q).id = i /\ Head(q).flag # "start" => here # "none"
  <2> SUFFICES ASSUME q[1].id = i, q[1].flag # "start", here = "none" PROVE FALSE
    BY <1>1
  <2>1. PICK j \in DOMAIN q : j < 1
    BY <1>1 DEF ToOther
  <2> QED
    BY <1>1, <2>1
<1>5. ASSUME ~IsStart(Head(q), i) PROVE ToOther(v, i, there, here)
  <2> SUFFICES ASSUME NEW k \in DOMAIN v, v[k].id = i
               PROVE  /\ there = "held"
                      /\ v[k].flag = "start" =>
                           here = "none" /\ \A j \in DOMAIN v : j < k => v[j].id # i
                      /\ v[k].flag # "start" /\ here = "none" =>
                           \E j \in DOMAIN v : j < k /\ IsStart(v[j], i)
    BY DEF ToOther
  <2>1. k + 1 \in DOMAIN q /\ v[k] = q[k + 1]
    BY <1>1
  <2>2. there = "held" /\ (v[k].flag = "start" => here = "none")
    BY <2>1 DEF ToOther
  <2>3. v[k].flag = "start" => \A j \in DOMAIN v : j < k => v[j].id # i
    BY <1>1, <1>2, <2>1 DEF ToOther
  <2>4. ASSUME v[k].flag # "start", here = "none"
        PROVE  \E j \in DOMAIN v : j < k /\ IsStart(v[j], i)
    <3>1. PICK j \in DOMAIN q : j < k + 1 /\ IsStart(q[j], i)
      BY <2>1, <2>4 DEF ToOther
    <3>2. j # 1
      BY <1>1, <1>5, <3>1
    <3>3. j - 1 \in DOMAIN v /\ v[j - 1] = q[j]
      BY <1>1, <3>1, <3>2
    <3>4. j \in Nat /\ k \in Nat
      BY <1>1, <3>1
    <3>5. j - 1 < k
      BY <3>1, <3>4
    <3> QED
      BY <3>1, <3>3, <3>5
  <2> QED
    BY <2>2, <2>3, <2>4
<1>6. ASSUME IsStart(Head(q), i), NEW now, now # "none"
      PROVE  here = "none" /\ ToOther(v, i, there, now)
  <2>1. q[1].id = i /\ q[1].flag = "start"
    BY <1>1, <1>6 DEF IsStart
  <2>2. ASSUME NEW k \in DOMAIN v, v[k].id = i PROVE there = "held" /\ v[k].flag # "start"
    BY <1>1, <1>2, <2>1, <2>2 DEF ToOther
  <2> QED
    BY <1>1, <1>6, <2>1, <2>2 DEF ToOther
<1>7. IsStart(Head(q), i) => here = "none"
  BY <1>6
<1> QED
  BY <1>3, <1>4, <1>5, <1>6, <1>7 DEF v

LEMMA StartTail ==
  ASSUME NEW q \in Seq(Frames), q # <<>>, NEW i, HasStart(q, i), ~IsStart(Head(q), i)
  PROVE  HasStart(Tail(q), i)
<1>1. PICK k \in DOMAIN q : IsStart(q[k], i)
  BY DEF HasStart
<1>2. k # 1
  BY <1>1, TailOf
<1> QED
  BY <1>1, <1>2, TailOf DEF HasStart

-----------------------------------------------------------------------------
(* What the steps do to the roads.                                         *)
LEMMA RoadSame ==
  ASSUME RoadInv, UNCHANGED <<wire, stage>>, Up' => Up
  PROVE  RoadInv'
<1> SUFFICES ASSUME NEW d \in Ends, NEW j \in Ids PROVE Road(d, j)'
  BY DEF RoadInv
<1>1. Road(d, j)
  BY DEF RoadInv
<1> QED
  BY <1>1 DEF Road

\* An end writes a frame of a stream it knows.
LEMMA RoadWrite ==
  ASSUME TypeInv, StageInv, NEW e \in Ends, NEW f \in Frames, Write(e, f),
         UNCHANGED <<stage, conn>>,
         f.id # RawId => f.flag # "start" /\ stage[e][f.id] \in Known
  PROVE  RoadInv'
<1> DEFINE p == Peer(e)
<1>1. /\ wire \in [Ends -> Seq(Frames)] /\ p \in Ends
      /\ wire' = [wire EXCEPT ![p] = Append(wire[p], f)]
  BY Owners DEF TypeInv, TypeOK, Write
<1>2. Up /\ (Up' <=> Up)
  BY DEF Write, Usable, Up
<1> SUFFICES ASSUME NEW d \in Ends, NEW j \in Ids PROVE Road(d, j)'
  BY DEF RoadInv
<1>3. Road(d, j) /\ Life(e, j)
  BY DEF StageInv, RoadInv, LifeInv
<1>4. CASE d # p
  <2>1. wire'[d] = wire[d]
    BY <1>1, <1>4
  <2> QED
    BY <1>2, <1>3, <2>1 DEF Road
<1>5. CASE d = p
  <2>1. wire[d] \in Seq(Frames) /\ wire'[d] = Append(wire[d], f) /\ Peer(d) = e
    BY <1>1, <1>5, Owners
  <2>2. f.id = j => f.flag # "start" /\ stage[e][j] \in Known
    BY Owners
  <2>3. CASE j \in OwnIds(d)
    <3>1. ToOwner(wire'[d], j, stage[e][j])
      BY <1>3, <2>1, <2>2, <2>3, ToOwnerAppend DEF Road
    <3> QED
      BY <2>1, <2>3, <3>1 DEF Road
  <2>4. CASE j \notin OwnIds(d)
    <3>1. j \in OwnIds(e)
      BY <1>5, <2>4, Owners
    <3>2. f.id = j => stage[e][j] = "held"
      BY <1>3, <2>2, <3>1 DEF Life, Known
    <3>3. /\ ToOther(wire[d], j, stage[e][j], stage[d][j])
          /\ stage[d][j] # "none" => stage[e][j] = "held"
          /\ stage[e][j] = "held" /\ stage[d][j] = "none" => HasStart(wire[d], j)
      BY <1>2, <1>3, <2>1, <2>4 DEF Road
    <3>4. ToOther(wire'[d], j, stage[e][j], stage[d][j])
      BY <2>1, <2>2, <3>2, <3>3, ToOtherAppend
    <3>5. stage[e][j] = "held" /\ stage[d][j] = "none" => HasStart(wire'[d], j)
      BY <2>1, <3>3, StartAppend
    <3> QED
      BY <2>1, <2>4, <3>3, <3>4, <3>5 DEF Road
  <2> QED
    BY <2>3, <2>4
<1> QED
  BY <1>4, <1>5

\* The frame the loop is about to read: a Start frame is of a stream this end
\* does not know and the other has, any other is of one it knows.
LEMMA HeadOf ==
  ASSUME TypeInv, StageInv, NEW e \in Ends, wire[e] # <<>>
  PROVE  LET f == Head(wire[e]) IN
         /\ f \in Frames
         /\ f.id # RawId => f.id \in Ids
         /\ f.id # RawId /\ f.flag = "start" =>
              /\ f.id \notin OwnIds(e) /\ stage[e][f.id] = "none"
              /\ stage[Peer(e)][f.id] = "held"
         /\ f.id # RawId /\ f.flag # "start" => stage[e][f.id] \in Known
<1> DEFINE f == Head(wire[e])  i == f.id
<1>1. wire[e] \in Seq(Frames)
  BY DEF TypeInv, TypeOK
<1>2. f \in Frames /\ (i # RawId => i \in Ids)
  BY <1>1, TakeType, FrameFields
<1> HIDE DEF f
<1> SUFFICES ASSUME i # RawId
             PROVE  /\ f.flag = "start" => /\ i \notin OwnIds(e) /\ stage[e][i] = "none"
                                           /\ stage[Peer(e)][i] = "held"
                    /\ f.flag # "start" => stage[e][i] \in Known
  BY <1>2 DEF f
<1>3. i \in Ids
  BY <1>2
<1>4. Road(e, i) /\ Road(Peer(e), i) /\ Life(e, i)
  BY <1>3, Owners DEF StageInv, RoadInv, LifeInv
<1>5. CASE i \in OwnIds(e)
  <2>1. f.flag # "start" /\ stage[Peer(e)][i] \in Known
    BY <1>1, <1>4, <1>5, ToOwnerTail DEF Road, f
  <2>2. i \notin OwnIds(Peer(e)) /\ Peer(Peer(e)) = e
    BY <1>5, Owners
  <2>3. stage[e][i] = "held"
    BY <1>4, <2>1, <2>2, Owners DEF Road
  <2> QED
    BY <2>1, <2>3 DEF Known
<1>6. CASE i \notin OwnIds(e)
  <2>1. /\ stage[Peer(e)][i] = "held"
        /\ f.flag # "start" => stage[e][i] # "none"
        /\ f.flag = "start" => stage[e][i] = "none"
    <3>1. ToOther(wire[e], i, stage[Peer(e)][i], stage[e][i])
      BY <1>4, <1>6 DEF Road
    <3> QED
      BY <1>1, <3>1, ToOtherTail DEF f, IsStart
  <2> QED
    BY <1>4, <1>6, <2>1 DEF Life
<1> QED
  BY <1>5, <1>6

\* The loop reads a frame that starts no stream.
LEMMA RoadRead ==
  ASSUME TypeInv, StageInv, NEW e \in Ends, wire[e] # <<>>,
         wire' = [wire EXCEPT ![e] = Tail(@)], UNCHANGED <<stage, conn>>,
         Head(wire[e]).id = RawId \/ Head(wire[e]).flag # "start"
  PROVE  RoadInv'
<1> SUFFICES ASSUME NEW d \in Ends, NEW j \in Ids PROVE Road(d, j)'
  BY DEF RoadInv
<1>1. wire \in [Ends -> Seq(Frames)]
  BY DEF TypeInv, TypeOK
<1>2. Up' <=> Up
  BY DEF Up
<1>3. Road(d, j)
  BY DEF StageInv, RoadInv
<1>4. CASE d # e
  <2>1. wire'[d] = wire[d]
    BY <1>1, <1>4
  <2> QED
    BY <1>2, <1>3, <2>1 DEF Road
<1>5. CASE d = e
  <2>1. wire[d] \in Seq(Frames) /\ wire[d] # <<>> /\ wire'[d] = Tail(wire[d])
    BY <1>1, <1>5
  <2>2. ~IsStart(Head(wire[d]), j)
    BY <1>5, Owners DEF IsStart
  <2>3. CASE j \in OwnIds(d)
    <3>1. ToOwner(wire'[d], j, stage[Peer(d)][j])
      BY <1>3, <2>1, <2>3, ToOwnerTail DEF Road
    <3> QED
      BY <2>3, <3>1 DEF Road
  <2>4. CASE j \notin OwnIds(d)
    <3>1. /\ ToOther(wire[d], j, stage[Peer(d)][j], stage[d][j])
          /\ stage[d][j] # "none" => stage[Peer(d)][j] = "held"
          /\ Up /\ stage[Peer(d)][j] = "held" /\ stage[d][j] = "none" =>
               HasStart(wire[d], j)
      BY <1>3, <2>4 DEF Road
    <3>2. ToOther(wire'[d], j, stage[Peer(d)][j], stage[d][j])
      BY <2>1, <2>2, <3>1, ToOtherTail
    <3>3. HasStart(wire[d], j) => HasStart(wire'[d], j)
      BY <2>1, <2>2, StartTail
    <3> QED
      BY <1>2, <2>4, <3>1, <3>2, <3>3 DEF Road
  <2> QED
    BY <2>3, <2>4
<1> QED
  BY <1>4, <1>5

\* A stage of one end and stream changes.
Moves(e, i, v) == stage' = [stage EXCEPT ![e][i] = v]

LEMMA StageMoves ==
  ASSUME TypeInv, NEW e \in Ends, NEW i \in Ids, NEW v, Moves(e, i, v)
  PROVE  /\ stage'[e][i] = v
         /\ \A d \in Ends : \A j \in Ids : d # e \/ j # i => stage'[d][j] = stage[d][j]
<1>1. stage \in [Ends -> [Ids -> {"none", "alloc", "reg", "failed", "pending", "held"}]]
  BY DEF TypeInv, TypeOK
<1>2. stage' = [stage EXCEPT ![e] = [stage[e] EXCEPT ![i] = v]]
  BY DEF Moves
<1>3. stage'[e] = [stage[e] EXCEPT ![i] = v]
  BY <1>1, <1>2
<1>4. stage'[e][i] = v /\ \A j \in Ids : j # i => stage'[e][j] = stage[e][j]
  BY <1>1, <1>3
<1>5. \A d \in Ends : d # e => stage'[d] = stage[d]
  BY <1>1, <1>2
<1> QED
  BY <1>4, <1>5

\* What an owner does before the Start frame is out concerns no wire.
LEMMA RoadOwner ==
  ASSUME TypeInv, StageInv, NEW e \in Ends, NEW i \in Ids, NEW v,
         Moves(e, i, v), UNCHANGED <<wire, conn>>,
         i \in OwnIds(e), stage[e][i] # "held", v # "held"
  PROVE  RoadInv'
<1> SUFFICES ASSUME NEW d \in Ends, NEW j \in Ids PROVE Road(d, j)'
  BY DEF RoadInv
<1>1. Road(d, j) /\ (Up' <=> Up)
  BY DEF StageInv, RoadInv, Up
<1>2. /\ stage'[e][i] = v
      /\ \A c \in Ends : \A k \in Ids : c # e \/ k # i => stage'[c][k] = stage[c][k]
  BY StageMoves
<1>3. CASE j # i
  <2>1. stage'[d][j] = stage[d][j] /\ stage'[Peer(d)][j] = stage[Peer(d)][j]
    BY <1>2, <1>3, Owners
  <2> QED
    BY <1>1, <2>1 DEF Road
<1>4. CASE j = i /\ d = e
  <2>1. stage'[Peer(d)][j] = stage[Peer(d)][j]
    BY <1>2, <1>4, Owners
  <2> QED
    BY <1>1, <1>4, <2>1 DEF Road
<1>5. CASE j = i /\ d # e
  <2>1. Peer(d) = e /\ j \notin OwnIds(d)
    BY <1>5, Owners
  <2>2. stage'[d][j] = stage[d][j]
    BY <1>2, <1>5
  <2>3. \A k \in DOMAIN wire[d] : wire[d][k].id # j
    BY <1>1, <1>5, <2>1 DEF Road, ToOther
  <2>4. stage[d][j] = "none"
    BY <1>1, <1>5, <2>1 DEF Road
  <2> QED
    BY <1>2, <1>5, <2>1, <2>2, <2>3, <2>4 DEF Road, ToOther
<1> QED
  BY <1>3, <1>4, <1>5

\* The Start frame goes out, as the first of its stream.
LEMMA RoadStarts ==
  ASSUME TypeInv, StageInv, NEW e \in Ends, NEW i \in Ids,
         Moves(e, i, "held"), UNCHANGED conn,
         i \in OwnIds(e), stage[e][i] = "reg", Write(e, Frame(i, "start", 0))
  PROVE  RoadInv'
<1> DEFINE p == Peer(e)  f == Frame(i, "start", 0)
<1>1. /\ wire \in [Ends -> Seq(Frames)] /\ p \in Ends
      /\ wire' = [wire EXCEPT ![p] = Append(wire[p], f)]
      /\ f \in Frames /\ f.id = i /\ f.flag = "start"
  BY Owners, FrameType DEF TypeInv, TypeOK, Write, Flags
<1>2. /\ stage'[e][i] = "held"
      /\ \A c \in Ends : \A k \in Ids : c # e \/ k # i => stage'[c][k] = stage[c][k]
  BY StageMoves
<1> HIDE DEF f
<1> SUFFICES ASSUME NEW d \in Ends, NEW j \in Ids PROVE Road(d, j)'
  BY DEF RoadInv
<1>3. Road(d, j) /\ (Up' <=> Up)
  BY DEF StageInv, RoadInv, Up
<1>4. CASE d = e
  <2>1. wire'[d] = wire[d]
    BY <1>1, <1>4, Owners
  <2>2. stage'[Peer(d)][j] = stage[Peer(d)][j]
    BY <1>2, <1>4, Owners
  <2>3. j \notin OwnIds(d) => stage'[d][j] = stage[d][j]
    BY <1>2, <1>4
  <2> QED
    BY <1>3, <2>1, <2>2, <2>3 DEF Road
<1>5. CASE d # e
  <2>1. /\ d = p /\ Peer(d) = e /\ i \notin OwnIds(d)
        /\ wire[d] \in Seq(Frames) /\ wire'[d] = Append(wire[d], f)
        /\ stage'[d][j] = stage[d][j]
    BY <1>1, <1>2, <1>5, Owners
  <2>2. CASE j # i
    <3>1. stage'[e][j] = stage[e][j] /\ f.id # j
      BY <1>1, <1>2, <2>2
    <3>2. CASE j \in OwnIds(d)
      <4>1. ToOwner(wire'[d], j, stage[e][j])
        BY <1>1, <1>3, <2>1, <3>1, <3>2, ToOwnerAppend DEF Road
      <4> QED
        BY <2>1, <3>1, <3>2, <4>1 DEF Road
    <3>3. CASE j \notin OwnIds(d)
      <4>1. /\ ToOther(wire[d], j, stage[e][j], stage[d][j])
            /\ stage[d][j] # "none" => stage[e][j] = "held"
            /\ Up /\ stage[e][j] = "held" /\ stage[d][j] = "none" => HasStart(wire[d], j)
        BY <1>3, <2>1, <3>3 DEF Road
      <4>2. ToOther(wire'[d], j, stage[e][j], stage[d][j])
        BY <1>1, <2>1, <3>1, <4>1, ToOtherAppend
      <4>3. HasStart(wire[d], j) => HasStart(wire'[d], j)
        BY <1>1, <2>1, StartAppend
      <4> QED
        BY <1>3, <2>1, <3>1, <3>3, <4>1, <4>2, <4>3 DEF Road
    <3> QED
      BY <3>2, <3>3
  <2>3. CASE j = i
    <3>1. ToOther(wire[d], i, "reg", stage[d][i]) /\ stage[d][i] = "none"
      BY <1>3, <2>1, <2>3 DEF Road
    <3>2. \A k \in DOMAIN wire[d] : wire[d][k].id # i
      BY <3>1 DEF ToOther
    <3>3. ToOther(wire[d], i, "held", "none")
      BY <3>2 DEF ToOther
    <3>4. ToOther(wire'[d], i, "held", "none")
      BY <1>1, <2>1, <3>2, <3>3, ToOtherAppend
    <3>5. HasStart(wire'[d], i)
      BY <1>1, <2>1, StartAppend DEF IsStart
    <3> QED
      BY <1>2, <2>1, <2>3, <3>1, <3>4, <3>5 DEF Road
  <2> QED
    BY <2>2, <2>3
<1> QED
  BY <1>4, <1>5

\* The loop reads a Start frame and makes the stream.
LEMMA RoadOpens ==
  ASSUME TypeInv, StageInv, NEW e \in Ends, NEW i \in Ids, wire[e] # <<>>,
         Head(wire[e]).id = i, Head(wire[e]).flag = "start",
         wire' = [wire EXCEPT ![e] = Tail(@)], UNCHANGED conn,
         NEW v \in Known, Moves(e, i, v)
  PROVE  RoadInv'
<1>1. /\ wire \in [Ends -> Seq(Frames)] /\ wire[e] \in Seq(Frames)
      /\ wire'[e] = Tail(wire[e]) /\ \A d \in Ends : d # e => wire'[d] = wire[d]
  BY DEF TypeInv, TypeOK
<1>2. /\ stage'[e][i] = v
      /\ \A c \in Ends : \A k \in Ids : c # e \/ k # i => stage'[c][k] = stage[c][k]
  BY StageMoves
<1>3. i \notin OwnIds(e) /\ stage[e][i] = "none" /\ stage[Peer(e)][i] = "held"
  BY HeadOf, Owners, IdsAreNat
<1> SUFFICES ASSUME NEW d \in Ends, NEW j \in Ids PROVE Road(d, j)'
  BY DEF RoadInv
<1>4. Road(d, j) /\ (Up' <=> Up)
  BY DEF StageInv, RoadInv, Up
<1>5. CASE d # e
  <2>1. wire'[d] = wire[d] /\ Peer(d) = e /\ stage'[d][j] = stage[d][j]
    BY <1>1, <1>2, <1>5, Owners
  <2>2. j # i => stage'[e][j] = stage[e][j]
    BY <1>2
  <2>3. j = i => j \in OwnIds(d)
    BY <1>3, <1>5, Owners
  <2>4. CASE j # i
    BY <1>4, <2>1, <2>2, <2>4 DEF Road
  <2>5. CASE j = i
    <3>1. ToOwner(wire[d], j, stage[e][j])
      BY <1>4, <2>1, <2>3, <2>5 DEF Road
    <3>2. ToOwner(wire[d], j, v)
      BY <3>1 DEF ToOwner
    <3> QED
      BY <1>2, <2>1, <2>3, <2>5, <3>2 DEF Road
  <2> QED
    BY <2>4, <2>5
<1>6. CASE d = e
  <2>1. stage'[Peer(d)][j] = stage[Peer(d)][j]
    BY <1>2, <1>6, Owners
  <2>2. CASE j \in OwnIds(d)
    <3>1. ToOwner(wire'[d], j, stage[Peer(d)][j])
      BY <1>1, <1>4, <1>6, <2>2, ToOwnerTail DEF Road
    <3> QED
      BY <2>1, <2>2, <3>1 DEF Road
  <2>3. CASE j \notin OwnIds(d)
    <3>1. /\ ToOther(wire[d], j, stage[Peer(d)][j], stage[d][j])
          /\ stage[d][j] # "none" => stage[Peer(d)][j] = "held"
          /\ Up /\ stage[Peer(d)][j] = "held" /\ stage[d][j] = "none" => HasStart(wire[d], j)
      BY <1>4, <2>3 DEF Road
    <3>2. CASE j # i
      <4>1. ~IsStart(Head(wire[d]), j) /\ stage'[d][j] = stage[d][j]
        BY <1>2, <1>6, <3>2 DEF IsStart
      <4>2. ToOther(wire'[d], j, stage[Peer(d)][j], stage[d][j])
        BY <1>1, <1>6, <3>1, <4>1, ToOtherTail
      <4>3. HasStart(wire[d], j) => HasStart(wire'[d], j)
        BY <1>1, <1>6, <4>1, StartTail
      <4> QED
        BY <1>4, <2>1, <2>3, <3>1, <4>1, <4>2, <4>3 DEF Road
    <3>3. CASE j = i
      <4>1. IsStart(Head(wire[d]), j) /\ v # "none"
        BY <1>6, <3>3 DEF IsStart, Known
      <4>2. ToOther(wire'[d], j, stage[Peer(d)][j], v)
        BY <1>1, <1>6, <3>1, <4>1, ToOtherTail
      <4> QED
        BY <1>2, <1>3, <1>6, <2>1, <2>3, <3>3, <4>1, <4>2 DEF Road
    <3> QED
      BY <3>2, <3>3
  <2> QED
    BY <2>2, <2>3
<1> QED
  BY <1>5, <1>6

\* The application accepts a stream.
LEMMA RoadAccept ==
  ASSUME TypeInv, StageInv, NEW e \in Ends, NEW i \in Ids, stage[e][i] \in Known,
         Moves(e, i, "held"), UNCHANGED <<wire, conn>>
  PROVE  RoadInv'
<1>1. \A d \in Ends : \A j \in Ids :
        /\ stage'[d][j] \in Known <=> stage[d][j] \in Known
        /\ stage'[d][j] = "none" <=> stage[d][j] = "none"
        /\ stage[d][j] = "held" => stage'[d][j] = "held"
  <2> TAKE d \in Ends
  <2> TAKE j \in Ids
  <2>1. /\ stage'[e][i] = "held"
        /\ d # e \/ j # i => stage'[d][j] = stage[d][j]
    BY StageMoves
  <2>2. CASE d = e /\ j = i
    BY <2>1, <2>2 DEF Known
  <2> QED
    BY <2>1, <2>2
<1> SUFFICES ASSUME NEW d \in Ends, NEW j \in Ids PROVE Road(d, j)'
  BY DEF RoadInv
<1>2. Road(d, j) /\ (Up' <=> Up) /\ wire'[d] = wire[d] /\ Peer(d) \in Ends
  BY Owners DEF StageInv, RoadInv, Up
<1>3. CASE j \in OwnIds(d)
  BY <1>1, <1>2, <1>3 DEF Road, ToOwner
<1>4. CASE j \notin OwnIds(d)
  <2>1. j \in OwnIds(Peer(d))
    BY <1>4, Owners
  <2>2. Life(Peer(d), j)
    BY <1>2 DEF StageInv, LifeInv
  <2>3. stage[Peer(d)][j] # "pending"
    BY <2>1, <2>2 DEF Life
  <2>4. stage'[Peer(d)][j] = "held" <=> stage[Peer(d)][j] = "held"
    BY <1>1, <1>2, <2>3 DEF Known
  <2>5. ToOther(wire[d], j, stage'[Peer(d)][j], stage'[d][j])
    BY <1>1, <1>2, <1>4, <2>4 DEF Road, ToOther
  <2> QED
    BY <1>1, <1>2, <1>4, <2>4, <2>5 DEF Road
<1> QED
  BY <1>3, <1>4

\* The connection is closed.
LEMMA RoadClear ==
  ASSUME TypeInv, StageInv, NEW e \in Ends, UNCHANGED stage, ~Up',
         wire' = [wire EXCEPT ![e] = <<>>]
  PROVE  RoadInv'
<1> SUFFICES ASSUME NEW d \in Ends, NEW j \in Ids PROVE Road(d, j)'
  BY DEF RoadInv
<1>1. Road(d, j)
  BY DEF StageInv, RoadInv
<1>2. wire'[d] = wire[d] \/ DOMAIN wire'[d] = {}
  BY DEF TypeInv, TypeOK
<1>3. CASE wire'[d] = wire[d]
  BY <1>1, <1>3 DEF Road
<1>4. CASE DOMAIN wire'[d] = {}
  BY <1>1, <1>4 DEF Road, ToOwner, ToOther
<1> QED
  BY <1>2, <1>3, <1>4

-----------------------------------------------------------------------------
(* What the steps do to the rest.                                          *)
LifeOK == /\ streams \in [Ends -> SUBSET Ids]
          /\ cancelled \in [Ends -> [Ids -> BOOLEAN]]
          /\ writer \in [Ends -> [Ids -> BOOLEAN]]
          /\ closer \in [Ends -> [Ids -> {"idle", "cancelled", "written"}]]
          /\ stage \in [Ends -> [Ids -> {"none", "alloc", "reg", "failed",
                                         "pending", "held"}]]

LEMMA LifeTypes == TypeInv => LifeOK
  BY DEF TypeInv, TypeOK, LifeOK

LEMMA LifeSame ==
  ASSUME LifeInv, UNCHANGED <<stage, streams, cancelled, writer, closer>>
  PROVE  LifeInv'
  BY DEF LifeInv, Life

LEMMA NumSame ==
  ASSUME NumInv, UNCHANGED nextStreamID,
         \A d \in Ends : \A j \in Ids :
           j \in OwnIds(d) /\ stage'[d][j] # "none" => stage[d][j] # "none"
  PROVE  NumInv'
  BY DEF NumInv

LEMMA HandSame ==
  ASSUME TypeInv, HandInv, UNCHANGED <<loop, cur, acceptCh>>,
         \A d \in Ends : \A j \in Ids :
           stage[d][j] \in Known => /\ stage'[d][j] \in Known
                                    /\ cancelled[d][j] => cancelled'[d][j]
  PROVE  HandInv'
<1> SUFFICES ASSUME NEW d \in Ends PROVE Hands(d)'
  BY DEF HandInv
<1>1. Hands(d) /\ acceptCh[d] \in Seq(Ids)
  BY DEF HandInv, TypeInv, TypeOK
<1>2. loop[d] \in {"accept", "reply", "push", "error"} => cur[d].id \in Ids
  BY DEF TypeInv, CurInv
<1>3. \A k \in DOMAIN acceptCh[d] : acceptCh[d][k] \in Ids
  BY <1>1
<1>4. loop'[d] = loop[d] /\ cur'[d] = cur[d] /\ acceptCh'[d] = acceptCh[d]
  OBVIOUS
<1>8. \A j \in Ids : stage[d][j] \in Known => /\ stage'[d][j] \in Known
                                              /\ cancelled[d][j] => cancelled'[d][j]
  OBVIOUS
<1>5. loop[d] \in {"accept", "reply", "push", "error"} => stage'[d][cur[d].id] \in Known
  BY <1>1, <1>2, <1>8 DEF Hands
<1>6. loop[d] \in {"reply", "error"} => cancelled'[d][cur[d].id]
  <2>1. loop[d] \in {"reply", "error"} =>
          /\ cur[d].id \in Ids /\ stage[d][cur[d].id] \in Known
          /\ cancelled[d][cur[d].id]
    BY <1>1, <1>2 DEF Hands
  <2> QED
    BY <2>1
<1>7. \A k \in DOMAIN acceptCh[d] : stage'[d][acceptCh[d][k]] \in Known
  BY <1>1, <1>3 DEF Hands
<1> QED
  BY <1>1, <1>4, <1>5, <1>6, <1>7 DEF Hands

\* A stream of an end comes into its map, with its context alive.
LEMMA LifeFresh ==
  ASSUME TypeInv, StageInv, NEW e \in Ends, NEW i \in Ids, Fresh(e, i),
         NEW v, Moves(e, i, v), UNCHANGED <<writer, closer>>,
         \/ stage[e][i] = "alloc" /\ v = "reg"
         \/ stage[e][i] = "none" /\ v \in Known /\ i \notin OwnIds(e)
  PROVE  LifeInv'
<1>1. LifeOK
  BY LifeTypes
<1>2. /\ stage'[e][i] = v
      /\ \A c \in Ends : \A k \in Ids : c # e \/ k # i => stage'[c][k] = stage[c][k]
  BY StageMoves
<1> SUFFICES ASSUME NEW d \in Ends, NEW j \in Ids PROVE Life(d, j)'
  BY DEF LifeInv
<1>3. Life(d, j)
  BY DEF StageInv, LifeInv
<1>4. CASE d = e /\ j = i
  <2>1. i \in streams'[e] /\ v \in Mapped
    BY <1>1 DEF Fresh, LifeOK, Mapped
  <2>2. ~writer[e][i] /\ closer[e][i] = "idle" /\ (v = "reg" => i \in OwnIds(e))
    BY <1>1, <1>3, <1>4 DEF Life, LifeOK, Known
  <2> QED
    BY <1>2, <1>4, <2>1, <2>2 DEF Life
<1>5. CASE d # e \/ j # i
  <2>1. cancelled'[d][j] = cancelled[d][j]
    BY <1>1, <1>5 DEF Fresh, LifeOK
  <2>2. j \in streams'[d] <=> j \in streams[d]
    BY <1>1, <1>5 DEF Fresh, LifeOK
  <2> QED
    BY <1>2, <1>3, <1>5, <2>1, <2>2 DEF Life
<1> QED
  BY <1>4, <1>5

\* Streams of an end are cancelled, and some of these leave its map.
LEMMA LifeCancel ==
  ASSUME LifeInv, UNCHANGED <<stage, writer, closer>>,
         \A d \in Ends : \A j \in Ids :
           /\ cancelled[d][j] => cancelled'[d][j]
           /\ j \in streams'[d] => j \in streams[d]
           /\ j \in streams[d] => j \in streams'[d] \/ cancelled'[d][j]
  PROVE  LifeInv'
  BY DEF LifeInv, Life

LEMMA HandGrow ==
  ASSUME TypeInv, HandInv, UNCHANGED <<loop, cur, acceptCh, stage>>,
         \A d \in Ends : \A j \in Ids : cancelled[d][j] => cancelled'[d][j]
  PROVE  HandInv'
  BY HandSame

\* The steps of the calls on stream i.
LEMMA StageCalls ==
  ASSUME TypeInv, StageInv, NEW e \in Ends, NEW i \in Ids,
         Proceed(e, i) \/ SendCheck(e, i) \/ CloseWrite(e, i)
           \/ CloseCancel(e, i) \/ Receive(e, i)
  PROVE  StageInv'
<1> USE DEF connVars, loopVars, routeVars, streamVars, clientVars, histVars, rawVars
<1>1. NumInv /\ LifeInv /\ RoadInv /\ HandInv /\ LifeOK /\ Life(e, i)
  BY LifeTypes DEF StageInv, LifeInv
<1>2. UNCHANGED conn => (Up' <=> Up)
  BY DEF Up
<1>3. \A flag \in Flags : Frame(i, flag, 0) \in Frames
  BY WrittenType
<1>4. i # RawId /\ i \in Ids
  BY Owners
<1>5. ASSUME UNCHANGED <<nextStreamID, stage>> PROVE NumInv'
  BY <1>1, <1>5, NumSame
<1>6. ASSUME UNCHANGED <<loop, cur, acceptCh, stage, cancelled>> PROVE HandInv'
  BY <1>1, <1>6, HandGrow
<1>7. ASSUME NEW flag \in Flags, NEW n \in Nat, flag # "start",
             Frame(i, flag, n) \in Frames, Write(e, Frame(i, flag, n)),
             UNCHANGED <<stage, conn>>, stage[e][i] = "held"
      PROVE  RoadInv'
  <2>1. Frame(i, flag, n).id = i /\ Frame(i, flag, n).flag = flag
    BY DEF Frame
  <2> QED
    BY <1>7, <2>1, RoadWrite DEF Known
<1>8. CASE StartRegister(e, i)
  <2>1. Moves(e, i, "reg") /\ stage[e][i] = "alloc" /\ Fresh(e, i)
    BY <1>8 DEF StartRegister, Moves
  <2>2. /\ stage'[e][i] = "reg"
        /\ \A c \in Ends : \A k \in Ids : c # e \/ k # i => stage'[c][k] = stage[c][k]
    BY <2>1, StageMoves
  <2>3. i \in OwnIds(e)
    BY <1>1, <2>1 DEF Life, Known
  <2>4. LifeInv'
    BY <1>8, <2>1, LifeFresh DEF StartRegister
  <2>5. RoadInv'
    BY <1>8, <2>1, <2>3, RoadOwner DEF StartRegister
  <2>6. NumInv'
    BY <1>1, <1>8, <2>1, <2>2, NumSame DEF StartRegister
  <2>7. \A d \in Ends : \A j \in Ids :
          stage[d][j] \in Known => /\ stage'[d][j] \in Known
                                   /\ cancelled[d][j] => cancelled'[d][j]
    BY <1>1, <2>1, <2>2 DEF Fresh, LifeOK, Known
  <2>8. HandInv'
    BY <1>1, <1>8, <2>7, HandSame DEF StartRegister
  <2> QED
    BY <2>4, <2>5, <2>6, <2>8 DEF StageInv
<1>9. CASE StartWrite(e, i)
  <2>1. /\ Moves(e, i, "held") /\ stage[e][i] = "reg"
        /\ Write(e, Frame(i, "start", 0))
    BY <1>9 DEF StartWrite, Moves
  <2>2. /\ stage'[e][i] = "held"
        /\ \A c \in Ends : \A k \in Ids : c # e \/ k # i => stage'[c][k] = stage[c][k]
    BY <2>1, StageMoves
  <2>3. i \in OwnIds(e)
    BY <1>1, <2>1 DEF Life, Known
  <2>4. LifeInv'
    BY <1>1, <1>9, <2>1, <2>2 DEF StartWrite, LifeInv, Life, Mapped, Known
  <2>5. RoadInv'
    BY <1>9, <2>1, <2>3, RoadStarts DEF StartWrite
  <2>6. NumInv'
    BY <1>1, <1>9, <2>1, <2>2, NumSame DEF StartWrite
  <2>7. HandInv'
    BY <1>1, <1>9, <2>1, <2>2, HandSame DEF StartWrite, Known
  <2> QED
    BY <2>4, <2>5, <2>6, <2>7 DEF StageInv
<1>10. CASE StartFail(e, i)
  <2>1. Moves(e, i, "failed") /\ stage[e][i] = "reg"
    BY <1>10 DEF StartFail, Moves
  <2>2. /\ stage'[e][i] = "failed"
        /\ \A c \in Ends : \A k \in Ids : c # e \/ k # i => stage'[c][k] = stage[c][k]
    BY <2>1, StageMoves
  <2>3. i \in OwnIds(e)
    BY <1>1, <2>1 DEF Life, Known
  <2>4. \A d \in Ends : \A j \in Ids :
          /\ d # e \/ j # i => (j \in streams'[d] <=> j \in streams[d])
          /\ i \notin streams'[e]
    BY <1>1, <1>10 DEF StartFail, LifeOK
  <2>5. LifeInv'
    BY <1>1, <1>10, <2>1, <2>2, <2>3, <2>4 DEF StartFail, LifeInv, Life, Mapped, Known
  <2>6. RoadInv'
    BY <1>10, <2>1, <2>3, RoadOwner DEF StartFail
  <2>7. NumInv'
    BY <1>1, <1>10, <2>1, <2>2, NumSame DEF StartFail
  <2>8. HandInv'
    BY <1>1, <1>10, <2>1, <2>2, HandSame DEF StartFail, Known
  <2> QED
    BY <2>5, <2>6, <2>7, <2>8 DEF StageInv
<1>11. CASE SendCheck(e, i)
  <2>1. LifeInv'
    BY <1>1, <1>11 DEF SendCheck, LifeInv, Life, LifeOK, Held
  <2> QED
    BY <1>1, <1>2, <1>5, <1>6, <1>11, <2>1, RoadSame DEF SendCheck, StageInv
<1>12. CASE SendWrite(e, i)
  <2>1. LifeInv'
    BY <1>1, <1>12 DEF SendWrite, LifeInv, Life, LifeOK
  <2>2. stage[e][i] = "held" /\ sent[e][i] + 1 \in Nat
    BY <1>1, <1>12 DEF SendWrite, Life, TypeInv, TypeOK
  <2>3. Frame(i, "data", sent[e][i] + 1) \in Frames
    BY WrittenType
  <2>4. RoadInv'
    BY <1>7, <1>12, <2>2, <2>3 DEF SendWrite, Flags
  <2> QED
    BY <1>5, <1>6, <1>12, <2>1, <2>4 DEF SendWrite, StageInv
<1>13. CASE SendFail(e, i)
  <2>1. LifeInv'
    BY <1>1, <1>13 DEF SendFail, LifeInv, Life, LifeOK
  <2> QED
    BY <1>1, <1>2, <1>5, <1>6, <1>13, <2>1, RoadSame DEF SendFail, StageInv
<1>14. CASE CloseWrite(e, i)
  <2>1. LifeInv'
    BY <1>1, <1>14, LifeSame DEF CloseWrite
  <2>2. RoadInv'
    BY <1>3, <1>7, <1>14 DEF CloseWrite, Held, Flags
  <2> QED
    BY <1>5, <1>6, <1>14, <2>1, <2>2 DEF CloseWrite, StageInv
<1>15. CASE CloseCancel(e, i)
  <2>1. \A d \in Ends : \A j \in Ids :
          /\ cancelled[d][j] => cancelled'[d][j]
          /\ closer'[d][j] # "idle" =>
               \/ closer[d][j] # "idle"
               \/ stage[d][j] = "held" /\ cancelled'[d][j]
    BY <1>1, <1>15 DEF CloseCancel, LifeOK, Held
  <2>2. LifeInv'
    BY <1>1, <1>15, <2>1 DEF CloseCancel, LifeInv, Life
  <2>3. HandInv'
    BY <1>1, <1>15, <2>1, HandGrow DEF CloseCancel
  <2> QED
    BY <1>1, <1>2, <1>5, <1>15, <2>2, <2>3, RoadSame DEF CloseCancel, StageInv
<1>16. CASE CloseFrame(e, i)
  <2>1. closer[e][i] = "cancelled" /\ stage[e][i] = "held"
    BY <1>1, <1>16 DEF CloseFrame, Life
  <2>2. LifeInv'
    BY <1>1, <1>16, <2>1 DEF CloseFrame, LifeInv, Life, LifeOK
  <2>3. RoadInv'
    BY <1>3, <1>7, <1>16, <2>1 DEF CloseFrame, Flags
  <2> QED
    BY <1>5, <1>6, <1>16, <2>2, <2>3 DEF CloseFrame, StageInv
<1>17. CASE CloseFrameLost(e, i)
  <2>1. LifeInv'
    BY <1>1, <1>17 DEF CloseFrameLost, LifeInv, Life, LifeOK
  <2> QED
    BY <1>1, <1>2, <1>5, <1>6, <1>17, <2>1, RoadSame DEF CloseFrameLost, StageInv
<1>18. CASE CloseRemove(e, i)
  <2>1. \A d \in Ends : \A j \in Ids :
          /\ closer'[d][j] # "idle" => closer[d][j] # "idle"
          /\ j \in streams'[d] => j \in streams[d]
          /\ j \in streams[d] => j \in streams'[d] \/ cancelled[d][j]
    BY <1>1, <1>18 DEF CloseRemove, LifeOK, Life
  <2>2. LifeInv'
    BY <1>1, <1>18, <2>1 DEF CloseRemove, LifeInv, Life
  <2> QED
    BY <1>1, <1>2, <1>5, <1>6, <1>18, <2>2, RoadSame DEF CloseRemove, StageInv
<1>19. CASE RecvFrame(e, i)
  <2>1. \A d \in Ends : \A j \in Ids : cancelled[d][j] => cancelled'[d][j]
    BY <1>1, <1>19 DEF RecvFrame, LifeOK
  <2>2. LifeInv'
    BY <1>1, <1>19, <2>1, LifeCancel DEF RecvFrame
  <2>3. HandInv'
    BY <1>1, <1>19, <2>1, HandGrow DEF RecvFrame
  <2> QED
    BY <1>1, <1>2, <1>5, <1>19, <2>2, <2>3, RoadSame DEF RecvFrame, StageInv
<1>20. CASE RecvEnd(e, i)
  BY <1>1, <1>2, <1>5, <1>6, <1>20, LifeSame, RoadSame DEF RecvEnd, StageInv
<1> QED
  BY <1>8, <1>9, <1>10, <1>11, <1>12, <1>13, <1>14, <1>15, <1>16, <1>17, <1>18,
     <1>19, <1>20 DEF Proceed, Receive

\* What the loop of one end has in its hands.
LEMMA HandOne ==
  ASSUME TypeInv, HandInv, NEW e \in Ends,
         \A d \in Ends : d # e =>
           loop'[d] = loop[d] /\ cur'[d] = cur[d] /\ acceptCh'[d] = acceptCh[d],
         \A d \in Ends : \A j \in Ids :
           stage[d][j] \in Known /\ d # e =>
             stage'[d][j] \in Known /\ (cancelled[d][j] => cancelled'[d][j]),
         Hands(e)'
  PROVE  HandInv'
<1> SUFFICES ASSUME NEW d \in Ends, d # e PROVE Hands(d)'
  BY DEF HandInv
<1>1. Hands(d) /\ acceptCh[d] \in Seq(Ids)
  BY DEF HandInv, TypeInv, TypeOK
<1>2. loop[d] \in {"accept", "reply", "push", "error"} => cur[d].id \in Ids
  BY DEF TypeInv, CurInv
<1>3. \A k \in DOMAIN acceptCh[d] : acceptCh[d][k] \in Ids
  BY <1>1
<1>4. loop'[d] = loop[d] /\ cur'[d] = cur[d] /\ acceptCh'[d] = acceptCh[d]
  OBVIOUS
<1>5. \A j \in Ids : stage[d][j] \in Known =>
        stage'[d][j] \in Known /\ (cancelled[d][j] => cancelled'[d][j])
  OBVIOUS
<1> QED
  BY <1>1, <1>2, <1>3, <1>4, <1>5 DEF Hands

\* The loop goes back to its read, or on from one.
LEMMA HandReturns ==
  ASSUME TypeInv, StageInv, NEW e \in Ends, Returns(e), UNCHANGED <<acceptCh, stage>>,
         UNCHANGED cancelled
  PROVE  HandInv'
<1>1. HandInv /\ Hands(e) /\ LoopOK
  BY TypeParts DEF StageInv, HandInv, TypeInv
<1>2. loop'[e] = "read" /\ \A d \in Ends : d # e => loop'[d] = loop[d] /\ cur'[d] = cur[d]
  BY <1>1 DEF Returns, LoopOK
<1>3. Hands(e)'
  BY <1>1, <1>2 DEF Hands
<1> QED
  BY <1>1, <1>2, <1>3, HandOne

LEMMA HandReads ==
  ASSUME TypeInv, StageInv, NEW e \in Ends, NEW f, NEW l, Reads(e, f, l),
         UNCHANGED <<acceptCh, stage>>,
         \A d \in Ends : \A j \in Ids : cancelled[d][j] => cancelled'[d][j],
         l \in {"accept", "reply", "push", "error"} => stage[e][f.id] \in Known,
         l \in {"reply", "error"} => cancelled'[e][f.id],
         l = "push" => f.flag # "start"
  PROVE  HandInv'
<1>1. HandInv /\ Hands(e) /\ LoopOK
  BY TypeParts DEF StageInv, HandInv, TypeInv
<1>2. /\ loop'[e] = l
      /\ cur'[e] = IF l = "read" THEN NoFrame ELSE f
      /\ \A d \in Ends : d # e => loop'[d] = loop[d] /\ cur'[d] = cur[d]
  BY <1>1 DEF Reads, LoopOK
<1>3. Hands(e)'
  BY <1>1, <1>2 DEF Hands
<1> QED
  BY <1>1, <1>2, <1>3, HandOne

\* The steps of the read loop.
LEMMA StageLoop ==
  ASSUME TypeInv, StageInv, NEW e \in Ends, Loop(e)
  PROVE  StageInv'
<1> USE DEF connVars, loopVars, routeVars, streamVars, clientVars, histVars, rawVars
<1>1. /\ NumInv /\ LifeInv /\ RoadInv /\ HandInv /\ LifeOK /\ LoopOK /\ Hands(e)
      /\ \A i \in Ids : Life(e, i)
  BY LifeTypes, TypeParts DEF StageInv, LifeInv, HandInv, TypeInv
<1>2. UNCHANGED conn => (Up' <=> Up)
  BY DEF Up
<1>3. loop[e] \in {"accept", "reply", "push", "error"} => cur[e].id \in Ids
  BY DEF TypeInv, CurInv
<1>4. ASSUME UNCHANGED <<nextStreamID, stage>> PROVE NumInv'
  BY <1>1, <1>4, NumSame
<1>5. ASSUME NEW f, NEW l, Reads(e, f, l)
      PROVE  wire[e] # <<>> /\ f = Head(wire[e]) /\ wire' = [wire EXCEPT ![e] = Tail(@)]
  BY <1>5 DEF Reads
<1>6. \A i \in Ids : i \in streams[e] => stage[e][i] \in Mapped
  BY <1>1 DEF Life
<1>7. ASSUME UNCHANGED <<stage, conn, nextStreamID, streams, cancelled, writer, closer>>,
             Returns(e), UNCHANGED <<wire, acceptCh>>
      PROVE  StageInv'
  BY <1>1, <1>2, <1>4, <1>7, LifeSame, RoadSame, HandReturns DEF StageInv
<1>8. CASE LoopRaw(e)
  <2>1. Reads(e, Head(wire[e]), "raw") /\ Head(wire[e]).id = RawId
    BY <1>8 DEF LoopRaw
  <2>2. HandInv'
    BY <1>8, <2>1, HandReads DEF LoopRaw
  <2>3. RoadInv'
    BY <1>5, <1>8, <2>1, RoadRead DEF LoopRaw
  <2> QED
    BY <1>1, <1>4, <1>8, <2>2, <2>3, LifeSame DEF LoopRaw, StageInv
<1>9. CASE LoopStart(e)
  <2> DEFINE f == Head(wire[e])
             served == routed[f.id] /\ handled[e]
             i == f.id
             v == IF served THEN "held" ELSE "pending"
  <2>1. /\ i # RawId /\ i \notin streams[e] /\ f.flag = "start" /\ Fresh(e, i)
        /\ Reads(e, f, IF served THEN "read" ELSE "accept")
        /\ stage' = [stage EXCEPT ![e][i] = v]
        /\ UNCHANGED <<conn, nextStreamID, acceptCh, writer, closer>>
    BY <1>9 DEF LoopStart
  <2>2. /\ wire[e] # <<>> /\ i \in Ids /\ i \notin OwnIds(e) /\ stage[e][i] = "none"
    BY <1>9, <2>1, HeadOf DEF LoopStart
  <2>3. v \in Known /\ Moves(e, i, v)
    BY <2>1 DEF Known, Moves
  <2>4. wire' = [wire EXCEPT ![e] = Tail(@)]
    BY <2>1 DEF Reads
  <2>5. /\ loop'[e] \in {"read", "accept"} /\ (loop'[e] = "accept" => cur'[e] = f)
        /\ \A d \in Ends : d # e => loop'[d] = loop[d] /\ cur'[d] = cur[d]
    BY <1>1, <2>1 DEF Reads, LoopOK
  <2> HIDE DEF f, v, served
  <2>6. /\ stage'[e][i] = v
        /\ \A c \in Ends : \A k \in Ids : c # e \/ k # i => stage'[c][k] = stage[c][k]
    BY <2>2, <2>3, StageMoves
  <2>7. LifeInv'
    BY <2>1, <2>2, <2>3, LifeFresh
  <2>8. RoadInv'
    BY <2>1, <2>2, <2>3, <2>4, RoadOpens DEF f
  <2>9. NumInv'
    BY <1>1, <2>1, <2>2, <2>6, NumSame
  <2>10. Hands(e)'
    <3>1. acceptCh[e] \in Seq(Ids) /\ acceptCh'[e] = acceptCh[e]
      BY <2>1 DEF TypeInv, TypeOK
    <3>2. \A k \in DOMAIN acceptCh[e] : acceptCh[e][k] \in Ids
      BY <3>1
    <3>3. \A k \in DOMAIN acceptCh[e] : stage'[e][acceptCh[e][k]] \in Known
      BY <1>1, <2>3, <2>6, <3>2 DEF Hands
    <3>4. loop'[e] = "accept" => stage'[e][cur'[e].id] \in Known
      BY <2>3, <2>5, <2>6
    <3> QED
      BY <2>5, <3>1, <3>3, <3>4 DEF Hands
  <2>11. HandInv'
    <3>1. \A d \in Ends : \A j \in Ids : d # e => cancelled'[d][j] = cancelled[d][j]
      BY <1>1, <2>1 DEF Fresh, LifeOK
    <3>2. \A d \in Ends : \A j \in Ids :
            stage[d][j] \in Known /\ d # e =>
              stage'[d][j] \in Known /\ (cancelled[d][j] => cancelled'[d][j])
      BY <2>6, <3>1
    <3>3. \A d \in Ends : d # e =>
            loop'[d] = loop[d] /\ cur'[d] = cur[d] /\ acceptCh'[d] = acceptCh[d]
      BY <2>1, <2>5
    <3> QED
      BY <1>1, <2>10, <3>2, <3>3, HandOne
  <2> QED
    BY <2>7, <2>8, <2>9, <2>11 DEF StageInv
<1>10. CASE LoopUnknown(e)
  <2> DEFINE f == Head(wire[e])
  <2>1. /\ f.id # RawId /\ f.id \notin streams[e] /\ f.flag # "start" /\ wire[e] # <<>>
        /\ Reads(e, f, "reply") /\ UNCHANGED <<acceptCh, stage, conn, cancelled>>
    BY <1>10 DEF LoopUnknown
  <2>2. stage[e][f.id] \in Known /\ f.id \in Ids
    BY <2>1, HeadOf
  <2>3. cancelled[e][f.id]
    BY <1>1, <2>1, <2>2 DEF Life, Mapped
  <2>4. HandInv'
    BY <2>1, <2>2, <2>3, HandReads
  <2>5. RoadInv'
    BY <1>5, <2>1, RoadRead
  <2> QED
    BY <1>1, <1>4, <1>10, <2>4, <2>5, LifeSame DEF LoopUnknown, StageInv
<1>11. CASE LoopClose(e)
  <2>1. /\ Head(wire[e]).flag = "close" /\ wire[e] # <<>>
        /\ Reads(e, Head(wire[e]), "read") /\ CloseStreams(e, {Head(wire[e]).id})
        /\ UNCHANGED <<acceptCh, stage, conn, writer, closer, nextStreamID>>
    BY <1>11 DEF LoopClose
  <2>2. \A d \in Ends : \A j \in Ids :
          /\ cancelled[d][j] => cancelled'[d][j]
          /\ j \in streams'[d] => j \in streams[d]
          /\ j \in streams[d] => j \in streams'[d] \/ cancelled'[d][j]
    BY <1>1, <2>1 DEF CloseStreams, LifeOK
  <2>3. LifeInv'
    BY <1>1, <2>1, <2>2, LifeCancel
  <2>4. HandInv'
    BY <2>1, <2>2, HandReads
  <2>5. RoadInv'
    BY <1>5, <2>1, RoadRead
  <2> QED
    BY <1>4, <2>1, <2>3, <2>4, <2>5 DEF StageInv
<1>12. CASE LoopError(e)
  <2> DEFINE i == Head(wire[e]).id
  <2>1. /\ i \in streams[e] /\ Head(wire[e]).flag = "error" /\ wire[e] # <<>>
        /\ Reads(e, Head(wire[e]), "error")
        /\ cancelled' = [cancelled EXCEPT ![e][i] = TRUE]
        /\ UNCHANGED <<acceptCh, stage, conn, writer, closer, nextStreamID, streams>>
    BY <1>12 DEF LoopError
  <2>2. i \in Ids
    BY <1>1, <2>1 DEF LifeOK
  <2>3. stage[e][i] \in Known
    BY <2>1, <2>2, HeadOf, Owners
  <2>4. \A d \in Ends : \A j \in Ids :
          /\ cancelled[d][j] => cancelled'[d][j]
          /\ d = e /\ j = i => cancelled'[d][j]
    BY <1>1, <2>1, <2>2 DEF LifeOK
  <2>5. LifeInv'
    BY <1>1, <2>1, <2>4, LifeCancel
  <2>6. HandInv'
    BY <2>1, <2>2, <2>3, <2>4, HandReads
  <2>7. RoadInv'
    BY <1>5, <2>1, RoadRead
  <2> QED
    BY <1>4, <2>1, <2>5, <2>6, <2>7 DEF StageInv
<1>13. CASE LoopData(e)
  <2> DEFINE i == Head(wire[e]).id
  <2>1. /\ i \in streams[e] /\ wire[e] # <<>> /\ Reads(e, Head(wire[e]), "push")
        /\ UNCHANGED <<acceptCh, stage, conn, cancelled>>
    BY <1>13 DEF LoopData
  <2>2. i \in Ids /\ i # RawId
    BY <1>1, <2>1, Owners DEF LifeOK
  <2>3. stage[e][i] # "none"
    BY <1>6, <2>1, <2>2, Owners
  <2>4. Head(wire[e]).flag # "start" /\ stage[e][i] \in Known
    BY <2>1, <2>2, <2>3, HeadOf
  <2>5. HandInv'
    BY <2>1, <2>4, HandReads
  <2>6. RoadInv'
    BY <1>5, <2>1, <2>4, RoadRead
  <2> QED
    BY <1>1, <1>4, <1>13, <2>5, <2>6, LifeSame DEF LoopData, StageInv
<1>14. CASE LoopPushRaw(e)
  BY <1>7, <1>14 DEF LoopPushRaw
<1>15. CASE LoopAccept(e)
  <2>1. /\ loop[e] = "accept" /\ acceptCh' = [acceptCh EXCEPT ![e] = Append(@, cur[e].id)]
        /\ Returns(e) /\ UNCHANGED <<wire, conn, stage, cancelled>>
    BY <1>15 DEF LoopAccept
  <2>2. /\ acceptCh \in [Ends -> Seq(Ids)] /\ cur[e].id \in Ids
        /\ stage[e][cur[e].id] \in Known
    BY <1>1, <1>3, <2>1 DEF TypeInv, TypeOK, Hands
  <2>3. /\ loop'[e] = "read"
        /\ \A d \in Ends : d # e => loop'[d] = loop[d] /\ cur'[d] = cur[d]
    BY <1>1, <2>1 DEF Returns, LoopOK
  <2>4. /\ acceptCh'[e] = Append(acceptCh[e], cur[e].id)
        /\ \A d \in Ends : d # e => acceptCh'[d] = acceptCh[d]
    BY <2>1, <2>2
  <2>5. \A k \in DOMAIN acceptCh'[e] : stage[e][acceptCh'[e][k]] \in Known
    <3>1. \A k \in DOMAIN acceptCh'[e] :
            \/ k \in DOMAIN acceptCh[e] /\ acceptCh'[e][k] = acceptCh[e][k]
            \/ acceptCh'[e][k] = cur[e].id
      BY <2>2, <2>4
    <3> QED
      BY <1>1, <2>2, <3>1 DEF Hands
  <2>6. Hands(e)'
    BY <2>1, <2>3, <2>5 DEF Hands
  <2>7. HandInv'
    BY <1>1, <2>1, <2>3, <2>4, <2>6, HandOne
  <2> QED
    BY <1>1, <1>2, <1>4, <1>15, <2>7, LifeSame, RoadSame DEF LoopAccept, StageInv
<1>16. CASE LoopReply(e)
  <2> DEFINE i == cur[e].id  f == Frame(i, "error", 0)
  <2>1. /\ loop[e] = "reply" /\ Returns(e) /\ UNCHANGED <<acceptCh, stage, conn, cancelled>>
        /\ Write(e, f) \/ UNCHANGED wire
    BY <1>16 DEF LoopReply
  <2>2. i \in Ids /\ stage[e][i] \in Known
    BY <1>1, <1>3, <2>1 DEF Hands
  <2>3. f \in Frames /\ f.id = i /\ f.flag = "error"
    BY <2>2, FrameType DEF Flags
  <2> HIDE DEF f
  <2>4. RoadInv'
    BY <1>1, <1>2, <2>1, <2>2, <2>3, RoadWrite, RoadSame
  <2>5. HandInv'
    BY <2>1, HandReturns
  <2> QED
    BY <1>1, <1>4, <1>16, <2>4, <2>5, LifeSame DEF LoopReply, StageInv
<1>17. CASE LoopPush(e)
  BY <1>7, <1>17 DEF LoopPush
<1>18. CASE LoopPushError(e)
  <2>1. /\ loop[e] = "error" /\ Returns(e)
        /\ streams' = [streams EXCEPT ![e] = @ \ {cur[e].id}]
        /\ UNCHANGED <<acceptCh, stage, conn, wire, cancelled, writer, closer, nextStreamID>>
    BY <1>18 DEF LoopPushError
  <2>2. cur[e].id \in Ids /\ cancelled[e][cur[e].id]
    BY <1>1, <1>3, <2>1 DEF Hands
  <2>3. LifeInv'
    BY <1>1, <2>1, <2>2, LifeCancel DEF LifeOK
  <2>4. HandInv'
    BY <2>1, HandReturns
  <2> QED
    BY <1>1, <1>2, <1>4, <2>1, <2>3, <2>4, RoadSame DEF StageInv
<1>19. CASE LoopFail(e)
  <2>1. /\ loop' = [loop EXCEPT ![e] = "failed"] /\ CloseStreams(e, streams[e])
        /\ UNCHANGED <<acceptCh, stage, conn, wire, cur, writer, closer, nextStreamID>>
    BY <1>19 DEF LoopFail
  <2>2. \A d \in Ends : \A j \in Ids :
          /\ cancelled[d][j] => cancelled'[d][j]
          /\ j \in streams'[d] => j \in streams[d]
          /\ j \in streams[d] => j \in streams'[d] \/ cancelled'[d][j]
    BY <1>1, <2>1 DEF CloseStreams, LifeOK
  <2>3. LifeInv'
    BY <1>1, <2>1, <2>2, LifeCancel
  <2>4. loop'[e] = "failed" /\ \A d \in Ends : d # e => loop'[d] = loop[d]
    BY <1>1, <2>1 DEF LoopOK
  <2>5. Hands(e)'
    BY <1>1, <2>1, <2>4 DEF Hands
  <2>6. HandInv'
    BY <1>1, <2>1, <2>2, <2>4, <2>5, HandOne
  <2> QED
    BY <1>1, <1>2, <1>4, <2>1, <2>3, <2>6, RoadSame DEF StageInv
<1>20. CASE LoopExit(e)
  <2>1. /\ loop' = [loop EXCEPT ![e] = "done"]
        /\ UNCHANGED <<acceptCh, stage, conn, wire, cur, cancelled>>
    BY <1>20 DEF LoopExit
  <2>2. loop'[e] = "done" /\ \A d \in Ends : d # e => loop'[d] = loop[d]
    BY <1>1, <2>1 DEF LoopOK
  <2>3. Hands(e)'
    BY <1>1, <2>1, <2>2 DEF Hands
  <2>4. HandInv'
    BY <1>1, <2>1, <2>2, <2>3, HandOne
  <2> QED
    BY <1>1, <1>2, <1>4, <1>20, <2>4, LifeSame, RoadSame DEF LoopExit, StageInv
<1> QED
  BY <1>8, <1>9, <1>10, <1>11, <1>12, <1>13, <1>14, <1>15, <1>16, <1>17, <1>18,
     <1>19, <1>20 DEF Loop

\* The other steps of the applications.
LEMMA StageApplication ==
  ASSUME TypeInv, StageInv, NEW e \in Ends,
         \/ StartAlloc(e) \/ WriteData(e) \/ RegisterHandler(e)
         \/ ConnCancel(e) \/ ConnClose(e) \/ Take(e)
  PROVE  StageInv'
<1> USE DEF connVars, loopVars, routeVars, streamVars, clientVars, histVars, rawVars
<1>1. /\ NumInv /\ LifeInv /\ RoadInv /\ HandInv /\ LifeOK
      /\ \A i \in Ids : Life(e, i)
  BY LifeTypes DEF StageInv, LifeInv
<1>2. UNCHANGED conn => (Up' <=> Up)
  BY DEF Up
<1>3. ASSUME UNCHANGED <<nextStreamID, stage>> PROVE NumInv'
  BY <1>1, <1>3, NumSame
<1>4. ASSUME UNCHANGED <<loop, cur, acceptCh, stage, cancelled>> PROVE HandInv'
  BY <1>1, <1>4, HandGrow
<1>5. CASE StartAlloc(e)
  <2> DEFINE i == nextStreamID[e]
  <2>1. /\ i \in Ids /\ i \in OwnIds(e) /\ Moves(e, i, "alloc")
        /\ nextStreamID' = [nextStreamID EXCEPT ![e] = i + 2]
        /\ UNCHANGED <<conn, wire, streams, loop, cur, acceptCh, cancelled, writer, closer>>
    BY <1>1, <1>5 DEF StartAlloc, Moves, NumInv
  <2>2. /\ stage'[e][i] = "alloc"
        /\ \A c \in Ends : \A k \in Ids : c # e \/ k # i => stage'[c][k] = stage[c][k]
    BY <2>1, StageMoves
  <2>3. nextStreamID \in [Ends -> Nat]
    BY DEF TypeInv, TypeOK
  <2>4. /\ nextStreamID'[e] = i + 2
        /\ \A d \in Ends : d # e => nextStreamID'[d] = nextStreamID[d]
    BY <2>1, <2>3
  <2>5. stage[e][i] = "none"
    BY <1>1, <2>1, <2>3 DEF NumInv
  <2>6. NumInv'
    <3> SUFFICES ASSUME NEW d \in Ends
                 PROVE  /\ nextStreamID'[d] \in OwnIds(d)
                        /\ \A j \in Ids : j \in OwnIds(d) /\ stage'[d][j] # "none" =>
                             j < nextStreamID'[d]
      BY DEF NumInv
    <3>1. CASE d # e
      BY <1>1, <2>2, <2>4, <3>1 DEF NumInv
    <3>2. CASE d = e
      <4>1. PICK k \in Nat : i = FirstID(e) + 2 * k
        BY <2>1 DEF OwnIds
      <4>2. i + 2 = FirstID(e) + 2 * (k + 1) /\ k + 1 \in Nat
        BY <4>1 DEF FirstID
      <4>3. i + 2 \in OwnIds(e)
        BY <4>2 DEF OwnIds
      <4>4. ASSUME NEW j \in Ids, j \in OwnIds(e), stage'[e][j] # "none"
            PROVE  j < i + 2
        <5>1. j = i \/ j < i
          BY <1>1, <2>2, <4>4 DEF NumInv
        <5> QED
          BY <5>1, <2>3, <4>4, IdsAreNat
      <4> QED
        BY <2>4, <3>2, <4>3, <4>4
    <3> QED
      BY <3>1, <3>2
  <2>7. LifeInv'
    <3> SUFFICES ASSUME NEW d \in Ends, NEW j \in Ids PROVE Life(d, j)'
      BY DEF LifeInv
    <3>1. Life(d, j)
      BY <1>1 DEF LifeInv
    <3>2. CASE d = e /\ j = i
      BY <2>1, <2>2, <2>5, <3>1, <3>2 DEF Life, Mapped, Known
    <3>3. CASE d # e \/ j # i
      BY <2>1, <2>2, <3>1, <3>3 DEF Life
    <3> QED
      BY <3>2, <3>3
  <2>8. RoadInv'
    BY <2>1, <2>5, RoadOwner
  <2>9. HandInv'
    BY <1>1, <2>1, <2>2, <2>5, HandSame, Owners
  <2> QED
    BY <2>6, <2>7, <2>8, <2>9 DEF StageInv
<1>6. CASE WriteData(e)
  <2> DEFINE f == Frame(RawId, "raw", rawSent[e] + 1)
  <2>1. Write(e, f) /\ UNCHANGED <<stage, conn>>
    BY <1>6 DEF WriteData
  <2>2. f.id = RawId
    BY DEF Frame
  <2>3. f \in Frames
    <3>1. rawSent[e] + 1 \in Nat
      BY DEF TypeInv, TypeOK
    <3> QED
      BY <3>1, FrameType DEF Flags
  <2> HIDE DEF f
  <2>5. RoadInv'
    BY <2>1, <2>2, <2>3, RoadWrite
  <2> QED
    BY <1>1, <1>3, <1>4, <1>6, <2>5, LifeSame DEF WriteData, StageInv
<1>7. CASE RegisterHandler(e)
  BY <1>1, <1>2, <1>3, <1>4, <1>7, LifeSame, RoadSame DEF RegisterHandler, StageInv
<1>8. CASE ConnCancel(e)
  <2>1. /\ conn' = [conn EXCEPT ![e] = "cancelled"]
        /\ cancelled' = [cancelled EXCEPT ![e] = [i \in Ids |-> @[i] \/ i \in streams[e]]]
        /\ UNCHANGED <<wire, nextStreamID, stage, streams, loop, cur, acceptCh, writer, closer>>
    BY <1>8 DEF ConnCancel
  <2>2. Up' => Up
    BY <1>8, <2>1 DEF ConnCancel, Up, TypeInv, TypeOK
  <2>3. \A d \in Ends : \A j \in Ids : cancelled[d][j] => cancelled'[d][j]
    BY <1>1, <2>1 DEF LifeOK
  <2>4. LifeInv'
    BY <1>1, <2>1, <2>3, LifeCancel
  <2>5. HandInv'
    BY <1>1, <2>1, <2>3, HandGrow
  <2> QED
    BY <1>1, <1>3, <2>1, <2>2, <2>4, <2>5, RoadSame DEF StageInv
<1>9. CASE ConnClose(e)
  <2>1. /\ UNCHANGED <<nextStreamID, stage, streams, loop, cur, acceptCh, cancelled,
                       writer, closer>>
        /\ \/ Released(e)
           \/ conn' = [conn EXCEPT ![e] = "closing"] /\ UNCHANGED wire
    BY <1>9 DEF ConnClose
  <2>2. ASSUME Released(e) PROVE RoadInv'
    <3>1. ~Up' /\ wire' = [wire EXCEPT ![e] = <<>>]
      BY <2>2 DEF Released, Up, TypeInv, TypeOK
    <3> QED
      BY <2>1, <3>1, RoadClear
  <2>4. ASSUME conn' = [conn EXCEPT ![e] = "closing"], UNCHANGED wire
        PROVE  RoadInv'
    <3>1. Up' => Up
      BY <1>9, <2>4 DEF ConnClose, Up, TypeInv, TypeOK
    <3> QED
      BY <2>1, <2>4, <3>1, RoadSame DEF StageInv
  <2>3. RoadInv'
    BY <2>1, <2>2, <2>4
  <2> QED
    BY <1>1, <1>3, <1>4, <2>1, <2>3, LifeSame DEF StageInv
<1>10. CASE AcceptStream(e)
  <2> DEFINE i == Head(acceptCh[e])
  <2>1. /\ acceptCh[e] # <<>> /\ Moves(e, i, "held")
        /\ acceptCh' = [acceptCh EXCEPT ![e] = Tail(@)]
        /\ UNCHANGED <<conn, wire, nextStreamID, streams, loop, cur, cancelled, writer, closer>>
    BY <1>10 DEF AcceptStream, Moves
  <2>2. acceptCh \in [Ends -> Seq(Ids)]
    BY DEF TypeInv, TypeOK
  <2>3. /\ i \in Ids /\ 1 \in DOMAIN acceptCh[e] /\ i = acceptCh[e][1]
        /\ \A k \in DOMAIN Tail(acceptCh[e]) :
             k + 1 \in DOMAIN acceptCh[e] /\ Tail(acceptCh[e])[k] = acceptCh[e][k + 1]
    BY <2>1, <2>2
  <2>4. stage[e][i] \in Known
    BY <1>1, <2>3 DEF HandInv, Hands
  <2> HIDE DEF i
  <2>5. /\ stage'[e][i] = "held"
        /\ \A c \in Ends : \A k \in Ids : c # e \/ k # i => stage'[c][k] = stage[c][k]
    BY <2>1, <2>3, StageMoves
  <2>6. \A d \in Ends : \A j \in Ids : stage[d][j] \in Known => stage'[d][j] \in Known
    BY <2>5 DEF Known
  <2>7. RoadInv'
    BY <2>1, <2>3, <2>4, RoadAccept
  <2>8. LifeInv'
    <3> SUFFICES ASSUME NEW d \in Ends, NEW j \in Ids PROVE Life(d, j)'
      BY DEF LifeInv
    <3>1. Life(d, j)
      BY <1>1 DEF LifeInv
    <3>2. CASE d = e /\ j = i
      BY <2>1, <2>4, <2>5, <3>1, <3>2 DEF Life, Mapped, Known
    <3>3. CASE d # e \/ j # i
      BY <2>1, <2>5, <3>1, <3>3 DEF Life
    <3> QED
      BY <3>2, <3>3
  <2>9. NumInv'
    BY <1>1, <2>1, <2>4, <2>5, NumSame, Owners
  <2>10. HandInv'
    <3>1. acceptCh'[e] = Tail(acceptCh[e]) /\ \A d \in Ends : d # e => acceptCh'[d] = acceptCh[d]
      BY <2>1, <2>2
    <3>2. \A k \in DOMAIN acceptCh[e] : acceptCh[e][k] \in Ids
      BY <2>2
    <3>3. Hands(e) /\ (loop[e] \in {"accept", "reply", "push", "error"} => cur[e].id \in Ids)
      BY <1>1 DEF HandInv, TypeInv, CurInv
    <3>4. \A k \in DOMAIN acceptCh'[e] : stage'[e][acceptCh'[e][k]] \in Known
      BY <2>3, <2>6, <3>1, <3>2, <3>3 DEF Hands
    <3>5. loop'[e] = loop[e] /\ cur'[e] = cur[e] /\ cancelled'[e] = cancelled[e]
      BY <2>1
    <3>6. Hands(e)'
      BY <2>6, <3>3, <3>4, <3>5 DEF Hands
    <3>7. \A d \in Ends : d # e =>
            loop'[d] = loop[d] /\ cur'[d] = cur[d] /\ acceptCh'[d] = acceptCh[d]
      BY <2>1, <3>1
    <3>8. \A d \in Ends : \A j \in Ids :
            stage[d][j] \in Known /\ d # e =>
              stage'[d][j] \in Known /\ (cancelled[d][j] => cancelled'[d][j])
      BY <2>1, <2>6
    <3> QED
      BY <1>1, <3>6, <3>7, <3>8, HandOne
  <2> QED
    BY <2>7, <2>8, <2>9, <2>10 DEF StageInv
<1>11. CASE ReadData(e)
  BY <1>1, <1>2, <1>3, <1>4, <1>11, LifeSame, RoadSame DEF ReadData, StageInv
<1> QED
  BY <1>5, <1>6, <1>7, <1>8, <1>9, <1>10, <1>11 DEF Take

-----------------------------------------------------------------------------
LEMMA StageInit == Init => StageInv
<1> SUFFICES ASSUME Init PROVE StageInv
  OBVIOUS
<1>1. \A e \in Ends :
        /\ wire[e] = <<>> /\ loop[e] = "read" /\ acceptCh[e] = <<>>
        /\ nextStreamID[e] = FirstID(e) /\ streams[e] = {}
        /\ \A i \in Ids : /\ stage[e][i] = "none" /\ ~cancelled[e][i]
                          /\ ~writer[e][i] /\ closer[e][i] = "idle"
  BY DEF Init, PerStream
<1>2. \A e \in Ends : FirstID(e) \in OwnIds(e)
  <2> TAKE e \in Ends
  <2>1. FirstID(e) = FirstID(e) + 2 * 0 /\ 0 \in Nat
    BY DEF FirstID
  <2> QED
    BY <2>1 DEF OwnIds
<1>3. NumInv
  BY <1>1, <1>2 DEF NumInv
<1>4. LifeInv
  BY <1>1, Owners DEF LifeInv, Life
<1>5. RoadInv
  BY <1>1, Owners DEF RoadInv, Road, ToOwner, ToOther
<1>6. HandInv
  BY <1>1 DEF HandInv, Hands
<1> QED
  BY <1>3, <1>4, <1>5, <1>6 DEF StageInv

LEMMA StageNext == TypeInv /\ StageInv /\ [Next]_vars => StageInv'
<1> SUFFICES ASSUME TypeInv, StageInv, [Next]_vars PROVE StageInv'
  OBVIOUS
<1>1. CASE UNCHANGED vars
  BY <1>1 DEF vars, connVars, loopVars, routeVars, streamVars, clientVars, histVars,
              rawVars, StageInv, NumInv, LifeInv, RoadInv, HandInv, Life, Road, Hands,
              ToOwner, ToOther, HasStart, Up
<1>2. CASE Next
  BY <1>2, StageLoop, StageApplication, StageCalls DEF Next, Decide
<1> QED
  BY <1>1, <1>2

\* "stream not found" is said only of a stream that has ended at the end that
\* says it: never of one it has yet to register, or to learn of.
THEOREM OnlyEndedRejected == Spec => []RejectsOnlyEnded
<1>1. StageInv => RejectsOnlyEnded
  BY DEF StageInv, HandInv, Hands, RejectsOnlyEnded
<1> QED
  BY <1>1, TypeInit, TypeNext, StageInit, StageNext, PTL DEF Spec

\* The odd and the even numbers keep the streams of the two ends apart: no
\* Start frame lands in the recvCh of a stream that is there.
THEOREM NumbersApart == Spec => []NoCollision
<1>1. StageInv => NoCollision
  BY DEF StageInv, HandInv, Hands, NoCollision
<1> QED
  BY <1>1, TypeInit, TypeNext, StageInit, StageNext, PTL DEF Spec

-----------------------------------------------------------------------------
(***************************************************************************)
(* Close frames and Error frames.  An end says "stream not found" of a     *)
(* stream that is gone from its map; when writes do not give up, its Close *)
(* frame has gone out before, or it has read one of the peer.              *)
(***************************************************************************)
Gone(e, i) == stage[e][i] \in Known /\ i \notin streams[e]
\* The end has closed the stream, or has no stream that an Error could find.
Aware(e, i) == closes[e][i] > 0 \/ Gone(e, i)
Holds(e, i, l) == loop[e] = l /\ cur[e].id = i

IsOf(f, i, flag) == f.id = i /\ f.flag = flag
Has(q, i, flag) == \E k \in DOMAIN q : IsOf(q[k], i, flag)
CloseFirst(q, i) ==
  \A k \in DOMAIN q : IsOf(q[k], i, "error") =>
    \E j \in DOMAIN q : j < k /\ IsOf(q[j], i, "close")

\* One end and one stream: what its peer p has told it, ...
Told(e, i, p) ==
  /\ Has(wire[e], i, "close") => closes[p][i] > 0
  /\ Has(wire[e], i, "error") => Gone(p, i)
  /\ Aware(e, i) \/ CloseFirst(wire[e], i)
  /\ Usable(p) /\ (closer[p][i] = "written" \/ (Gone(p, i) /\ ~ReadLoopErr(p))) =>
       Aware(e, i) \/ Has(wire[e], i, "close")
\* ... what its loop has in its hands, and what its own calls have done.
Handles(e, i, p) ==
  /\ Holds(e, i, "error") => closes[e][i] > 0 /\ Gone(p, i)
  /\ Holds(e, i, "reply") => Gone(e, i)
  /\ closer[e][i] # "idle" => closes[e][i] > 0
  /\ stage[e][i] = "reg" => ReadLoopErr(e) \/ i \in streams[e]

TellInv == \A e \in Ends : \A i \in Ids : Told(e, i, Peer(e)) /\ Handles(e, i, Peer(e))

\* What a step may do to one end and one stream, ...
Grows(d, j) ==
  /\ Gone(d, j) => Gone(d, j)'
  /\ closes[d][j] > 0 => closes'[d][j] > 0
  /\ ReadLoopErr(d) => ReadLoopErr(d)'
Acts(d, j) ==
  /\ Gone(d, j)' => \/ Gone(d, j) \/ ReadLoopErr(d)' \/ closer[d][j] = "written"
                    \/ Aware(Peer(d), j)
  /\ closer'[d][j] = "written" =>
       closer[d][j] = "written" \/ ~Usable(d)' \/ Has(wire'[Peer(d)], j, "close")
  /\ Holds(d, j, "error")' => closes[d][j] > 0 /\ Gone(Peer(d), j)
  /\ Holds(d, j, "reply")' => Gone(d, j)'
  /\ closer'[d][j] # "idle" => closes'[d][j] > 0
  /\ stage'[d][j] = "reg" => ReadLoopErr(d)' \/ j \in streams'[d]
\* ... and to the wire of an end.
Carries(d, j) ==
  /\ Has(wire'[d], j, "close") => Has(wire[d], j, "close") \/ closes[Peer(d)][j] > 0
  /\ Has(wire'[d], j, "error") => Has(wire[d], j, "error") \/ Gone(Peer(d), j)
  /\ CloseFirst(wire[d], j) => CloseFirst(wire'[d], j) \/ Aware(d, j)'
  /\ Has(wire[d], j, "close") => Has(wire'[d], j, "close") \/ Aware(d, j)' \/ ~Up'

LEMMA TellMoves ==
  ASSUME TellInv, \A d \in Ends : Usable(d)' => Usable(d),
         \A d \in Ends : \A j \in Ids : Grows(d, j) /\ Acts(d, j) /\ Carries(d, j)
  PROVE  TellInv'
<1> SUFFICES ASSUME NEW e \in Ends, NEW i \in Ids
             PROVE  Told(e, i, Peer(e))' /\ Handles(e, i, Peer(e))'
  BY DEF TellInv, Peer
<1> DEFINE p == Peer(e)
<1>1. p \in Ends /\ Peer(p) = e
  BY Owners
<1>2. /\ Told(e, i, p) /\ Handles(e, i, p) /\ Told(p, i, e)
      /\ Grows(e, i) /\ Grows(p, i) /\ Acts(e, i) /\ Acts(p, i) /\ Carries(e, i)
  BY <1>1 DEF TellInv
<1> HIDE DEF p
<1>3. Aware(e, i) => Aware(e, i)'
  BY <1>2 DEF Aware, Grows
<1>4. Handles(e, i, p)'
  BY <1>1, <1>2 DEF Acts, Handles, Grows, p
<1>5. /\ Has(wire'[e], i, "close") => closes'[p][i] > 0
      /\ Has(wire'[e], i, "error") => Gone(p, i)'
  BY <1>2 DEF Carries, Told, Grows, p
<1>6. Aware(e, i)' \/ CloseFirst(wire'[e], i)
  BY <1>2, <1>3 DEF Carries, Told
<1>7. ASSUME Usable(p)', closer'[p][i] = "written" \/ (Gone(p, i)' /\ ~ReadLoopErr(p)')
      PROVE  Aware(e, i)' \/ Has(wire'[e], i, "close")
  <2>1. Usable(p) /\ (~ReadLoopErr(p)' => ~ReadLoopErr(p))
    BY <1>1, <1>2, <1>7 DEF Grows
  <2>2. \/ closer[p][i] = "written" \/ (Gone(p, i) /\ ~ReadLoopErr(p))
        \/ Has(wire'[e], i, "close") \/ Aware(e, i)
    BY <1>1, <1>2, <1>7, <2>1 DEF Acts
  <2>3. Up /\ Up'
    BY <1>7, <2>1 DEF Usable
  <2> QED
    BY <1>2, <1>3, <1>7, <2>1, <2>2, <2>3 DEF Told, Carries
<1>8. Told(e, i, p)'
  BY <1>5, <1>6, <1>7 DEF Told
<1> QED
  BY <1>4, <1>8 DEF p

\* Frames that join a wire, and frames that leave it.
LEMMA HasAppend ==
  ASSUME NEW q \in Seq(Frames), NEW x \in Frames, NEW i
  PROVE  /\ \A flag : Has(Append(q, x), i, flag) <=> Has(q, i, flag) \/ IsOf(x, i, flag)
         /\ CloseFirst(q, i) /\ (IsOf(x, i, "error") => Has(q, i, "close")) =>
              CloseFirst(Append(q, x), i)
<1> DEFINE v == Append(q, x)
<1>1. /\ DOMAIN q \subseteq DOMAIN v /\ Len(q) + 1 \in DOMAIN v
      /\ \A k \in DOMAIN q : v[k] = q[k] /\ k \in Nat /\ k < Len(q) + 1
      /\ v[Len(q) + 1] = x
      /\ \A k \in DOMAIN v : k \in DOMAIN q \/ k = Len(q) + 1
  BY AppendOf
<1> HIDE DEF v
<1>2. \A flag : Has(v, i, flag) <=> Has(q, i, flag) \/ IsOf(x, i, flag)
  BY <1>1 DEF Has
<1>3. ASSUME CloseFirst(q, i), IsOf(x, i, "error") => Has(q, i, "close"),
             NEW k \in DOMAIN v, IsOf(v[k], i, "error")
      PROVE  \E j \in DOMAIN v : j < k /\ IsOf(v[j], i, "close")
  <2>1. CASE k \in DOMAIN q
    <3>1. PICK j \in DOMAIN q : j < k /\ IsOf(q[j], i, "close")
      BY <1>1, <1>3, <2>1 DEF CloseFirst
    <3> QED
      BY <1>1, <3>1
  <2>2. CASE k = Len(q) + 1
    <3>1. PICK j \in DOMAIN q : IsOf(q[j], i, "close")
      BY <1>1, <1>3, <2>2 DEF Has
    <3> QED
      BY <1>1, <2>2, <3>1
  <2> QED
    BY <1>1, <2>1, <2>2
<1> QED
  BY <1>2, <1>3 DEF CloseFirst, v

LEMMA HasTail ==
  ASSUME NEW q \in Seq(Frames), q # <<>>, NEW i
  PROVE  /\ \A flag : Has(Tail(q), i, flag) => Has(q, i, flag)
         /\ \A flag : Has(q, i, flag) => Has(Tail(q), i, flag) \/ IsOf(Head(q), i, flag)
         /\ CloseFirst(q, i) => ~IsOf(Head(q), i, "error")
         /\ CloseFirst(q, i) => CloseFirst(Tail(q), i) \/ IsOf(Head(q), i, "close")
         /\ \A flag : IsOf(Head(q), i, flag) => Has(q, i, flag)
<1> DEFINE v == Tail(q)
<1>1. /\ 1 \in DOMAIN q /\ Head(q) = q[1] /\ DOMAIN q \subseteq Nat \ {0}
      /\ \A k \in DOMAIN v : k + 1 \in DOMAIN q /\ v[k] = q[k + 1] /\ k \in Nat \ {0}
      /\ \A k \in DOMAIN q : k # 1 => k - 1 \in DOMAIN v /\ v[k - 1] = q[k]
  BY TailOf
<1> HIDE DEF v
<1>2. /\ \A flag : Has(v, i, flag) => Has(q, i, flag)
      /\ \A flag : Has(q, i, flag) => Has(v, i, flag) \/ IsOf(Head(q), i, flag)
      /\ \A flag : IsOf(Head(q), i, flag) => Has(q, i, flag)
  BY <1>1 DEF Has
<1>3. ASSUME CloseFirst(q, i), IsOf(Head(q), i, "error") PROVE FALSE
  <2>1. PICK j \in DOMAIN q : j < 1
    BY <1>1, <1>3 DEF CloseFirst
  <2> QED
    BY <1>1, <2>1
<1>4. ASSUME CloseFirst(q, i), ~IsOf(Head(q), i, "close"),
             NEW k \in DOMAIN v, IsOf(v[k], i, "error")
      PROVE  \E j \in DOMAIN v : j < k /\ IsOf(v[j], i, "close")
  <2>1. PICK j \in DOMAIN q : j < k + 1 /\ IsOf(q[j], i, "close")
    BY <1>1, <1>4 DEF CloseFirst
  <2>2. j # 1
    BY <1>1, <1>4, <2>1
  <2>3. j - 1 \in DOMAIN v /\ v[j - 1] = q[j]
    BY <1>1, <2>1, <2>2
  <2>4. j - 1 < k
    <3>1. j \in Nat /\ k \in Nat /\ j < k + 1
      BY <1>1, <2>1
    <3> QED
      BY <3>1
  <2> QED
    BY <2>1, <2>3, <2>4
<1> QED
  BY <1>2, <1>3, <1>4 DEF CloseFirst, v

-----------------------------------------------------------------------------
\* Most steps leave most ends and streams alone.
Quiet(d, j) ==
  /\ closer'[d][j] = closer[d][j] /\ closes'[d][j] = closes[d][j]
  /\ stage'[d][j] = stage[d][j] /\ (j \in streams'[d] <=> j \in streams[d])
  /\ loop'[d] = loop[d] /\ cur'[d] = cur[d]

LEMMA QuietMoves ==
  ASSUME TellInv, NEW d \in Ends, NEW j \in Ids, Quiet(d, j)
  PROVE  Grows(d, j) /\ Acts(d, j)
<1>1. Handles(d, j, Peer(d))
  BY DEF TellInv
<1>2. /\ Gone(d, j)' <=> Gone(d, j)
      /\ ReadLoopErr(d)' <=> ReadLoopErr(d)
      /\ Holds(d, j, "error")' <=> Holds(d, j, "error")
      /\ Holds(d, j, "reply")' <=> Holds(d, j, "reply")
  BY DEF Quiet, Gone, ReadLoopErr, Holds
<1> QED
  BY <1>1, <1>2 DEF Quiet, Grows, Acts, Handles

LEMMA WireKept ==
  ASSUME NEW d \in Ends, NEW j \in Ids, wire'[d] = wire[d]
  PROVE  Carries(d, j)
  BY DEF Carries

\* A Close frame is of a stream the end is closing, an Error frame of one that
\* is gone.
LEMMA WireWritten ==
  ASSUME TypeInv, TellInv, NEW e \in Ends, NEW f \in Frames, Write(e, f),
         NEW d \in Ends, NEW j \in Ids, Grows(d, j),
         IsOf(f, j, "close") => closes[e][j] > 0,
         IsOf(f, j, "error") => Gone(e, j) /\ ~ReadLoopErr(e)
  PROVE  Carries(d, j)
<1>1. /\ wire \in [Ends -> Seq(Frames)] /\ Peer(e) \in Ends /\ Usable(e)
      /\ wire' = [wire EXCEPT ![Peer(e)] = Append(wire[Peer(e)], f)]
  BY Owners DEF TypeInv, TypeOK, Write
<1>2. CASE d # Peer(e)
  <2>1. wire'[d] = wire[d]
    BY <1>1, <1>2
  <2> QED
    BY <2>1, WireKept
<1>3. CASE d = Peer(e)
  <2>1. wire[d] \in Seq(Frames) /\ wire'[d] = Append(wire[d], f) /\ Peer(d) = e
    BY <1>1, <1>3, Owners
  <2>2. /\ \A flag : Has(wire'[d], j, flag) <=> Has(wire[d], j, flag) \/ IsOf(f, j, flag)
        /\ CloseFirst(wire[d], j) /\ (IsOf(f, j, "error") => Has(wire[d], j, "close")) =>
             CloseFirst(wire'[d], j)
    <3>1. /\ \A flag : Has(Append(wire[d], f), j, flag) <=> Has(wire[d], j, flag) \/ IsOf(f, j, flag)
          /\ CloseFirst(wire[d], j) /\ (IsOf(f, j, "error") => Has(wire[d], j, "close")) =>
               CloseFirst(Append(wire[d], f), j)
      BY <2>1, HasAppend
    <3> QED
      BY <2>1, <3>1, Zenon
  <2>3. IsOf(f, j, "error") => Aware(d, j) \/ Has(wire[d], j, "close")
    <3>1. Told(d, j, e)
      BY <2>1 DEF TellInv
    <3> QED
      BY <1>1, <3>1 DEF Told
  <2>4. Aware(d, j) => Aware(d, j)'
    BY DEF Aware, Grows
  <2> QED
    BY <2>1, <2>2, <2>3, <2>4 DEF Carries
<1> QED
  BY <1>2, <1>3

\* A loop that has read a Close frame has nothing left to tell of.
LEMMA WireRead ==
  ASSUME TypeInv, NEW e \in Ends, wire[e] # <<>>,
         wire' = [wire EXCEPT ![e] = Tail(@)],
         NEW d \in Ends, NEW j \in Ids,
         d = e /\ IsOf(Head(wire[e]), j, "close") => Aware(e, j)'
  PROVE  Carries(d, j)
<1>1. wire \in [Ends -> Seq(Frames)]
  BY DEF TypeInv, TypeOK
<1>2. CASE d # e
  <2>1. wire'[d] = wire[d]
    BY <1>1, <1>2
  <2> QED
    BY <2>1, WireKept
<1>3. CASE d = e
  <2>1. wire[d] \in Seq(Frames) /\ wire[d] # <<>> /\ wire'[d] = Tail(wire[d])
    BY <1>1, <1>3
  <2>2. /\ \A flag : Has(wire'[d], j, flag) => Has(wire[d], j, flag)
        /\ \A flag : Has(wire[d], j, flag) =>
                       Has(wire'[d], j, flag) \/ IsOf(Head(wire[d]), j, flag)
        /\ CloseFirst(wire[d], j) =>
             CloseFirst(wire'[d], j) \/ IsOf(Head(wire[d]), j, "close")
    BY <2>1, HasTail
  <2> QED
    BY <1>3, <2>2 DEF Carries
<1> QED
  BY <1>2, <1>3

LEMMA WireCleared ==
  ASSUME TypeInv, NEW e \in Ends, ~Up', wire' = [wire EXCEPT ![e] = <<>>],
         NEW d \in Ends, NEW j \in Ids
  PROVE  Carries(d, j)
<1>1. wire'[d] = wire[d] \/ DOMAIN wire'[d] = {}
  BY DEF TypeInv, TypeOK
<1>2. CASE wire'[d] = wire[d]
  BY <1>2, WireKept
<1>3. CASE DOMAIN wire'[d] = {}
  <2>1. CloseFirst(wire'[d], j) /\ \A flag : ~Has(wire'[d], j, flag)
    BY <1>3 DEF CloseFirst, Has
  <2> QED
    BY <2>1 DEF Carries
<1> QED
  BY <1>1, <1>2, <1>3

\* The steps that concern one stream of one end.
Only(e, i) == \A d \in Ends : \A j \in Ids : d # e \/ j # i => Quiet(d, j)

LEMMA OnlyGrows ==
  ASSUME TellInv, NEW e \in Ends, NEW i \in Ids, Only(e, i), Grows(e, i), Acts(e, i)
  PROVE  \A d \in Ends : \A j \in Ids : Grows(d, j) /\ Acts(d, j)
<1> SUFFICES ASSUME NEW d \in Ends, NEW j \in Ids PROVE Grows(d, j) /\ Acts(d, j)
  OBVIOUS
<1>1. CASE d # e \/ j # i
  BY <1>1, QuietMoves DEF Only
<1>2. CASE d = e /\ j = i
  BY <1>2
<1> QED
  BY <1>1, <1>2

LEMMA TellOnly ==
  ASSUME TellInv, NEW e \in Ends, NEW i \in Ids, Only(e, i), Grows(e, i), Acts(e, i),
         UNCHANGED <<wire, conn>>
  PROVE  TellInv'
<1>1. \A d \in Ends : \A j \in Ids : Grows(d, j) /\ Acts(d, j)
  BY OnlyGrows
<1>2. \A d \in Ends : \A j \in Ids : Carries(d, j)
  BY WireKept
<1>3. \A d \in Ends : Usable(d)' => Usable(d)
  BY DEF Usable, Up
<1> QED
  BY <1>1, <1>2, <1>3, TellMoves

LEMMA TellWrites ==
  ASSUME TypeInv, TellInv, NEW e \in Ends, NEW i \in Ids,
         Only(e, i), Grows(e, i), Acts(e, i), UNCHANGED conn,
         NEW f \in Frames, Write(e, f), f.flag # "error",
         f.flag = "close" => f.id = i /\ closes[e][i] > 0
  PROVE  TellInv'
<1>1. \A d \in Ends : \A j \in Ids : Grows(d, j) /\ Acts(d, j)
  BY OnlyGrows
<1>2. ASSUME NEW d \in Ends, NEW j \in Ids PROVE Carries(d, j)
  <2>1. ~IsOf(f, j, "error") /\ (IsOf(f, j, "close") => closes[e][j] > 0)
    BY DEF IsOf
  <2> QED
    BY <1>1, <2>1, WireWritten
<1>3. \A d \in Ends : Usable(d)' => Usable(d)
  BY DEF Usable, Up
<1> QED
  BY <1>1, <1>2, <1>3, TellMoves

ClosesOK == closes \in [Ends -> [Ids -> Nat]]

LEMMA TellCalls ==
  ASSUME TypeInv, StageInv, TellInv, ~Cancels, NEW e \in Ends, NEW i \in Ids,
         Proceed(e, i) \/ SendCheck(e, i) \/ CloseWrite(e, i)
           \/ CloseCancel(e, i) \/ Receive(e, i)
  PROVE  TellInv'
<1> USE DEF connVars, loopVars, routeVars, streamVars, clientVars, histVars, rawVars
<1>1. LifeOK /\ ClosesOK /\ Life(e, i) /\ Handles(e, i, Peer(e))
  BY LifeTypes DEF TypeInv, TypeOK, ClosesOK, StageInv, LifeInv, TellInv
<1>2. \A flag \in Flags : \A n \in Nat : Frame(i, flag, n) \in Frames
                                         /\ Frame(i, flag, n).id = i
                                         /\ Frame(i, flag, n).flag = flag
  BY FrameType
<1>3. ASSUME UNCHANGED <<closer, closes, stage, streams, loop, cur>>
      PROVE  Only(e, i) /\ Grows(e, i) /\ Acts(e, i)
  <2>1. \A d \in Ends : \A j \in Ids : Quiet(d, j)
    BY <1>3 DEF Quiet
  <2> QED
    BY <2>1, QuietMoves DEF Only
<1>4. ASSUME UNCHANGED <<stage, streams, loop, cur>>,
             closer' = [closer EXCEPT ![e][i] = closer'[e][i]],
             closes' = closes \/ closes' = [closes EXCEPT ![e][i] = closes[e][i] + 1],
             closer'[e][i] # "idle" => closes'[e][i] > 0,
             closer'[e][i] = "written" => ~Usable(e)' \/ Has(wire'[Peer(e)], i, "close")
      PROVE  Only(e, i) /\ Grows(e, i) /\ Acts(e, i)
  <2>1. Only(e, i)
    BY <1>1, <1>4 DEF Only, Quiet, LifeOK, ClosesOK
  <2>2. Gone(e, i)' <=> Gone(e, i)
    BY <1>4 DEF Gone
  <2>3. ReadLoopErr(e)' <=> ReadLoopErr(e)
    BY <1>4 DEF ReadLoopErr
  <2>4. closes[e][i] > 0 => closes'[e][i] > 0
    BY <1>1, <1>4 DEF ClosesOK
  <2>5. Holds(e, i, "error")' <=> Holds(e, i, "error")
    BY <1>4 DEF Holds
  <2>6. Holds(e, i, "reply")' <=> Holds(e, i, "reply")
    BY <1>4 DEF Holds
  <2>7. Grows(e, i)
    BY <2>2, <2>3, <2>4 DEF Grows
  <2>8. Acts(e, i)
    BY <1>1, <1>4, <2>2, <2>3, <2>5, <2>6 DEF Acts, Handles
  <2> QED
    BY <2>1, <2>7, <2>8
<1>5. CASE StartRegister(e, i)
  <2>1. Moves(e, i, "reg") /\ stage[e][i] = "alloc" /\ Fresh(e, i)
        /\ UNCHANGED <<wire, conn, closer, closes, loop, cur>>
    BY <1>5 DEF StartRegister, Moves
  <2>2. /\ stage'[e][i] = "reg"
        /\ \A c \in Ends : \A k \in Ids : c # e \/ k # i => stage'[c][k] = stage[c][k]
    BY <2>1, StageMoves
  <2>3. /\ i \in streams'[e]
        /\ \A d \in Ends : \A j \in Ids :
             d # e \/ j # i => (j \in streams'[d] <=> j \in streams[d])
    BY <1>1, <2>1 DEF Fresh, LifeOK
  <2>4. Only(e, i)
    BY <2>1, <2>2, <2>3 DEF Only, Quiet
  <2>5. ~Gone(e, i) /\ ~Gone(e, i)' /\ (ReadLoopErr(e)' <=> ReadLoopErr(e))
    BY <2>1, <2>3 DEF Gone, ReadLoopErr, Known
  <2>6. /\ Holds(e, i, "error")' <=> Holds(e, i, "error")
        /\ Holds(e, i, "reply")' <=> Holds(e, i, "reply")
    BY <2>1 DEF Holds
  <2>7. Grows(e, i)
    BY <2>1, <2>5 DEF Grows
  <2>8. Acts(e, i)
    BY <1>1, <2>1, <2>3, <2>5, <2>6 DEF Acts, Handles
  <2> QED
    BY <2>1, <2>4, <2>7, <2>8, TellOnly
<1>6. CASE StartWrite(e, i)
  <2>1. Moves(e, i, "held") /\ stage[e][i] = "reg"
        /\ Write(e, Frame(i, "start", 0))
        /\ UNCHANGED <<conn, closer, closes, loop, cur, streams>>
    BY <1>6 DEF StartWrite, Moves
  <2>2. /\ stage'[e][i] = "held"
        /\ \A c \in Ends : \A k \in Ids : c # e \/ k # i => stage'[c][k] = stage[c][k]
    BY <2>1, StageMoves
  <2>3. Only(e, i)
    BY <2>1, <2>2 DEF Only, Quiet
  <2>4. ~Gone(e, i) /\ (ReadLoopErr(e)' <=> ReadLoopErr(e))
        /\ (Gone(e, i)' => ReadLoopErr(e)')
    BY <1>1, <2>1 DEF Gone, ReadLoopErr, Known, Handles
  <2>5. /\ Holds(e, i, "error")' <=> Holds(e, i, "error")
        /\ Holds(e, i, "reply")' <=> Holds(e, i, "reply")
    BY <2>1 DEF Holds
  <2>6. Grows(e, i)
    BY <2>1, <2>4 DEF Grows
  <2>7. Acts(e, i)
    BY <1>1, <2>1, <2>2, <2>4, <2>5 DEF Acts, Handles
  <2>8. Frame(i, "start", 0) \in Frames /\ Frame(i, "start", 0).flag = "start"
    BY <1>2 DEF Flags
  <2> QED
    BY <2>1, <2>3, <2>6, <2>7, <2>8, TellWrites
<1>7. CASE StartFail(e, i)
  <2>1. Moves(e, i, "failed") /\ stage[e][i] = "reg"
        /\ streams' = [streams EXCEPT ![e] = @ \ {i}]
        /\ UNCHANGED <<conn, wire, closer, closes, loop, cur>>
    BY <1>7 DEF StartFail, Moves
  <2>2. /\ stage'[e][i] = "failed"
        /\ \A c \in Ends : \A k \in Ids : c # e \/ k # i => stage'[c][k] = stage[c][k]
    BY <2>1, StageMoves
  <2>3. \A d \in Ends : \A j \in Ids :
          d # e \/ j # i => (j \in streams'[d] <=> j \in streams[d])
    BY <1>1, <2>1 DEF LifeOK
  <2>4. Only(e, i)
    BY <2>1, <2>2, <2>3 DEF Only, Quiet
  <2>5. ~Gone(e, i) /\ ~Gone(e, i)' /\ (ReadLoopErr(e)' <=> ReadLoopErr(e))
    BY <2>1, <2>2 DEF Gone, ReadLoopErr, Known
  <2>6. /\ Holds(e, i, "error")' <=> Holds(e, i, "error")
        /\ Holds(e, i, "reply")' <=> Holds(e, i, "reply")
    BY <2>1 DEF Holds
  <2>7. Grows(e, i)
    BY <2>1, <2>5 DEF Grows
  <2>8. Acts(e, i)
    BY <1>1, <2>1, <2>2, <2>5, <2>6 DEF Acts, Handles
  <2> QED
    BY <2>1, <2>4, <2>7, <2>8, TellOnly
<1>8. CASE SendCheck(e, i) \/ SendFail(e, i) \/ RecvFrame(e, i) \/ RecvEnd(e, i)
  <2>1. UNCHANGED <<closer, closes, stage, streams, loop, cur, wire, conn>>
    BY <1>8 DEF SendCheck, SendFail, RecvFrame, RecvEnd
  <2> QED
    BY <1>3, <2>1, TellOnly
<1>9. CASE SendWrite(e, i) \/ CloseWrite(e, i)
  <2>1. /\ UNCHANGED <<closer, closes, stage, streams, loop, cur, conn>>
        /\ \/ Write(e, Frame(i, "data", sent[e][i] + 1))
           \/ Write(e, Frame(i, "closewrite", 0))
    BY <1>9 DEF SendWrite, CloseWrite
  <2>2. sent[e][i] + 1 \in Nat
    BY DEF TypeInv, TypeOK
  <2>3. PICK f \in Frames : Write(e, f) /\ f.flag \in {"data", "closewrite"}
    BY <1>2, <2>1, <2>2 DEF Flags
  <2> QED
    BY <1>3, <2>1, <2>3, TellWrites
<1>10. CASE CloseCancel(e, i)
  <2>1. /\ closer' = [closer EXCEPT ![e][i] = "cancelled"]
        /\ closes' = [closes EXCEPT ![e][i] = closes[e][i] + 1]
        /\ UNCHANGED <<stage, streams, loop, cur, wire, conn>>
    BY <1>10 DEF CloseCancel
  <2>2. closer'[e][i] = "cancelled" /\ closes'[e][i] > 0
    BY <1>1, <2>1 DEF LifeOK, ClosesOK
  <2> QED
    BY <1>4, <2>1, <2>2, TellOnly
<1>11. CASE CloseFrame(e, i)
  <2>1. /\ closer' = [closer EXCEPT ![e][i] = "written"]
        /\ closer[e][i] = "cancelled" /\ Write(e, Frame(i, "close", 0))
        /\ UNCHANGED <<stage, streams, loop, cur, closes, conn>>
    BY <1>11 DEF CloseFrame
  <2>2. closer'[e][i] = "written" /\ closes[e][i] > 0
    BY <1>1, <2>1 DEF LifeOK, Handles
  <2>3. PICK f \in Frames : Write(e, f) /\ f.flag = "close" /\ f.id = i
    BY <1>2, <2>1 DEF Flags
  <2>4. Has(wire'[Peer(e)], i, "close")
    <3>1. wire[Peer(e)] \in Seq(Frames) /\ wire'[Peer(e)] = Append(wire[Peer(e)], f)
      BY <2>3, Owners DEF Write, TypeInv, TypeOK
    <3>2. IsOf(f, i, "close")
      BY <2>3 DEF IsOf
    <3>3. Has(Append(wire[Peer(e)], f), i, "close")
      BY <3>1, <3>2, HasAppend
    <3> QED
      BY <3>1, <3>3, Zenon
  <2>5. Only(e, i) /\ Grows(e, i) /\ Acts(e, i)
    BY <1>4, <2>1, <2>2, <2>4
  <2> QED
    BY <2>1, <2>2, <2>3, <2>5, TellWrites
<1>12. CASE CloseFrameLost(e, i)
  <2>1. /\ closer' = [closer EXCEPT ![e][i] = "written"]
        /\ closer[e][i] = "cancelled" /\ ~Usable(e)
        /\ UNCHANGED <<stage, streams, loop, cur, closes, conn, wire>>
    BY <1>12 DEF CloseFrameLost, WriteFails
  <2>2. closer'[e][i] = "written" /\ closes[e][i] > 0
    BY <1>1, <2>1 DEF LifeOK, Handles
  <2>3. ~Usable(e)'
    BY <2>1 DEF Usable, Up
  <2> QED
    BY <1>4, <2>1, <2>2, <2>3, TellOnly
<1>13. CASE CloseRemove(e, i)
  <2>1. /\ closer' = [closer EXCEPT ![e][i] = "idle"] /\ closer[e][i] = "written"
        /\ streams' = [streams EXCEPT ![e] = @ \ {i}]
        /\ UNCHANGED <<stage, loop, cur, closes, conn, wire>>
    BY <1>13 DEF CloseRemove
  <2>2. closer'[e][i] = "idle" /\ stage[e][i] = "held"
    BY <1>1, <2>1 DEF LifeOK, Life
  <2>3. Only(e, i)
    BY <1>1, <2>1 DEF Only, Quiet, LifeOK
  <2>4. Gone(e, i)' /\ (ReadLoopErr(e)' <=> ReadLoopErr(e))
    BY <1>1, <2>1, <2>2 DEF Gone, ReadLoopErr, Known, LifeOK
  <2>5. /\ Holds(e, i, "error")' <=> Holds(e, i, "error")
        /\ Holds(e, i, "reply")' <=> Holds(e, i, "reply")
    BY <2>1 DEF Holds
  <2>6. Grows(e, i)
    BY <2>1, <2>4 DEF Grows
  <2>7. Acts(e, i)
    BY <1>1, <2>1, <2>2, <2>4, <2>5 DEF Acts, Handles
  <2> QED
    BY <2>1, <2>3, <2>6, <2>7, TellOnly
<1> QED
  BY <1>5, <1>6, <1>7, <1>8, <1>9, <1>10, <1>11, <1>12, <1>13 DEF Proceed, Receive

\* The steps of a loop: streams leave the map of its end.
LEMMA LoopTells ==
  ASSUME TypeInv, TellInv, NEW e \in Ends, UNCHANGED <<closer, closes, stage, conn>>,
         \A d \in Ends : d # e =>
           loop'[d] = loop[d] /\ cur'[d] = cur[d] /\ streams'[d] = streams[d],
         ReadLoopErr(e) => ReadLoopErr(e)',
         \A j \in Ids :
           /\ j \in streams'[e] => j \in streams[e]
           /\ j \in streams[e] /\ j \notin streams'[e] =>
                ReadLoopErr(e)' \/ (Aware(Peer(e), j) /\ stage[e][j] # "reg")
           /\ Holds(e, j, "error")' => closes[e][j] > 0 /\ Gone(Peer(e), j)
           /\ Holds(e, j, "reply")' => Gone(e, j),
         (\A d \in Ends : \A j \in Ids : Grows(d, j)) =>
           \A d \in Ends : \A j \in Ids : Carries(d, j)
  PROVE  TellInv'
<1>1. ASSUME NEW d \in Ends, NEW j \in Ids, d # e PROVE Grows(d, j) /\ Acts(d, j)
  <2>1. Quiet(d, j)
    BY <1>1 DEF Quiet
  <2> QED
    BY <2>1, QuietMoves
<1>2. ASSUME NEW j \in Ids PROVE Grows(e, j) /\ Acts(e, j)
  <2>1. Handles(e, j, Peer(e))
    BY DEF TellInv
  <2>2. Gone(e, j) => Gone(e, j)'
    BY DEF Gone
  <2>3. Gone(e, j)' => Gone(e, j) \/ ReadLoopErr(e)' \/ Aware(Peer(e), j)
    BY DEF Gone
  <2>4. stage[e][j] = "reg" => ReadLoopErr(e)' \/ j \in streams'[e]
    BY <2>1 DEF Handles
  <2>5. closer[e][j] # "idle" => closes[e][j] > 0
    BY <2>1 DEF Handles
  <2>6. Grows(e, j)
    BY <2>2 DEF Grows
  <2>7. Holds(e, j, "reply")' => Gone(e, j)'
    BY <2>2
  <2>8. Acts(e, j)
    BY <2>3, <2>4, <2>5, <2>7 DEF Acts
  <2> QED
    BY <2>6, <2>8
<1>3. \A d \in Ends : \A j \in Ids : Grows(d, j) /\ Acts(d, j)
  BY <1>1, <1>2
<1>4. \A d \in Ends : Usable(d)' => Usable(d)
  BY DEF Usable, Up
<1> QED
  BY <1>3, <1>4, TellMoves

\* A loop that reads a frame of which it has nothing to tell.
LEMMA TellReads ==
  ASSUME TypeInv, StageInv, TellInv, NEW e \in Ends, NEW f, NEW l, Reads(e, f, l),
         UNCHANGED <<closer, closes, stage, conn, streams>>, l \notin {"failed", "done"},
         f.id # RawId /\ f.flag = "close" => Aware(e, f.id)',
         l = "error" => closes[e][f.id] > 0 /\ Gone(Peer(e), f.id),
         l = "reply" => Gone(e, f.id)
  PROVE  TellInv'
<1>1. /\ loop[e] = "read" /\ wire[e] # <<>> /\ f = Head(wire[e])
      /\ wire' = [wire EXCEPT ![e] = Tail(@)]
      /\ loop'[e] = l /\ \A d \in Ends : d # e => loop'[d] = loop[d] /\ cur'[d] = cur[d]
      /\ l # "read" => cur'[e] = f
  BY DEF Reads, TypeInv, TypeOK
<1>2. \A j \in Ids : /\ Holds(e, j, "error")' => closes[e][j] > 0 /\ Gone(Peer(e), j)
                     /\ Holds(e, j, "reply")' => Gone(e, j)
  BY <1>1 DEF Holds
<1>3. ReadLoopErr(e) => ReadLoopErr(e)'
  BY <1>1 DEF ReadLoopErr
<1>4. \A d \in Ends : \A j \in Ids : Carries(d, j)
  <2> SUFFICES ASSUME NEW d \in Ends, NEW j \in Ids PROVE Carries(d, j)
    OBVIOUS
  <2>1. IsOf(Head(wire[e]), j, "close") => Aware(e, j)'
    BY <1>1, Owners DEF IsOf
  <2> QED
    BY <1>1, <2>1, WireRead
<1> QED
  BY <1>1, <1>2, <1>3, <1>4, LoopTells

LEMMA TellReturns ==
  ASSUME TypeInv, TellInv, NEW e \in Ends, Returns(e), ~ReadLoopErr(e),
         UNCHANGED <<closer, closes, stage, conn, streams>>,
         (\A d \in Ends : \A j \in Ids : Grows(d, j)) =>
           \A d \in Ends : \A j \in Ids : Carries(d, j)
  PROVE  TellInv'
<1>1. loop'[e] = "read" /\ \A d \in Ends : d # e => loop'[d] = loop[d] /\ cur'[d] = cur[d]
  BY DEF Returns, TypeInv, TypeOK
<1>2. \A j \in Ids : ~Holds(e, j, "error")' /\ ~Holds(e, j, "reply")'
  BY <1>1 DEF Holds
<1> QED
  BY <1>1, <1>2, LoopTells

LEMMA TellLoop ==
  ASSUME TypeInv, StageInv, TellInv, NEW e \in Ends, Loop(e)
  PROVE  TellInv'
<1> USE DEF connVars, loopVars, routeVars, streamVars, clientVars, histVars, rawVars
<1>1. LifeOK /\ ClosesOK /\ LoopOK /\ HandInv
  BY LifeTypes, TypeParts DEF TypeInv, TypeOK, ClosesOK, StageInv
<1>2. ASSUME UNCHANGED wire
      PROVE  (\A d \in Ends : \A j \in Ids : Grows(d, j)) =>
               \A d \in Ends : \A j \in Ids : Carries(d, j)
  BY <1>2, WireKept
\* A stream of the map that is sent other frames than a Start frame.
<1>3. ASSUME wire[e] # <<>>, Head(wire[e]).id # RawId, Head(wire[e]).flag # "start"
      PROVE  stage[e][Head(wire[e]).id] \in Known /\ Head(wire[e]).id \in Ids
  BY <1>3, HeadOf
<1>4. CASE LoopRaw(e)
  <2>1. /\ Head(wire[e]).id = RawId /\ Reads(e, Head(wire[e]), "raw")
        /\ UNCHANGED <<closer, closes, stage, conn, streams>>
    BY <1>4 DEF LoopRaw
  <2> QED
    BY <2>1, TellReads
<1>5. CASE LoopStart(e)
  <2> DEFINE i == Head(wire[e]).id
             v == IF routed[i] /\ handled[e] THEN "held" ELSE "pending"
             l == IF routed[i] /\ handled[e] THEN "read" ELSE "accept"
  <2>1. /\ wire[e] # <<>> /\ i # RawId /\ i \notin streams[e]
        /\ Head(wire[e]).flag = "start" /\ Reads(e, Head(wire[e]), l)
        /\ Fresh(e, i) /\ Moves(e, i, v) /\ UNCHANGED <<conn, closer, closes>>
    BY <1>5 DEF LoopStart, Moves
  <2>2. i \in Ids /\ stage[e][i] = "none"
    BY <2>1, HeadOf
  <2>3. l \in {"read", "accept"} /\ v \in Known
    BY DEF Known
  <2> HIDE DEF i, v, l
  <2>4. /\ stage'[e][i] = v
        /\ \A c \in Ends : \A k \in Ids : c # e \/ k # i => stage'[c][k] = stage[c][k]
    BY <2>1, <2>2, StageMoves
  <2>5. /\ i \in streams'[e]
        /\ \A d \in Ends : \A j \in Ids :
             d # e \/ j # i => (j \in streams'[d] <=> j \in streams[d])
    BY <1>1, <2>1, <2>2 DEF Fresh, LifeOK
  <2>6. /\ loop[e] = "read" /\ loop'[e] = l
        /\ \A d \in Ends : d # e => loop'[d] = loop[d] /\ cur'[d] = cur[d]
    BY <1>1, <2>1 DEF Reads, LoopOK
  <2>7. ASSUME NEW d \in Ends, NEW j \in Ids PROVE Grows(d, j) /\ Acts(d, j)
    <3>1. CASE d # e
      <4>1. Quiet(d, j)
        BY <2>1, <2>4, <2>5, <2>6, <3>1 DEF Quiet
      <4> QED
        BY <4>1, QuietMoves
    <3>2. CASE d = e
      <4>1. Handles(e, j, Peer(e))
        BY DEF TellInv
      <4>2. ~Holds(e, j, "error")' /\ ~Holds(e, j, "reply")'
        BY <2>3, <2>6 DEF Holds
      <4>3. ~ReadLoopErr(e) /\ ~ReadLoopErr(e)'
        BY <2>3, <2>6 DEF ReadLoopErr
      <4>4. Gone(e, j)' <=> Gone(e, j)
        <5>1. CASE j = i
          BY <2>2, <2>5, <5>1 DEF Gone, Known
        <5>2. CASE j # i
          BY <2>4, <2>5, <5>2 DEF Gone
        <5> QED
          BY <5>1, <5>2
      <4>5. stage'[e][j] = "reg" => j \in streams'[e]
        <5>1. CASE j = i
          BY <2>5, <5>1
        <5>2. CASE j # i
          BY <2>4, <2>5, <4>1, <4>3, <5>2 DEF Handles
        <5> QED
          BY <5>1, <5>2
      <4>6. Grows(e, j)
        BY <2>1, <4>3, <4>4 DEF Grows
      <4>7. Acts(e, j)
        BY <2>1, <4>1, <4>2, <4>4, <4>5 DEF Acts, Handles
      <4> QED
        BY <3>2, <4>6, <4>7
    <3> QED
      BY <3>1, <3>2
  <2>8. ASSUME NEW d \in Ends, NEW j \in Ids PROVE Carries(d, j)
    <3>1. ~IsOf(Head(wire[e]), j, "close") /\ wire' = [wire EXCEPT ![e] = Tail(@)]
      BY <2>1 DEF IsOf, Reads
    <3> QED
      BY <2>1, <3>1, WireRead
  <2>9. \A d \in Ends : Usable(d)' => Usable(d)
    BY <2>1 DEF Usable, Up
  <2> QED
    BY <2>7, <2>8, <2>9, TellMoves
<1>6. CASE LoopUnknown(e)
  <2>1. PICK f \in Frames : f = Head(wire[e])
    BY <1>6, HeadOf DEF LoopUnknown
  <2>2. /\ wire[e] # <<>> /\ f.id # RawId /\ f.id \notin streams[e] /\ f.flag # "start"
        /\ Reads(e, f, "reply") /\ UNCHANGED <<closer, closes, stage, conn, streams>>
    BY <1>6, <2>1 DEF LoopUnknown
  <2>3. Gone(e, f.id)
    BY <1>3, <2>1, <2>2 DEF Gone
  <2>4. Aware(e, f.id)'
    BY <2>2, <2>3 DEF Gone, Aware
  <2> QED
    BY <2>2, <2>3, <2>4, TellReads
<1>7. CASE LoopClose(e)
  <2> DEFINE f == Head(wire[e])
  <2>1. /\ wire[e] # <<>> /\ f.id \in streams[e] /\ f.flag = "close"
        /\ Reads(e, f, "read") /\ CloseStreams(e, {f.id})
        /\ UNCHANGED <<closer, closes, stage, conn>>
    BY <1>7 DEF LoopClose
  <2>2. PICK i \in Ids : i = f.id
    BY <1>1, <2>1 DEF LifeOK
  <2>3. stage[e][i] \in Known
    BY <1>3, <2>1, <2>2, Owners
  <2>4. IsOf(f, i, "close")
    BY <2>1, <2>2 DEF IsOf
  <2>5. closes[Peer(e)][i] > 0
    <3>1. Told(e, i, Peer(e)) /\ wire[e] \in Seq(Frames)
      BY DEF TellInv, TypeInv, TypeOK
    <3> QED
      BY <2>1, <2>4, <3>1, HasTail DEF Told
  <2>6. /\ loop[e] = "read" /\ loop'[e] = "read" /\ wire' = [wire EXCEPT ![e] = Tail(@)]
        /\ \A d \in Ends : d # e => loop'[d] = loop[d] /\ cur'[d] = cur[d]
    BY <1>1, <2>1 DEF Reads, LoopOK
  <2>7. /\ streams'[e] = streams[e] \ {i}
        /\ \A d \in Ends : d # e => streams'[d] = streams[d]
    BY <1>1, <2>1, <2>2 DEF CloseStreams, LifeOK
  <2>8. Gone(e, i)'
    BY <2>1, <2>3, <2>7 DEF Gone
  <2>9. \A d \in Ends : \A j \in Ids : Carries(d, j)
    <3> SUFFICES ASSUME NEW d \in Ends, NEW j \in Ids PROVE Carries(d, j)
      OBVIOUS
    <3>1. IsOf(f, j, "close") => Aware(e, j)'
      BY <2>2, <2>8 DEF IsOf, Aware
    <3> QED
      BY <2>1, <2>6, <3>1, WireRead
  <2>10. \A j \in Ids :
           /\ j \in streams'[e] => j \in streams[e]
           /\ j \in streams[e] /\ j \notin streams'[e] =>
                Aware(Peer(e), j) /\ stage[e][j] # "reg"
           /\ ~Holds(e, j, "error")' /\ ~Holds(e, j, "reply")'
    BY <2>3, <2>5, <2>6, <2>7 DEF Aware, Holds, Known
  <2>11. ~ReadLoopErr(e)
    BY <2>6 DEF ReadLoopErr
  <2> QED
    BY <2>1, <2>6, <2>7, <2>9, <2>10, <2>11, LoopTells
<1>8. CASE LoopError(e)
  <2> DEFINE f == Head(wire[e])
  <2>1. /\ wire[e] # <<>> /\ f.id \in streams[e] /\ f.flag = "error"
        /\ Reads(e, f, "error") /\ UNCHANGED <<closer, closes, stage, conn, streams>>
    BY <1>8 DEF LoopError
  <2>2. PICK i \in Ids : i = f.id
    BY <1>1, <2>1 DEF LifeOK
  <2>3. Told(e, i, Peer(e)) /\ wire[e] \in Seq(Frames)
    BY DEF TellInv, TypeInv, TypeOK
  <2>4. IsOf(f, i, "error")
    BY <2>1, <2>2 DEF IsOf
  <2>5. Gone(Peer(e), i)
    BY <2>1, <2>3, <2>4, HasTail DEF Told
  <2>6. ~CloseFirst(wire[e], i)
    BY <2>1, <2>3, <2>4, HasTail
  <2>7. closes[e][i] > 0
    BY <2>1, <2>2, <2>3, <2>6 DEF Told, Aware, Gone
  <2> QED
    BY <2>1, <2>2, <2>5, <2>7, TellReads
<1>9. CASE LoopData(e)
  <2> DEFINE f == Head(wire[e])
  <2>1. /\ f.flag \notin {"close", "error"} /\ Reads(e, f, "push")
        /\ UNCHANGED <<closer, closes, stage, conn, streams>>
    BY <1>9 DEF LoopData
  <2> QED
    BY <2>1, TellReads
<1>10. CASE LoopPushRaw(e) \/ LoopAccept(e) \/ LoopPush(e)
  <2>1. /\ Returns(e) /\ loop[e] \in {"raw", "accept", "push"}
        /\ UNCHANGED <<closer, closes, stage, conn, streams, wire>>
    BY <1>10 DEF LoopPushRaw, LoopAccept, LoopPush
  <2>2. ~ReadLoopErr(e)
    BY <2>1 DEF ReadLoopErr
  <2> QED
    BY <1>2, <2>1, <2>2, TellReturns
<1>11. CASE LoopReply(e)
  <2> DEFINE f == Frame(cur[e].id, "error", 0)
  <2>1. /\ Returns(e) /\ loop[e] = "reply"
        /\ Write(e, f) \/ UNCHANGED wire
        /\ UNCHANGED <<closer, closes, stage, conn, streams>>
    BY <1>11 DEF LoopReply
  <2>2. PICK i \in Ids : i = cur[e].id
    BY <2>1 DEF TypeInv, CurInv
  <2>3. f \in Frames /\ f.id = i /\ f.flag = "error"
    BY <2>2, FrameType DEF Flags
  <2>4. ~ReadLoopErr(e)
    BY <2>1 DEF ReadLoopErr
  <2>5. Gone(e, i)
    BY <2>1, <2>2 DEF TellInv, Handles, Holds
  <2> HIDE DEF f
  <2>6. ASSUME \A d \in Ends : \A j \in Ids : Grows(d, j)
        PROVE  \A d \in Ends : \A j \in Ids : Carries(d, j)
    <3>1. CASE UNCHANGED wire
      BY <3>1, WireKept
    <3>2. CASE Write(e, f)
      <4> SUFFICES ASSUME NEW d \in Ends, NEW j \in Ids PROVE Carries(d, j)
        OBVIOUS
      <4>1. ~IsOf(f, j, "close") /\ (IsOf(f, j, "error") => Gone(e, j) /\ ~ReadLoopErr(e))
        BY <2>3, <2>4, <2>5 DEF IsOf
      <4> QED
        BY <2>3, <2>6, <3>2, <4>1, WireWritten
    <3> QED
      BY <2>1, <3>1, <3>2
  <2> QED
    BY <2>1, <2>4, <2>6, TellReturns
<1>12. CASE LoopPushError(e)
  <2>1. /\ Returns(e) /\ loop[e] = "error"
        /\ streams' = [streams EXCEPT ![e] = @ \ {cur[e].id}]
        /\ UNCHANGED <<closer, closes, stage, conn, wire>>
    BY <1>12 DEF LoopPushError
  <2>2. PICK i \in Ids : i = cur[e].id
    BY <2>1 DEF TypeInv, CurInv
  <2>3. /\ loop'[e] = "read" /\ \A d \in Ends : d # e => loop'[d] = loop[d] /\ cur'[d] = cur[d]
        /\ streams'[e] = streams[e] \ {i}
        /\ \A d \in Ends : d # e => streams'[d] = streams[d]
    BY <1>1, <2>1, <2>2 DEF Returns, LoopOK, LifeOK
  <2>4. Gone(Peer(e), i)
    BY <2>1, <2>2 DEF TellInv, Handles, Holds
  <2>5. stage[e][i] # "reg"
    BY <1>1, <2>1, <2>2 DEF HandInv, Hands, Known
  <2>6. \A j \in Ids :
           /\ j \in streams'[e] => j \in streams[e]
           /\ j \in streams[e] /\ j \notin streams'[e] =>
                Aware(Peer(e), j) /\ stage[e][j] # "reg"
           /\ ~Holds(e, j, "error")' /\ ~Holds(e, j, "reply")'
    BY <2>3, <2>4, <2>5 DEF Aware, Holds
  <2>7. ~ReadLoopErr(e)
    BY <2>1 DEF ReadLoopErr
  <2> QED
    BY <1>2, <2>1, <2>3, <2>6, <2>7, LoopTells
<1>13. CASE LoopFail(e) \/ LoopExit(e)
  <2>1. /\ loop' = [loop EXCEPT ![e] = "failed"] \/ loop' = [loop EXCEPT ![e] = "done"]
        /\ streams' = [streams EXCEPT ![e] = @ \ streams[e]] \/ streams' = streams
        /\ UNCHANGED <<closer, closes, stage, conn, wire, cur>>
    BY <1>13 DEF LoopFail, LoopExit, CloseStreams
  <2>2. /\ loop'[e] \in {"failed", "done"}
        /\ \A d \in Ends : d # e => loop'[d] = loop[d] /\ streams'[d] = streams[d]
        /\ \A j \in Ids : j \in streams'[e] => j \in streams[e]
    BY <1>1, <2>1 DEF LoopOK, LifeOK
  <2>3. /\ ReadLoopErr(e)'
        /\ \A j \in Ids : ~Holds(e, j, "error")' /\ ~Holds(e, j, "reply")'
    BY <2>2 DEF ReadLoopErr, Holds
  <2> QED
    BY <1>2, <2>1, <2>2, <2>3, LoopTells
<1> QED
  BY <1>4, <1>5, <1>6, <1>7, <1>8, <1>9, <1>10, <1>11, <1>12, <1>13 DEF Loop

LEMMA TellApplication ==
  ASSUME TypeInv, StageInv, TellInv, NEW e \in Ends,
         \/ StartAlloc(e) \/ WriteData(e) \/ RegisterHandler(e)
         \/ ConnCancel(e) \/ ConnClose(e) \/ Take(e)
  PROVE  TellInv'
<1> USE DEF connVars, loopVars, routeVars, streamVars, clientVars, histVars, rawVars
<1>1. ASSUME UNCHANGED <<closer, closes, stage, streams, loop, cur>>
      PROVE  \A d \in Ends : \A j \in Ids : Grows(d, j) /\ Acts(d, j)
  <2>1. \A d \in Ends : \A j \in Ids : Quiet(d, j)
    BY <1>1 DEF Quiet
  <2> QED
    BY <2>1, QuietMoves
<1>2. CASE RegisterHandler(e) \/ ReadData(e) \/ ConnCancel(e)
  <2>1. /\ UNCHANGED <<closer, closes, stage, streams, loop, cur, wire>>
        /\ conn' = conn \/ (conn' = [conn EXCEPT ![e] = "cancelled"] /\ conn[e] = "open")
    BY <1>2 DEF RegisterHandler, ReadData, ConnCancel
  <2>2. \A d \in Ends : Usable(d)' => Usable(d)
    BY <2>1 DEF Usable, Up, TypeInv, TypeOK
  <2>3. \A d \in Ends : \A j \in Ids : Carries(d, j)
    BY <2>1, WireKept
  <2> QED
    BY <1>1, <2>1, <2>2, <2>3, TellMoves
<1>3. CASE ConnClose(e)
  <2>1. /\ UNCHANGED <<closer, closes, stage, streams, loop, cur>>
        /\ conn[e] # "closed"
        /\ \/ Released(e)
           \/ conn' = [conn EXCEPT ![e] = "closing"] /\ UNCHANGED wire
    BY <1>3 DEF ConnClose
  <2>2. \A d \in Ends : Usable(d)' => Usable(d)
    BY <2>1 DEF Released, Usable, Up, TypeInv, TypeOK
  <2>4. ASSUME Released(e)
        PROVE  \A d \in Ends : \A j \in Ids : Carries(d, j)
    <3>1. ~Up' /\ wire' = [wire EXCEPT ![e] = <<>>]
      BY <2>4 DEF Released, Up, TypeInv, TypeOK
    <3> QED
      BY <3>1, WireCleared
  <2>5. ASSUME UNCHANGED wire
        PROVE  \A d \in Ends : \A j \in Ids : Carries(d, j)
    BY <2>5, WireKept
  <2>3. \A d \in Ends : \A j \in Ids : Carries(d, j)
    BY <2>1, <2>4, <2>5
  <2> QED
    BY <1>1, <2>1, <2>2, <2>3, TellMoves
<1>4. CASE WriteData(e)
  <2>1. /\ UNCHANGED <<closer, closes, stage, streams, loop, cur, conn>>
        /\ Write(e, Frame(RawId, "raw", rawSent[e] + 1))
    BY <1>4 DEF WriteData
  <2>2. rawSent[e] + 1 \in Nat
    BY DEF TypeInv, TypeOK
  <2>3. PICK f \in Frames : Write(e, f) /\ f.flag = "raw"
    <3>1. RawId \in Ids \cup {RawId} /\ "raw" \in Flags
      BY DEF Flags
    <3>2. /\ Frame(RawId, "raw", rawSent[e] + 1) \in Frames
          /\ Frame(RawId, "raw", rawSent[e] + 1).flag = "raw"
      BY <2>2, <3>1, FrameType
    <3> QED
      BY <2>1, <3>2
  <2>4. \A d \in Ends : \A j \in Ids : Grows(d, j) /\ Acts(d, j)
    BY <1>1, <2>1
  <2>5. ASSUME NEW d \in Ends, NEW j \in Ids PROVE Carries(d, j)
    <3>1. ~IsOf(f, j, "close") /\ ~IsOf(f, j, "error")
      BY <2>3 DEF IsOf
    <3> QED
      BY <2>3, <2>4, <3>1, WireWritten
  <2>6. \A d \in Ends : Usable(d)' => Usable(d)
    BY <2>1 DEF Usable, Up
  <2> QED
    BY <2>4, <2>5, <2>6, TellMoves
<1>5. ASSUME NEW i \in Ids, NEW v, Moves(e, i, v),
             UNCHANGED <<closer, closes, streams, loop, cur, wire, conn>>,
             stage[e][i] \in Known <=> v \in Known, v # "reg"
      PROVE  TellInv'
  <2>1. /\ stage'[e][i] = v
        /\ \A c \in Ends : \A k \in Ids : c # e \/ k # i => stage'[c][k] = stage[c][k]
    BY <1>5, StageMoves
  <2>2. Only(e, i)
    BY <1>5, <2>1 DEF Only, Quiet
  <2>3. (Gone(e, i)' <=> Gone(e, i)) /\ (ReadLoopErr(e)' <=> ReadLoopErr(e))
    BY <1>5, <2>1 DEF Gone, ReadLoopErr
  <2>4. /\ Holds(e, i, "error")' <=> Holds(e, i, "error")
        /\ Holds(e, i, "reply")' <=> Holds(e, i, "reply")
    BY <1>5 DEF Holds
  <2>5. Handles(e, i, Peer(e))
    BY DEF TellInv
  <2>6. Grows(e, i)
    BY <1>5, <2>3 DEF Grows
  <2>7. Acts(e, i)
    BY <1>5, <2>1, <2>3, <2>4, <2>5 DEF Acts, Handles
  <2> QED
    BY <1>5, <2>2, <2>6, <2>7, TellOnly
<1>6. CASE StartAlloc(e)
  <2> DEFINE i == nextStreamID[e]
  <2>1. /\ i \in Ids /\ Moves(e, i, "alloc") /\ i \in OwnIds(e)
        /\ UNCHANGED <<closer, closes, streams, loop, cur, wire, conn>>
    BY <1>6 DEF StartAlloc, Moves, StageInv, NumInv
  <2>2. stage[e][i] = "none"
    <3>1. i \in Nat
      BY DEF TypeInv, TypeOK
    <3> QED
      BY <2>1, <3>1 DEF StageInv, NumInv
  <2> QED
    BY <1>5, <2>1, <2>2 DEF Known
<1>7. CASE AcceptStream(e)
  <2> DEFINE i == Head(acceptCh[e])
  <2>1. /\ acceptCh[e] # <<>> /\ Moves(e, i, "held")
        /\ UNCHANGED <<closer, closes, streams, loop, cur, wire, conn>>
    BY <1>7 DEF AcceptStream, Moves
  <2>2. acceptCh[e] \in Seq(Ids)
    BY DEF TypeInv, TypeOK
  <2>3. i \in Ids /\ 1 \in DOMAIN acceptCh[e] /\ i = acceptCh[e][1]
    BY <2>1, <2>2
  <2>4. stage[e][i] \in Known
    BY <2>3 DEF StageInv, HandInv, Hands
  <2> QED
    BY <1>5, <2>1, <2>3, <2>4 DEF Known
<1> QED
  BY <1>2, <1>3, <1>4, <1>6, <1>7 DEF Take

LEMMA TellInit == Init => TellInv
<1> SUFFICES ASSUME Init, NEW e \in Ends, NEW i \in Ids
             PROVE  Told(e, i, Peer(e)) /\ Handles(e, i, Peer(e))
  BY DEF TellInv
<1>1. Peer(e) \in Ends
  BY Owners
<1>2. \A d \in Ends : /\ wire[d] = <<>> /\ loop[d] = "read"
                      /\ stage[d][i] = "none" /\ closer[d][i] = "idle"
  BY DEF Init, PerStream
<1>3. ~Gone(Peer(e), i) /\ ~Gone(e, i)
  BY <1>1, <1>2 DEF Gone, Known
<1> QED
  BY <1>1, <1>2, <1>3 DEF Told, Handles, Has, CloseFirst, Holds

LEMMA TellNext ==
  TypeInv /\ StageInv /\ TellInv /\ ~Cancels /\ [Next]_vars => TellInv'
<1> SUFFICES ASSUME TypeInv, StageInv, TellInv, ~Cancels, [Next]_vars PROVE TellInv'
  OBVIOUS
<1>1. CASE UNCHANGED vars
  <2>1. UNCHANGED <<closer, closes, stage, streams, loop, cur, wire, conn>>
    BY <1>1 DEF vars, connVars, loopVars, clientVars
  <2>2. \A d \in Ends : \A j \in Ids : Quiet(d, j) /\ Carries(d, j)
    BY <2>1, WireKept DEF Quiet
  <2>3. \A d \in Ends : Usable(d)' => Usable(d)
    BY <2>1 DEF Usable, Up
  <2> QED
    BY <2>2, <2>3, QuietMoves, TellMoves
<1>2. CASE Next
  BY <1>2, TellLoop, TellApplication, TellCalls DEF Next, Decide
<1> QED
  BY <1>1, <1>2

\* Unless a write gives up, an Error frame is read only by an end that is
\* closing the stream itself: the Close frame is out before the stream leaves
\* the map, and so the peer knows of it before it can be told of an error.
THEOREM ErrorsAreLate == Spec => []NoErrorOnLive
<1>1. Init => TypeInv /\ StageInv /\ (~Cancels => TellInv)
  BY TypeInit, StageInit, TellInit
<1>2. TypeInv /\ StageInv /\ (~Cancels => TellInv) /\ [Next]_vars =>
        TypeInv' /\ StageInv' /\ (~Cancels => TellInv)'
  BY TypeNext, StageNext, TellNext
<1>3. TypeInv /\ (~Cancels => TellInv) => NoErrorOnLive
  BY DEF NoErrorOnLive, TellInv, Handles, Holds, TypeInv, CurInv
<1> QED
  BY <1>1, <1>2, <1>3, PTL DEF Spec

=============================================================================
