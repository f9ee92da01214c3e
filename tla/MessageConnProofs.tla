------------------------ MODULE MessageConnProofs ------------------------
(***************************************************************************)
(* Theorems about MessageConn, for any bounds and capacities: its types,   *)
(* NoPanic, the order of the payloads of a stream (InOrder), and that of   *)
(* the raw messages (RawInOrder).                                          *)
(***************************************************************************)
EXTENDS MessageConn, SequenceTheorems, TLAPS

\* The frame in the loop's hands is one of a stream, unless it is raw.
CurInv ==
  \A e \in Ends : loop[e] \in {"accept", "reply", "push", "error"} => cur[e].id \in Ids

TypeInv == TypeOK /\ CurInv

LEMMA IdsAreNat == Ids \subseteq Nat \ {0}
  BY ConstantsAssumption DEF Ids, FirstID, Ends

LEMMA TypeInit == Init => TypeInv
<1> SUFFICES ASSUME Init PROVE TypeInv
  OBVIOUS
<1>1. NoFrame \in Frames
  BY DEF NoFrame, Frame, Frames, RawId, Flags
<1>2. \A e \in Ends : FirstID(e) \in Nat
  BY DEF FirstID
<1>3. TypeOK
  BY <1>1, <1>2, ConstantsAssumption DEF TypeOK, Init, PerStream
<1>4. CurInv
  BY DEF CurInv, Init
<1> QED
  BY <1>3, <1>4 DEF TypeInv

LEMMA PeerInEnds == \A e \in Ends : Peer(e) \in Ends /\ Peer(e) # e
  BY DEF Ends, Peer

LEMMA FrameType ==
  ASSUME NEW i \in Ids \cup {RawId}, NEW flag \in Flags, NEW n \in Nat
  PROVE  /\ Frame(i, flag, n) \in Frames
         /\ Frame(i, flag, n).id = i /\ Frame(i, flag, n).flag = flag
         /\ Frame(i, flag, n).seq = n
  BY DEF Frame, Frames

LEMMA FrameFields ==
  \A f \in Frames : f.id \in Ids \cup {RawId} /\ f.flag \in Flags /\ f.seq \in Nat
  BY DEF Frames

\* Taking the head of a sequence and appending to one, as the channels do.
LEMMA TakeType ==
  ASSUME NEW S, NEW q \in Seq(S), q # <<>>
  PROVE  /\ Head(q) \in S /\ Tail(q) \in Seq(S)
         /\ Len(Tail(q)) = Len(q) - 1 /\ Len(q) \in Nat \ {0}
  OBVIOUS

LEMMA PutType ==
  ASSUME NEW S, NEW q \in Seq(S), NEW x \in S
  PROVE  /\ Append(q, x) \in Seq(S)
         /\ Len(Append(q, x)) = Len(q) + 1 /\ Len(q) \in Nat
  OBVIOUS

\* What the types of the wires and of the loop's frame are.
WireOK == /\ wire \in [Ends -> Seq(Frames)]
          /\ \A e \in Ends : Len(wire[e]) <= WireCap
LoopOK == /\ loop \in [Ends -> {"read", "raw", "accept", "reply", "push",
                              "error", "failed", "done"}]
          /\ cur \in [Ends -> Frames]

LEMMA WriteType ==
  ASSUME WireOK, NEW e \in Ends, NEW f \in Frames, Write(e, f)
  PROVE  WireOK'
<1>1. Peer(e) \in Ends
  BY PeerInEnds
<1>2. wire[Peer(e)] \in Seq(Frames) /\ Len(wire[Peer(e)]) < WireCap
  BY <1>1 DEF WireOK, Write, Room
<1>3. /\ Append(wire[Peer(e)], f) \in Seq(Frames)
      /\ Len(Append(wire[Peer(e)], f)) <= WireCap
  BY <1>2, PutType, ConstantsAssumption
<1>4. wire' = [wire EXCEPT ![Peer(e)] = Append(wire[Peer(e)], f)]
  BY DEF Write
<1> QED
  BY <1>1, <1>3, <1>4 DEF WireOK

LEMMA ReadsType ==
  ASSUME WireOK, LoopOK, NEW e \in Ends, NEW f,
         NEW l \in {"read", "raw", "accept", "reply", "push", "error"},
         l \in {"accept", "reply", "push", "error"} => f.id # RawId,
         CurInv, Reads(e, f, l)
  PROVE  WireOK' /\ LoopOK' /\ CurInv' /\ f \in Frames
<1>1. wire[e] \in Seq(Frames) /\ wire[e] # <<>> /\ f = Head(wire[e])
  BY DEF WireOK, Reads
<1>2. f \in Frames /\ Tail(wire[e]) \in Seq(Frames)
      /\ Len(Tail(wire[e])) = Len(wire[e]) - 1 /\ Len(wire[e]) \in Nat
  BY <1>1, TakeType
<1>3. WireOK'
  BY <1>2, ConstantsAssumption DEF WireOK, Reads
<1>4. LoopOK'
  BY <1>2, FrameType DEF LoopOK, Reads, NoFrame, Flags
<1>5. CurInv'
  BY <1>2 DEF CurInv, LoopOK, Reads, Frames
<1> QED
  BY <1>2, <1>3, <1>4, <1>5

LEMMA ReturnsType ==
  ASSUME LoopOK, CurInv, NEW e \in Ends, Returns(e)
  PROVE  LoopOK' /\ CurInv'
<1>1. NoFrame \in Frames
  BY FrameType DEF NoFrame, Flags
<1> QED
  BY <1>1 DEF LoopOK, CurInv, Returns

\* The types of what only the streams, and only the counters, consist of.
StreamOK == /\ streams \in [Ends -> SUBSET Ids]
            /\ recvCh \in [Ends -> [Ids -> Seq(Frames)]]
            /\ chClosed \in [Ends -> [Ids -> BOOLEAN]]
            /\ cancelled \in [Ends -> [Ids -> BOOLEAN]]
            /\ \A e \in Ends : \A i \in Ids : Len(recvCh[e][i]) <= RecvCap
AcceptOK == /\ acceptCh \in [Ends -> Seq(Ids)]
            /\ \A e \in Ends : Len(acceptCh[e]) <= AcceptCap
            /\ stage \in [Ends -> [Ids -> {"none", "alloc", "reg", "failed",
                                         "pending", "held"}]]
RawOK == /\ rawMsgCh \in [Ends -> Seq(Nat)]
         /\ \A e \in Ends : Len(rawMsgCh[e]) <= RawCap
         /\ rawSent \in [Ends -> Nat] /\ rawRcvd \in [Ends -> Nat]
ClientOK ==
  /\ conn \in [Ends -> {"open", "cancelled", "closing", "closed"}]
  /\ nextStreamID \in [Ends -> Nat] /\ faults \in Nat
  /\ handled \in [Ends -> BOOLEAN] /\ routed \in [Ids -> BOOLEAN]
  /\ writer \in [Ends -> [Ids -> BOOLEAN]]
  /\ closer \in [Ends -> [Ids -> {"idle", "cancelled", "written"}]]
  /\ closes \in [Ends -> [Ids -> Nat]] /\ halfCloses \in [Ends -> [Ids -> Nat]]
HistOK ==
  /\ sent \in [Ends -> [Ids -> Nat]] /\ rcvd \in [Ends -> [Ids -> Nat]]
  /\ finAt \in [Ends -> [Ids -> Nat \cup {-1}]]
  /\ last \in [Ends -> [Ids -> {"none", "eof", "error"}]]

LEMMA TypeParts ==
  TypeOK <=> WireOK /\ LoopOK /\ StreamOK /\ AcceptOK /\ RawOK /\ ClientOK /\ HistOK
  BY DEF TypeOK, WireOK, LoopOK, StreamOK, AcceptOK, RawOK, ClientOK, HistOK

LEMMA FreshType ==
  ASSUME StreamOK, NEW e \in Ends, NEW i \in Ids, Fresh(e, i)
  PROVE  StreamOK'
<1>1. <<>> \in Seq(Frames) /\ Len(<<>>) <= RecvCap
  BY ConstantsAssumption
<1> QED
  BY <1>1 DEF StreamOK, Fresh

LEMMA CloseStreamsType ==
  ASSUME StreamOK, NEW e \in Ends, NEW S, CloseStreams(e, S), UNCHANGED recvCh
  PROVE  StreamOK'
  BY DEF StreamOK, CloseStreams

LEMMA PushType ==
  ASSUME StreamOK, LoopOK, NEW e \in Ends, NEW i \in Ids, Push(e, i),
         UNCHANGED <<chClosed, cancelled>>, streams' \in [Ends -> SUBSET Ids]
  PROVE  StreamOK'
<1>1. CASE UNCHANGED recvCh
  BY <1>1 DEF StreamOK
<1>2. CASE /\ Len(recvCh[e][i]) < RecvCap
           /\ recvCh' = [recvCh EXCEPT ![e][i] = Append(@, cur[e])]
  <2>1. recvCh[e][i] \in Seq(Frames) /\ cur[e] \in Frames
    BY DEF StreamOK, LoopOK
  <2>2. /\ Append(recvCh[e][i], cur[e]) \in Seq(Frames)
        /\ Len(Append(recvCh[e][i], cur[e])) <= RecvCap
    BY <2>1, <1>2, PutType, ConstantsAssumption
  <2> QED
    BY <2>2, <1>2 DEF StreamOK
<1> QED
  BY <1>1, <1>2 DEF Push

LEMMA FinishedType ==
  ASSUME HistOK, NEW e \in Ends, NEW i \in Ids, Finished(e, i),
         UNCHANGED <<sent, rcvd, last>>
  PROVE  HistOK'
<1>1. sent[e][i] \in Nat
  BY DEF HistOK
<1> QED
  BY <1>1 DEF HistOK, Finished

\* The frames this module writes.
LEMMA WrittenType ==
  ASSUME TypeInv, NEW e \in Ends, NEW i \in Ids
  PROVE  /\ \A flag \in Flags : Frame(i, flag, 0) \in Frames
         /\ Frame(i, "data", sent[e][i] + 1) \in Frames
         /\ Frame(RawId, "raw", rawSent[e] + 1) \in Frames
<1>1. sent[e][i] \in Nat /\ rawSent[e] \in Nat
  BY DEF TypeInv, TypeOK
<1>2. sent[e][i] + 1 \in Nat /\ rawSent[e] + 1 \in Nat
  BY <1>1
<1> QED
  BY <1>2, FrameType DEF Flags

\* The steps of the calls on stream i keep the types.
LEMMA TypeCalls ==
  ASSUME TypeInv, NEW e \in Ends, NEW i \in Ids,
         Proceed(e, i) \/ SendCheck(e, i) \/ CloseWrite(e, i)
           \/ CloseCancel(e, i) \/ Receive(e, i)
  PROVE  TypeInv'
<1> USE DEF TypeInv, connVars, loopVars, routeVars, streamVars, clientVars,
            histVars, rawVars
<1>1. /\ WireOK /\ LoopOK /\ StreamOK /\ AcceptOK /\ RawOK /\ ClientOK /\ HistOK
      /\ CurInv
  BY TypeParts
<1>2. \A flag \in Flags : Frame(i, flag, 0) \in Frames
  BY WrittenType
<1>3. Frame(i, "data", sent[e][i] + 1) \in Frames
  BY WrittenType
<1>4. (WireOK /\ LoopOK /\ StreamOK /\ AcceptOK /\ RawOK /\ ClientOK /\ HistOK)'
        /\ CurInv' => TypeInv'
  BY DEF TypeOK, WireOK, LoopOK, StreamOK, AcceptOK, RawOK, ClientOK, HistOK
<1>5. UNCHANGED <<loop, cur>> => LoopOK' /\ CurInv'
  BY <1>1 DEF LoopOK, CurInv
<1>6. CASE StartRegister(e, i)
  <2>1. StreamOK'
    BY <1>1, <1>6, FreshType DEF StartRegister
  <2> QED
    BY <1>1, <1>4, <1>5, <1>6, <2>1
    DEF StartRegister, WireOK, AcceptOK, RawOK, ClientOK, HistOK
<1>7. CASE StartWrite(e, i)
  <2>1. WireOK'
    BY <1>1, <1>2, <1>7, WriteType DEF StartWrite, Flags
  <2> QED
    BY <1>1, <1>4, <1>5, <1>7, <2>1
    DEF StartWrite, StreamOK, AcceptOK, RawOK, ClientOK, HistOK
<1>8. CASE StartFail(e, i)
  BY <1>1, <1>4, <1>5, <1>8
  DEF StartFail, WireOK, StreamOK, AcceptOK, RawOK, ClientOK, HistOK
<1>9. CASE SendCheck(e, i)
  BY <1>1, <1>4, <1>5, <1>9
  DEF SendCheck, WireOK, StreamOK, AcceptOK, RawOK, ClientOK, HistOK
<1>10. CASE SendWrite(e, i)
  <2>1. WireOK'
    BY <1>1, <1>3, <1>10, WriteType DEF SendWrite
  <2>2. sent[e][i] + 1 \in Nat
    BY <1>1 DEF HistOK
  <2>3. HistOK'
    BY <1>1, <1>10, <2>2 DEF SendWrite, HistOK
  <2>4. ClientOK'
    BY <1>1, <1>10 DEF SendWrite, ClientOK
  <2> QED
    BY <1>1, <1>4, <1>5, <1>10, <2>1, <2>3, <2>4
    DEF SendWrite, StreamOK, AcceptOK, RawOK
<1>11. CASE SendFail(e, i)
  BY <1>1, <1>4, <1>5, <1>11
  DEF SendFail, WireOK, StreamOK, AcceptOK, RawOK, ClientOK, HistOK
<1>12. CASE CloseWrite(e, i)
  <2>1. WireOK'
    BY <1>1, <1>2, <1>12, WriteType DEF CloseWrite, Flags
  <2>2. halfCloses[e][i] + 1 \in Nat
    BY <1>1 DEF ClientOK
  <2>3. ClientOK'
    BY <1>1, <1>12, <2>2 DEF CloseWrite, ClientOK
  <2>4. HistOK'
    BY <1>1, <1>12, FinishedType DEF CloseWrite
  <2> QED
    BY <1>1, <1>4, <1>5, <1>12, <2>1, <2>3, <2>4
    DEF CloseWrite, StreamOK, AcceptOK, RawOK
<1>13. CASE CloseCancel(e, i)
  <2>1. closes[e][i] + 1 \in Nat
    BY <1>1 DEF ClientOK
  <2>2. ClientOK'
    BY <1>1, <1>13, <2>1 DEF CloseCancel, ClientOK
  <2>3. StreamOK'
    BY <1>1, <1>13 DEF CloseCancel, StreamOK
  <2> QED
    BY <1>1, <1>4, <1>5, <1>13, <2>2, <2>3
    DEF CloseCancel, WireOK, AcceptOK, RawOK, HistOK
<1>14. CASE CloseFrame(e, i)
  <2>1. WireOK'
    BY <1>1, <1>2, <1>14, WriteType DEF CloseFrame, Flags
  <2>2. HistOK'
    BY <1>1, <1>14, FinishedType DEF CloseFrame
  <2>3. ClientOK'
    BY <1>1, <1>14 DEF CloseFrame, ClientOK
  <2> QED
    BY <1>1, <1>4, <1>5, <1>14, <2>1, <2>2, <2>3
    DEF CloseFrame, StreamOK, AcceptOK, RawOK
<1>15. CASE CloseFrameLost(e, i)
  BY <1>1, <1>4, <1>5, <1>15
  DEF CloseFrameLost, WireOK, StreamOK, AcceptOK, RawOK, ClientOK, HistOK
<1>16. CASE CloseRemove(e, i)
  BY <1>1, <1>4, <1>5, <1>16
  DEF CloseRemove, WireOK, StreamOK, AcceptOK, RawOK, ClientOK, HistOK
<1>17. CASE RecvFrame(e, i)
  <2>1. recvCh[e][i] \in Seq(Frames) /\ recvCh[e][i] # <<>>
    BY <1>1, <1>17 DEF StreamOK, RecvFrame
  <2>2. /\ Head(recvCh[e][i]).seq \in Nat
        /\ Tail(recvCh[e][i]) \in Seq(Frames)
        /\ Len(Tail(recvCh[e][i])) = Len(recvCh[e][i]) - 1
        /\ Len(recvCh[e][i]) \in Nat
    <3>1. /\ Head(recvCh[e][i]) \in Frames
          /\ Tail(recvCh[e][i]) \in Seq(Frames)
          /\ Len(Tail(recvCh[e][i])) = Len(recvCh[e][i]) - 1
          /\ Len(recvCh[e][i]) \in Nat
      BY <2>1, TakeType
    <3> QED
      BY <3>1, FrameFields
  <2>3. StreamOK'
    BY <1>1, <1>17, <2>2, ConstantsAssumption DEF StreamOK, RecvFrame
  <2>4. HistOK'
    BY <1>1, <1>17, <2>2 DEF HistOK, RecvFrame
  <2> QED
    BY <1>1, <1>4, <1>5, <1>17, <2>3, <2>4
    DEF RecvFrame, WireOK, AcceptOK, RawOK, ClientOK
<1>18. CASE RecvEnd(e, i)
  BY <1>1, <1>4, <1>5, <1>18
  DEF RecvEnd, WireOK, StreamOK, AcceptOK, RawOK, ClientOK, HistOK
<1> QED
  BY <1>6, <1>7, <1>8, <1>9, <1>10, <1>11, <1>12, <1>13, <1>14, <1>15,
     <1>16, <1>17, <1>18 DEF Proceed, Receive

\* The steps of the read loop keep the types.
LEMMA TypeLoop ==
  ASSUME TypeInv, NEW e \in Ends, Loop(e)
  PROVE  TypeInv'
<1> USE DEF TypeInv, connVars, loopVars, routeVars, streamVars, clientVars,
            histVars, rawVars
<1>1. /\ WireOK /\ LoopOK /\ StreamOK /\ AcceptOK /\ RawOK /\ ClientOK /\ HistOK
      /\ CurInv
  BY TypeParts
<1>2. (WireOK /\ LoopOK /\ StreamOK /\ AcceptOK /\ RawOK /\ ClientOK /\ HistOK)'
        /\ CurInv' => TypeInv'
  BY DEF TypeOK, WireOK, LoopOK, StreamOK, AcceptOK, RawOK, ClientOK, HistOK
<1>3. RawId \notin Ids
  BY IdsAreNat DEF RawId
<1>4. ASSUME NEW f, NEW l \in {"read", "raw", "accept", "reply", "push", "error"},
             l \in {"accept", "reply", "push", "error"} => f.id # RawId,
             Reads(e, f, l)
      PROVE  WireOK' /\ LoopOK' /\ CurInv' /\ f \in Frames
  BY <1>1, <1>4, ReadsType
<1>5. ASSUME Returns(e) PROVE LoopOK' /\ CurInv'
  BY <1>1, <1>5, ReturnsType
<1>6. ASSUME loop[e] \in {"accept", "reply", "push", "error"} PROVE cur[e].id \in Ids
  BY <1>1, <1>6 DEF CurInv
<1>7. CASE LoopRaw(e)
  <2>1. WireOK' /\ LoopOK' /\ CurInv'
    BY <1>4, <1>7 DEF LoopRaw
  <2> QED
    BY <1>1, <1>2, <1>7, <2>1
    DEF LoopRaw, StreamOK, AcceptOK, RawOK, ClientOK, HistOK
<1>8. CASE LoopStart(e)
  <2> DEFINE f == Head(wire[e])
             served == routed[f.id] /\ handled[e]
  <2>1. /\ f.id # RawId /\ Fresh(e, f.id)
        /\ Reads(e, f, IF served THEN "read" ELSE "accept")
        /\ stage' = [stage EXCEPT ![e][f.id] = IF served THEN "held" ELSE "pending"]
    BY <1>8 DEF LoopStart
  <2>2. WireOK' /\ LoopOK' /\ CurInv' /\ f \in Frames
    BY <1>4, <2>1
  <2>3. f.id \in Ids
    BY <2>1, <2>2, FrameFields
  <2>4. StreamOK'
    BY <1>1, <2>1, <2>3, FreshType
  <2>5. AcceptOK'
    BY <1>1, <1>8, <2>1, <2>3 DEF LoopStart, AcceptOK
  <2> QED
    BY <1>1, <1>2, <1>8, <2>2, <2>4, <2>5 DEF LoopStart, RawOK, ClientOK, HistOK
<1>9. CASE LoopUnknown(e)
  <2>1. WireOK' /\ LoopOK' /\ CurInv'
    BY <1>4, <1>9 DEF LoopUnknown
  <2> QED
    BY <1>1, <1>2, <1>9, <2>1
    DEF LoopUnknown, StreamOK, AcceptOK, RawOK, ClientOK, HistOK
<1>10. CASE LoopClose(e)
  <2>1. WireOK' /\ LoopOK' /\ CurInv'
    BY <1>4, <1>10 DEF LoopClose
  <2>2. StreamOK'
    BY <1>1, <1>10, CloseStreamsType DEF LoopClose
  <2> QED
    BY <1>1, <1>2, <1>10, <2>1, <2>2 DEF LoopClose, AcceptOK, RawOK, ClientOK, HistOK
<1>11. CASE LoopError(e)
  <2>1. Head(wire[e]).id \in Ids
    BY <1>1, <1>11 DEF LoopError, StreamOK
  <2>2. WireOK' /\ LoopOK' /\ CurInv'
    BY <1>3, <1>4, <1>11, <2>1 DEF LoopError
  <2>3. StreamOK'
    BY <1>1, <1>11, <2>1 DEF LoopError, StreamOK
  <2> QED
    BY <1>1, <1>2, <1>11, <2>2, <2>3 DEF LoopError, AcceptOK, RawOK, ClientOK, HistOK
<1>12. CASE LoopData(e)
  <2>1. Head(wire[e]).id \in Ids
    BY <1>1, <1>12 DEF LoopData, StreamOK
  <2>2. WireOK' /\ LoopOK' /\ CurInv'
    BY <1>3, <1>4, <1>12, <2>1 DEF LoopData
  <2> QED
    BY <1>1, <1>2, <1>12, <2>2
    DEF LoopData, StreamOK, AcceptOK, RawOK, ClientOK, HistOK
<1>13. CASE LoopPushRaw(e)
  <2>1. rawMsgCh[e] \in Seq(Nat) /\ cur[e].seq \in Nat /\ Len(rawMsgCh[e]) < RawCap
    BY <1>1, <1>13, FrameFields DEF RawOK, LoopOK, LoopPushRaw, PushRaw
  <2>2. /\ Append(rawMsgCh[e], cur[e].seq) \in Seq(Nat)
        /\ Len(Append(rawMsgCh[e], cur[e].seq)) <= RawCap
    BY <2>1, PutType, ConstantsAssumption
  <2>3. RawOK'
    BY <1>1, <1>13, <2>2 DEF RawOK, LoopPushRaw, PushRaw
  <2> QED
    BY <1>1, <1>2, <1>5, <1>13, <2>3
    DEF LoopPushRaw, WireOK, StreamOK, AcceptOK, ClientOK, HistOK
<1>14. CASE LoopAccept(e)
  <2>1. acceptCh[e] \in Seq(Ids) /\ cur[e].id \in Ids /\ Len(acceptCh[e]) < AcceptCap
    BY <1>1, <1>6, <1>14 DEF AcceptOK, LoopAccept
  <2>2. /\ Append(acceptCh[e], cur[e].id) \in Seq(Ids)
        /\ Len(Append(acceptCh[e], cur[e].id)) <= AcceptCap
    BY <2>1, PutType, ConstantsAssumption
  <2>3. AcceptOK'
    BY <1>1, <1>14, <2>2 DEF AcceptOK, LoopAccept
  <2> QED
    BY <1>1, <1>2, <1>5, <1>14, <2>3
    DEF LoopAccept, WireOK, StreamOK, RawOK, ClientOK, HistOK
<1>15. CASE LoopReply(e)
  <2>1. Frame(cur[e].id, "error", 0) \in Frames
    BY <1>6, <1>15, FrameType DEF LoopReply, Flags
  <2>2. WireOK'
    BY <1>1, <1>15, <2>1, WriteType DEF LoopReply, WireOK
  <2> QED
    BY <1>1, <1>2, <1>5, <1>15, <2>2
    DEF LoopReply, StreamOK, AcceptOK, RawOK, ClientOK, HistOK
<1>16. CASE LoopPush(e)
  <2>1. StreamOK'
    BY <1>1, <1>6, <1>16, PushType DEF LoopPush, StreamOK
  <2> QED
    BY <1>1, <1>2, <1>5, <1>16, <2>1
    DEF LoopPush, WireOK, AcceptOK, RawOK, ClientOK, HistOK
<1>17. CASE LoopPushError(e)
  <2>1. streams' \in [Ends -> SUBSET Ids]
    BY <1>1, <1>17 DEF LoopPushError, StreamOK
  <2>2. StreamOK'
    BY <1>1, <1>6, <1>17, <2>1, PushType DEF LoopPushError
  <2> QED
    BY <1>1, <1>2, <1>5, <1>17, <2>2
    DEF LoopPushError, WireOK, AcceptOK, RawOK, ClientOK, HistOK
<1>18. CASE LoopFail(e)
  <2>1. StreamOK'
    BY <1>1, <1>18, CloseStreamsType DEF LoopFail
  <2>2. ClientOK'
    BY <1>1, <1>18 DEF LoopFail, ReadFails, ClientOK
  <2>3. LoopOK' /\ CurInv'
    BY <1>1, <1>18 DEF LoopFail, LoopOK, CurInv
  <2> QED
    BY <1>1, <1>2, <1>18, <2>1, <2>2, <2>3
    DEF LoopFail, WireOK, AcceptOK, RawOK, HistOK
<1>19. CASE LoopExit(e)
  <2>1. LoopOK' /\ CurInv'
    BY <1>1, <1>19 DEF LoopExit, LoopOK, CurInv
  <2> QED
    BY <1>1, <1>2, <1>19, <2>1
    DEF LoopExit, WireOK, StreamOK, AcceptOK, RawOK, ClientOK, HistOK
<1> QED
  BY <1>7, <1>8, <1>9, <1>10, <1>11, <1>12, <1>13, <1>14, <1>15, <1>16,
     <1>17, <1>18, <1>19 DEF Loop

\* The other steps of the applications keep the types.
LEMMA TypeApplication ==
  ASSUME TypeInv, NEW e \in Ends,
         \/ StartAlloc(e) \/ WriteData(e) \/ RegisterHandler(e)
         \/ ConnCancel(e) \/ ConnClose(e) \/ Take(e)
  PROVE  TypeInv'
<1> USE DEF TypeInv, connVars, loopVars, routeVars, streamVars, clientVars,
            histVars, rawVars
<1>1. /\ WireOK /\ LoopOK /\ StreamOK /\ AcceptOK /\ RawOK /\ ClientOK /\ HistOK
      /\ CurInv
  BY TypeParts
<1>2. (WireOK /\ LoopOK /\ StreamOK /\ AcceptOK /\ RawOK /\ ClientOK /\ HistOK)'
        /\ CurInv' => TypeInv'
  BY DEF TypeOK, WireOK, LoopOK, StreamOK, AcceptOK, RawOK, ClientOK, HistOK
<1>3. UNCHANGED <<loop, cur>> => LoopOK' /\ CurInv'
  BY <1>1 DEF LoopOK, CurInv
<1>4. CASE StartAlloc(e)
  <2> DEFINE i == nextStreamID[e]
  <2>1. i \in Ids /\ i + 2 \in Nat
    BY <1>1, <1>4 DEF StartAlloc, ClientOK
  <2>2. ClientOK'
    BY <1>1, <1>4, <2>1, ConstantsAssumption DEF StartAlloc, ClientOK
  <2>3. AcceptOK'
    BY <1>1, <1>4, <2>1 DEF StartAlloc, AcceptOK
  <2> QED
    BY <1>1, <1>2, <1>3, <1>4, <2>2, <2>3
    DEF StartAlloc, WireOK, StreamOK, RawOK, HistOK
<1>5. CASE WriteData(e)
  <2>1. Frame(RawId, "raw", rawSent[e] + 1) \in Frames /\ rawSent[e] + 1 \in Nat
    <3>1. rawSent[e] \in Nat
      BY <1>1 DEF RawOK
    <3>2. rawSent[e] + 1 \in Nat /\ "raw" \in Flags /\ RawId \in Ids \cup {RawId}
      BY <3>1 DEF Flags
    <3> QED
      BY <3>2, FrameType
  <2>2. WireOK'
    BY <1>1, <1>5, <2>1, WriteType DEF WriteData
  <2>3. RawOK'
    BY <1>1, <1>5, <2>1 DEF WriteData, RawOK
  <2> QED
    BY <1>1, <1>2, <1>3, <1>5, <2>2, <2>3
    DEF WriteData, StreamOK, AcceptOK, ClientOK, HistOK
<1>6. CASE RegisterHandler(e)
  BY <1>1, <1>2, <1>3, <1>6
  DEF RegisterHandler, WireOK, StreamOK, AcceptOK, RawOK, ClientOK, HistOK
<1>7. CASE ConnCancel(e)
  <2>1. StreamOK'
    BY <1>1, <1>7 DEF ConnCancel, StreamOK
  <2> QED
    BY <1>1, <1>2, <1>3, <1>7, <2>1
    DEF ConnCancel, WireOK, AcceptOK, RawOK, ClientOK, HistOK
<1>8. CASE ConnClose(e)
  <2>1. <<>> \in Seq(Frames) /\ Len(<<>>) <= WireCap
    BY ConstantsAssumption
  <2>2. WireOK'
    BY <1>1, <1>8, <2>1 DEF ConnClose, Released, WireOK
  <2>3. ClientOK'
    BY <1>1, <1>8 DEF ConnClose, Released, ClientOK
  <2> QED
    BY <1>1, <1>2, <1>3, <1>8, <2>2, <2>3
    DEF ConnClose, StreamOK, AcceptOK, RawOK, HistOK
<1>9. CASE AcceptStream(e)
  <2>1. acceptCh[e] \in Seq(Ids) /\ acceptCh[e] # <<>>
    BY <1>1, <1>9 DEF AcceptOK, AcceptStream
  <2>2. /\ Head(acceptCh[e]) \in Ids /\ Tail(acceptCh[e]) \in Seq(Ids)
        /\ Len(Tail(acceptCh[e])) = Len(acceptCh[e]) - 1
        /\ Len(acceptCh[e]) \in Nat
    BY <2>1, TakeType
  <2>3. AcceptOK'
    BY <1>1, <1>9, <2>2, ConstantsAssumption DEF AcceptOK, AcceptStream
  <2> QED
    BY <1>1, <1>2, <1>3, <1>9, <2>3
    DEF AcceptStream, WireOK, StreamOK, RawOK, ClientOK, HistOK
<1>10. CASE ReadData(e)
  <2>1. rawMsgCh[e] \in Seq(Nat) /\ rawMsgCh[e] # <<>>
    BY <1>1, <1>10 DEF RawOK, ReadData
  <2>2. /\ Head(rawMsgCh[e]) \in Nat /\ Tail(rawMsgCh[e]) \in Seq(Nat)
        /\ Len(Tail(rawMsgCh[e])) = Len(rawMsgCh[e]) - 1
        /\ Len(rawMsgCh[e]) \in Nat
    BY <2>1, TakeType
  <2>3. RawOK'
    BY <1>1, <1>10, <2>2, ConstantsAssumption DEF RawOK, ReadData
  <2> QED
    BY <1>1, <1>2, <1>3, <1>10, <2>3
    DEF ReadData, WireOK, StreamOK, AcceptOK, ClientOK, HistOK
<1> QED
  BY <1>4, <1>5, <1>6, <1>7, <1>8, <1>9, <1>10 DEF Take

LEMMA TypeStutter ==
  ASSUME TypeInv, UNCHANGED vars
  PROVE  TypeInv'
  BY DEF TypeInv, TypeOK, CurInv, vars, connVars, loopVars, routeVars,
         streamVars, clientVars, histVars, rawVars

LEMMA TypeNext == TypeInv /\ [Next]_vars => TypeInv'
<1> SUFFICES ASSUME TypeInv, [Next]_vars PROVE TypeInv'
  OBVIOUS
<1>1. CASE UNCHANGED vars
  BY <1>1, TypeStutter
<1>2. CASE Next
  BY <1>2, TypeLoop, TypeApplication, TypeCalls DEF Next, Decide
<1> QED
  BY <1>1, <1>2

\* Every field of the connections and streams keeps its type, and no channel
\* ever holds more than the capacity it was made with.
THEOREM TypeCorrect == Spec => []TypeOK
<1>1. TypeInv => TypeOK
  BY DEF TypeInv
<1> QED
  BY <1>1, TypeInit, TypeNext, PTL DEF Spec

-----------------------------------------------------------------------------
(* The loop and the channels it closes: NoPanic is inductive, given the    *)
(* types.  Only the steps that close a channel, change the map or give the *)
(* loop a frame to push can disturb it.                                    *)

\* A step that leaves these four alone keeps NoPanic.
panicVars == <<streams, chClosed, loop, cur>>

\* A new stream's channel is open, and no other channel changes.
LEMMA FreshOpens ==
  ASSUME TypeInv, NEW e \in Ends, NEW i \in Ids, Fresh(e, i)
  PROVE  /\ \A d \in Ends : \A j \in Ids :
              chClosed'[d][j] => chClosed[d][j] /\ ~(d = e /\ j = i)
         /\ \A d \in Ends : \A j \in streams'[d] :
              j \in streams[d] \/ (d = e /\ j = i)
<1>1. chClosed \in [Ends -> [Ids -> BOOLEAN]]
  BY DEF TypeInv, TypeOK
<1>2. chClosed' = [chClosed EXCEPT ![e] = [chClosed[e] EXCEPT ![i] = FALSE]]
  BY DEF Fresh
<1>3. \A d \in Ends : \A j \in Ids :
        chClosed'[d][j] => chClosed[d][j] /\ ~(d = e /\ j = i)
  <2> TAKE d \in Ends
  <2> TAKE j \in Ids
  <2>1. CASE d = e
    BY <1>1, <1>2, <2>1
  <2>2. CASE d # e
    BY <1>1, <1>2, <2>2
  <2> QED
    BY <2>1, <2>2
<1>4. \A d \in Ends : \A j \in streams'[d] : j \in streams[d] \/ (d = e /\ j = i)
  BY DEF Fresh, TypeInv, TypeOK
<1> QED
  BY <1>3, <1>4

LEMMA NoPanicCalls ==
  ASSUME TypeInv, NoPanic, NEW e \in Ends, NEW i \in Ids,
         Proceed(e, i) \/ SendCheck(e, i) \/ CloseWrite(e, i)
           \/ CloseCancel(e, i) \/ Receive(e, i)
  PROVE  NoPanic'
<1> USE DEF loopVars, streamVars
<1>1. CASE UNCHANGED panicVars
  BY <1>1 DEF NoPanic, panicVars
<1>2. CASE StartRegister(e, i)
  <2>1. Fresh(e, i) /\ UNCHANGED <<loop, cur>>
    BY <1>2 DEF StartRegister
  <2>2. \A d \in Ends : streams'[d] \subseteq Ids
    BY <2>1 DEF Fresh, TypeInv, TypeOK
  <2>3. \A d \in Ends : loop[d] \in {"push", "error"} => cur[d].id \in Ids
    BY DEF TypeInv, CurInv
  <2> QED
    BY <2>1, <2>2, <2>3, FreshOpens DEF NoPanic
<1>3. CASE StartFail(e, i)
  BY <1>3 DEF StartFail, NoPanic, TypeInv, TypeOK
<1>4. CASE CloseRemove(e, i)
  BY <1>4 DEF CloseRemove, NoPanic, TypeInv, TypeOK
<1> QED
  BY <1>1, <1>2, <1>3, <1>4
  DEF panicVars, Proceed, Receive, StartWrite, SendCheck, SendWrite, SendFail,
      CloseWrite, CloseCancel, CloseFrame, CloseFrameLost, RecvFrame, RecvEnd

LEMMA NoPanicLoop ==
  ASSUME TypeInv, NoPanic, NEW e \in Ends, Loop(e)
  PROVE  NoPanic'
<1> USE DEF loopVars, streamVars
<1>1. ASSUME NEW f, NEW l \in {"read", "raw", "accept", "reply"}, Reads(e, f, l),
             UNCHANGED <<streams, chClosed>>
      PROVE  NoPanic'
  BY <1>1 DEF Reads, NoPanic, TypeInv, TypeOK
<1>2. ASSUME NEW f, NEW l \in {"push", "error"}, Reads(e, f, l),
             f.id \in streams[e], UNCHANGED <<streams, chClosed>>
      PROVE  NoPanic'
  BY <1>2 DEF Reads, NoPanic, TypeInv, TypeOK
<1>3. ASSUME Returns(e), \A d \in Ends : streams'[d] \subseteq streams[d],
             UNCHANGED chClosed
      PROVE  NoPanic'
  BY <1>3 DEF Returns, NoPanic, TypeInv, TypeOK
<1>4. CASE LoopRaw(e)
  BY <1>1, <1>4 DEF LoopRaw
<1>5. CASE LoopStart(e)
  <2>1. /\ Head(wire[e]).id \in Ids
        /\ Fresh(e, Head(wire[e]).id)
        /\ \E l \in {"read", "accept"} : Reads(e, Head(wire[e]), l)
    <3>1. wire[e] \in Seq(Frames) /\ wire[e] # <<>>
      BY <1>5 DEF LoopStart, TypeInv, TypeOK
    <3>2. Head(wire[e]).id \in Ids
      BY <1>5, <3>1, TakeType, FrameFields DEF LoopStart
    <3> QED
      BY <1>5, <3>2 DEF LoopStart
  <2> QED
    <3>1. \A d \in Ends : loop'[d] \in {"push", "error"} =>
            loop[d] \in {"push", "error"} /\ cur'[d] = cur[d] /\ cur[d].id \in Ids
      BY <2>1 DEF Reads, TypeInv, TypeOK, CurInv
    <3>2. \A d \in Ends : streams'[d] \subseteq Ids
      BY <2>1 DEF Fresh, TypeInv, TypeOK
    <3> QED
      BY <2>1, <3>1, <3>2, FreshOpens DEF NoPanic
<1>6. CASE LoopUnknown(e)
  BY <1>1, <1>6 DEF LoopUnknown
<1>7. CASE LoopClose(e)
  BY <1>7 DEF LoopClose, CloseStreams, Reads, NoPanic, TypeInv, TypeOK
<1>8. CASE LoopError(e)
  BY <1>2, <1>8 DEF LoopError
<1>9. CASE LoopData(e)
  BY <1>2, <1>9 DEF LoopData
<1>10. CASE LoopPushRaw(e)
  BY <1>3, <1>10 DEF LoopPushRaw
<1>11. CASE LoopAccept(e)
  BY <1>3, <1>11 DEF LoopAccept
<1>12. CASE LoopReply(e)
  BY <1>3, <1>12 DEF LoopReply
<1>13. CASE LoopPush(e)
  BY <1>3, <1>13 DEF LoopPush
<1>14. CASE LoopPushError(e)
  BY <1>3, <1>14 DEF LoopPushError, TypeInv, TypeOK
<1>15. CASE LoopFail(e)
  BY <1>15 DEF LoopFail, CloseStreams, NoPanic, TypeInv, TypeOK
<1>16. CASE LoopExit(e)
  BY <1>16 DEF LoopExit, NoPanic, TypeInv, TypeOK
<1> QED
  BY <1>4, <1>5, <1>6, <1>7, <1>8, <1>9, <1>10, <1>11, <1>12, <1>13,
     <1>14, <1>15, <1>16 DEF Loop

LEMMA NoPanicNext == TypeInv /\ NoPanic /\ [Next]_vars => NoPanic'
<1> SUFFICES ASSUME TypeInv, NoPanic, [Next]_vars PROVE NoPanic'
  OBVIOUS
<1>1. CASE UNCHANGED panicVars
  BY <1>1 DEF NoPanic, panicVars
<1>2. CASE UNCHANGED vars
  BY <1>1, <1>2 DEF panicVars, vars, loopVars, streamVars
<1>3. ASSUME NEW e \in Ends,
             \/ StartAlloc(e) \/ WriteData(e) \/ RegisterHandler(e)
             \/ ConnCancel(e) \/ ConnClose(e) \/ Take(e)
      PROVE  NoPanic'
  BY <1>1, <1>3 DEF panicVars, loopVars, streamVars, StartAlloc, WriteData,
                    RegisterHandler, ConnCancel, ConnClose, Take,
                    AcceptStream, ReadData
<1>4. CASE Next
  BY <1>3, <1>4, NoPanicLoop, NoPanicCalls DEF Next, Decide
<1> QED
  BY <1>2, <1>4

\* The read loop never sends on a closed recvCh and never closes one twice,
\* whatever the applications close and in whatever order.
THEOREM NeverPanics == Spec => []NoPanic
<1>1. Init => NoPanic
  BY DEF Init, NoPanic
<1> QED
  BY <1>1, TypeInit, TypeNext, NoPanicNext, PTL DEF Spec

-----------------------------------------------------------------------------
(***************************************************************************)
(* Payloads.  One on its way to e on stream i is in one of three places:   *)
(* the stream's recvCh, the hands of the read loop, or the wire.  Ordered  *)
(* says of the three what InOrder says of their concatenation; it is       *)
(* stated of values, so that each step is an instance of one lemma below.  *)
(***************************************************************************)
IsData(f, i) == f.id = i /\ f.flag = "data"

Between(q, i, lo, hi) ==
  \A k \in DOMAIN q : IsData(q[k], i) => lo < q[k].seq /\ q[k].seq <= hi
Sorted(q, i) ==
  \A j, k \in DOMAIN q :
    j < k /\ IsData(q[j], i) /\ IsData(q[k], i) => q[j].seq < q[k].seq
Before(q, r, i) ==
  \A j \in DOMAIN q, k \in DOMAIN r :
    IsData(q[j], i) /\ IsData(r[k], i) => q[j].seq < r[k].seq

Ordered(rq, h, w, i, lo, hi) ==
  /\ Between(rq, i, lo, hi) /\ Between(h, i, lo, hi) /\ Between(w, i, lo, hi)
  /\ Sorted(rq, i) /\ Sorted(h, i) /\ Sorted(w, i)
  /\ Before(rq, h, i) /\ Before(rq, w, i) /\ Before(h, w, i)

-----------------------------------------------------------------------------
LEMMA TailElements ==
  ASSUME NEW q \in Seq(Frames), q # <<>>
  PROVE  /\ Tail(q) \in Seq(Frames)
         /\ DOMAIN q = 1 .. Len(q) /\ Len(q) \in Nat
         /\ DOMAIN Tail(q) = 1 .. (Len(q) - 1)
         /\ \A k \in DOMAIN Tail(q) :
              /\ k \in Nat /\ k + 1 \in DOMAIN q /\ Tail(q)[k] = q[k + 1]
              /\ q[k + 1] \in Frames
         /\ 1 \in DOMAIN q /\ Head(q) = q[1] /\ q[1] \in Frames
  OBVIOUS

LEMMA AppendElements ==
  ASSUME NEW q \in Seq(Frames), NEW x \in Frames
  PROVE  /\ Append(q, x) \in Seq(Frames)
         /\ DOMAIN q = 1 .. Len(q) /\ Len(q) \in Nat
         /\ DOMAIN Append(q, x) = 1 .. (Len(q) + 1)
         /\ \A k \in DOMAIN q : Append(q, x)[k] = q[k] /\ q[k] \in Frames
         /\ Append(q, x)[Len(q) + 1] = x
  OBVIOUS

LEMMA SeqNat == \A f \in Frames : f.seq \in Nat
  BY FrameFields

\* A frame is written: a payload of stream i is the next one.
LEMMA OrderedWrite ==
  ASSUME NEW rq \in Seq(Frames), NEW h \in Seq(Frames), NEW w \in Seq(Frames),
         NEW i, NEW lo \in Nat, NEW hi \in Nat, NEW hi2 \in Nat,
         NEW x \in Frames, lo <= hi,
         Ordered(rq, h, w, i, lo, hi),
         IF IsData(x, i) THEN x.seq = hi + 1 /\ hi2 = hi + 1 ELSE hi2 = hi
  PROVE  Ordered(rq, h, Append(w, x), i, lo, hi2)
<1> DEFINE v == Append(w, x)
<1>1. /\ DOMAIN w = 1 .. Len(w) /\ Len(w) \in Nat
      /\ DOMAIN v = 1 .. (Len(w) + 1)
      /\ \A k \in DOMAIN w : v[k] = w[k] /\ w[k] \in Frames
      /\ v[Len(w) + 1] = x
  BY AppendElements
<1>2. /\ \A k \in DOMAIN rq : rq[k] \in Frames
      /\ \A k \in DOMAIN h : h[k] \in Frames
  OBVIOUS
<1>3. hi <= hi2 /\ (IsData(x, i) => x.seq = hi2 /\ hi < x.seq /\ lo < x.seq)
  OBVIOUS
<1>4. \A k \in DOMAIN v : k \in DOMAIN w \/ k = Len(w) + 1
  BY <1>1
<1> HIDE DEF v
<1>5. Between(rq, i, lo, hi2) /\ Between(h, i, lo, hi2) /\ Between(w, i, lo, hi2)
  BY <1>1, <1>2, <1>3, SeqNat DEF Ordered, Between
<1>6. Between(v, i, lo, hi2)
  BY <1>1, <1>3, <1>4, <1>5, SeqNat DEF Between
<1>7. Sorted(v, i)
  <2> SUFFICES ASSUME NEW j \in DOMAIN v, NEW k \in DOMAIN v, j < k,
                      IsData(v[j], i), IsData(v[k], i)
               PROVE  v[j].seq < v[k].seq
    BY DEF Sorted
  <2>1. j \in DOMAIN w
    BY <1>1
  <2>2. CASE k \in DOMAIN w
    BY <1>1, <2>1, <2>2 DEF Ordered, Sorted
  <2>3. CASE k = Len(w) + 1
    <3>1. v[j].seq <= hi /\ v[j].seq \in Nat
      BY <1>1, <2>1, SeqNat DEF Ordered, Between
    <3>2. hi < v[k].seq /\ v[k].seq \in Nat
      BY <1>1, <1>3, <2>3, SeqNat
    <3> QED
      BY <3>1, <3>2
  <2> QED
    BY <1>4, <2>2, <2>3
<1>8. ASSUME NEW q \in Seq(Frames), Between(q, i, lo, hi), Before(q, w, i)
      PROVE  Before(q, v, i)
  <2> SUFFICES ASSUME NEW j \in DOMAIN q, NEW k \in DOMAIN v,
                      IsData(q[j], i), IsData(v[k], i)
               PROVE  q[j].seq < v[k].seq
    BY DEF Before
  <2>1. CASE k \in DOMAIN w
    BY <1>1, <1>8, <2>1 DEF Before
  <2>2. CASE k = Len(w) + 1
    <3>1. q[j] \in Frames
      OBVIOUS
    <3>2. q[j].seq <= hi /\ q[j].seq \in Nat
      BY <1>8, <3>1, SeqNat DEF Between
    <3>3. hi < v[k].seq /\ v[k].seq \in Nat
      BY <1>1, <1>3, <2>2, SeqNat
    <3> QED
      BY <3>2, <3>3
  <2> QED
    BY <1>4, <2>1, <2>2
<1>9. Before(rq, v, i) /\ Before(h, v, i)
  BY <1>8 DEF Ordered
<1> QED
  BY <1>5, <1>6, <1>7, <1>9 DEF Ordered, v

\* The loop reads a frame: it is in the loop's hands, ...
LEMMA OrderedRead ==
  ASSUME NEW rq \in Seq(Frames), NEW w \in Seq(Frames), w # <<>>,
         NEW i, NEW lo \in Nat, NEW hi \in Nat,
         Ordered(rq, <<>>, w, i, lo, hi)
  PROVE  /\ Ordered(rq, <<Head(w)>>, Tail(w), i, lo, hi)
         /\ Ordered(rq, <<>>, Tail(w), i, lo, hi)
<1> DEFINE v == Tail(w)  h == <<Head(w)>>
<1>1. /\ DOMAIN w = 1 .. Len(w) /\ Len(w) \in Nat
      /\ DOMAIN v = 1 .. (Len(w) - 1)
      /\ \A k \in DOMAIN v : k \in Nat /\ k + 1 \in DOMAIN w /\ v[k] = w[k + 1]
                             /\ w[k + 1] \in Frames
      /\ 1 \in DOMAIN w /\ Head(w) = w[1] /\ w[1] \in Frames
  BY TailElements
<1>2. DOMAIN h = {1} /\ h[1] = w[1]
  BY <1>1
<1>3. DOMAIN <<>> = {}
  OBVIOUS
<1> HIDE DEF v, h
<1>4. Between(v, i, lo, hi) /\ Between(h, i, lo, hi)
  BY <1>1, <1>2 DEF Ordered, Between
<1>5. Sorted(v, i) /\ Sorted(h, i)
  <2>1. \A j, k \in DOMAIN v : j < k => j + 1 < k + 1
    BY <1>1
  <2>2. Sorted(v, i)
    BY <1>1, <2>1 DEF Ordered, Sorted
  <2>3. \A j, k \in DOMAIN h : ~(j < k)
    BY <1>2
  <2> QED
    BY <2>2, <2>3 DEF Sorted
<1>6. Before(rq, v, i) /\ Before(rq, h, i)
  BY <1>1, <1>2 DEF Ordered, Before
<1>7. Before(h, v, i)
  <2> SUFFICES ASSUME NEW k \in DOMAIN v, IsData(h[1], i), IsData(v[k], i)
               PROVE  h[1].seq < v[k].seq
    BY <1>2 DEF Before
  <2>1. 1 < k + 1
    BY <1>1
  <2> QED
    BY <1>1, <1>2, <2>1 DEF Ordered, Sorted
<1>8. Before(<<>>, v, i) /\ Before(rq, <<>>, i)
  BY <1>3 DEF Before
<1> QED
  BY <1>4, <1>5, <1>6, <1>7, <1>8 DEF Ordered, v, h

\* ... and leaves them: given up, ...
LEMMA OrderedDrop ==
  ASSUME NEW rq, NEW h, NEW w, NEW i, NEW lo, NEW hi, Ordered(rq, h, w, i, lo, hi)
  PROVE  /\ Ordered(rq, <<>>, w, i, lo, hi)
         /\ Ordered(<<>>, h, w, i, lo, hi)
         /\ Ordered(rq, h, <<>>, i, lo, hi)
<1>1. DOMAIN <<>> = {}
  OBVIOUS
<1> QED
  BY <1>1 DEF Ordered, Between, Sorted, Before

\* ... or pushed.
LEMMA OrderedPush ==
  ASSUME NEW rq \in Seq(Frames), NEW x \in Frames, NEW w \in Seq(Frames),
         NEW i, NEW lo \in Nat, NEW hi \in Nat,
         Ordered(rq, <<x>>, w, i, lo, hi)
  PROVE  Ordered(Append(rq, x), <<>>, w, i, lo, hi)
<1> DEFINE v == Append(rq, x)  h == <<x>>
<1>1. /\ DOMAIN rq = 1 .. Len(rq) /\ Len(rq) \in Nat
      /\ DOMAIN v = 1 .. (Len(rq) + 1)
      /\ \A k \in DOMAIN rq : v[k] = rq[k] /\ rq[k] \in Frames
      /\ v[Len(rq) + 1] = x
  BY AppendElements
<1>2. DOMAIN h = {1} /\ h[1] = x /\ DOMAIN <<>> = {}
  OBVIOUS
<1>3. \A k \in DOMAIN v : k \in DOMAIN rq \/ k = Len(rq) + 1
  BY <1>1
<1> HIDE DEF v, h
<1>4. Between(v, i, lo, hi)
  BY <1>1, <1>2, <1>3 DEF Ordered, Between, h
<1>5. Sorted(v, i)
  BY <1>1, <1>2, <1>3 DEF Ordered, Sorted, Before, h
<1>6. Before(v, w, i)
  BY <1>1, <1>2, <1>3 DEF Ordered, Before, h
<1>7. /\ Between(<<>>, i, lo, hi) /\ Sorted(<<>>, i)
      /\ Before(v, <<>>, i) /\ Before(<<>>, w, i)
  BY <1>2 DEF Between, Sorted, Before
<1> QED
  BY <1>4, <1>5, <1>6, <1>7 DEF Ordered, v, h

\* Recv takes the head; of a payload it remembers the number.
LEMMA OrderedRecv ==
  ASSUME NEW rq \in Seq(Frames), NEW h \in Seq(Frames), NEW w \in Seq(Frames),
         rq # <<>>, NEW i, NEW lo \in Nat, NEW hi \in Nat, NEW lo2 \in Nat,
         Ordered(rq, h, w, i, lo, hi),
         IF IsData(Head(rq), i) THEN lo2 = Head(rq).seq ELSE lo2 <= lo
  PROVE  Ordered(Tail(rq), h, w, i, lo2, hi)
<1> DEFINE v == Tail(rq)
<1>1. /\ DOMAIN rq = 1 .. Len(rq) /\ Len(rq) \in Nat
      /\ DOMAIN v = 1 .. (Len(rq) - 1)
      /\ \A k \in DOMAIN v : k \in Nat /\ k + 1 \in DOMAIN rq /\ v[k] = rq[k + 1]
                             /\ rq[k + 1] \in Frames
      /\ 1 \in DOMAIN rq /\ Head(rq) = rq[1] /\ rq[1] \in Frames
  BY TailElements
<1>2. /\ \A k \in DOMAIN w : w[k] \in Frames
      /\ \A k \in DOMAIN h : h[k] \in Frames
  OBVIOUS
<1> HIDE DEF v
<1>3. Sorted(v, i) /\ Before(v, h, i) /\ Before(v, w, i)
  <2>1. \A j, k \in DOMAIN v : j < k => j + 1 < k + 1
    BY <1>1
  <2>2. Sorted(v, i)
    BY <1>1, <2>1 DEF Ordered, Sorted
  <2> QED
    BY <1>1, <2>2 DEF Ordered, Before
<1>4. CASE IsData(rq[1], i)
  <2>1. lo2 = rq[1].seq
    BY <1>1, <1>4
  <2>2. \A k \in DOMAIN v : IsData(v[k], i) => lo2 < v[k].seq
    <3> TAKE k \in DOMAIN v
    <3>1. 1 < k + 1
      BY <1>1
    <3> QED
      BY <1>1, <1>4, <2>1, <3>1 DEF Ordered, Sorted
  <2>3. Between(v, i, lo2, hi)
    BY <1>1, <2>2 DEF Ordered, Between
  <2>4. Between(h, i, lo2, hi) /\ Between(w, i, lo2, hi)
    BY <1>1, <1>4, <2>1 DEF Ordered, Between, Before
  <2> QED
    BY <1>3, <2>3, <2>4 DEF Ordered, v
<1>5. CASE ~IsData(rq[1], i)
  <2>1. lo2 <= lo
    BY <1>1, <1>5
  <2>2. Between(v, i, lo2, hi) /\ Between(h, i, lo2, hi) /\ Between(w, i, lo2, hi)
    BY <1>1, <1>2, <2>1, SeqNat DEF Ordered, Between
  <2> QED
    BY <1>3, <2>2 DEF Ordered, v
<1> QED
  BY <1>4, <1>5

-----------------------------------------------------------------------------
(* The invariant.  PlainInv: only payloads are numbered, and recvCh holds   *)
(* the frames of its own stream.                                           *)
IsPlain(f) == f.id # RawId /\ f.flag # "data" => f.seq = 0

PlainInv ==
  \A e \in Ends :
    /\ IsPlain(cur[e])
    /\ \A k \in DOMAIN wire[e] : IsPlain(wire[e][k])
    /\ \A i \in Ids : \A k \in DOMAIN recvCh[e][i] :
         recvCh[e][i][k].id = i /\ IsPlain(recvCh[e][i][k])

OrderInv ==
  \A e \in Ends : \A i \in Ids :
    /\ Ordered(recvCh[e][i], Hand(e, i), wire[e], i, rcvd[e][i], sent[Peer(e)][i])
    /\ rcvd[e][i] <= sent[Peer(e)][i]

LineInv == PlainInv /\ OrderInv

LEMMA LineTypes ==
  ASSUME TypeInv, NEW e \in Ends, NEW i \in Ids
  PROVE  /\ recvCh[e][i] \in Seq(Frames) /\ wire[e] \in Seq(Frames)
         /\ cur[e] \in Frames /\ Hand(e, i) \in Seq(Frames)
         /\ rcvd[e][i] \in Nat /\ sent[e][i] \in Nat /\ sent[Peer(e)][i] \in Nat
<1>1. Peer(e) \in Ends
  BY PeerInEnds
<1>2. /\ recvCh[e][i] \in Seq(Frames) /\ wire[e] \in Seq(Frames)
      /\ cur[e] \in Frames
      /\ rcvd[e][i] \in Nat /\ sent[e][i] \in Nat /\ sent[Peer(e)][i] \in Nat
  BY <1>1 DEF TypeInv, TypeOK
<1>3. Hand(e, i) \in Seq(Frames)
  BY <1>2 DEF Hand
<1> QED
  BY <1>2, <1>3

LEMMA LineInit == Init => LineInv
<1> SUFFICES ASSUME Init PROVE LineInv
  OBVIOUS
<1>1. \A e \in Ends : \A i \in Ids :
        /\ recvCh[e][i] = <<>> /\ Hand(e, i) = <<>> /\ wire[e] = <<>>
        /\ cur[e] = NoFrame /\ rcvd[e][i] = 0 /\ sent[Peer(e)][i] = 0
  BY PeerInEnds DEF Init, PerStream, Hand
<1>2. \A e \in Ends : wire[e] = <<>> /\ cur[e] = NoFrame
  BY DEF Init
<1>3. DOMAIN <<>> = {} /\ IsPlain(NoFrame)
  BY DEF IsPlain, NoFrame, Frame
<1>4. PlainInv
  BY <1>1, <1>2, <1>3 DEF PlainInv
<1>5. OrderInv
  BY <1>1, <1>3 DEF OrderInv, Ordered, Between, Sorted, Before
<1> QED
  BY <1>4, <1>5 DEF LineInv

\* A step that leaves the lines alone.
lineVars == <<recvCh, loop, cur, wire, rcvd, sent>>

LEMMA LineStutter ==
  ASSUME LineInv, UNCHANGED lineVars
  PROVE  LineInv'
  BY DEF LineInv, PlainInv, OrderInv, Hand, lineVars

\* One end writes a frame.
LEMMA LineWrite ==
  ASSUME TypeInv, LineInv, NEW e \in Ends, NEW f \in Frames, Write(e, f),
         UNCHANGED <<recvCh, rcvd>>,
         \A d \in Ends : \A j \in Ids : Hand(d, j)' = Hand(d, j),
         \A d \in Ends : IsPlain(cur'[d]),
         \/ f.flag # "data" /\ IsPlain(f) /\ UNCHANGED sent
         \/ \E i \in Ids : /\ f = Frame(i, "data", sent[e][i] + 1)
                           /\ sent' = [sent EXCEPT ![e][i] = @ + 1]
  PROVE  LineInv'
<1> DEFINE p == Peer(e)
<1>1. p \in Ends /\ p # e /\ \A d \in Ends : d = p \/ d = e
  BY PeerInEnds DEF Ends
<1>2. wire' = [wire EXCEPT ![p] = Append(wire[p], f)]
  BY DEF Write
<1>3. wire \in [Ends -> Seq(Frames)] /\ wire[p] \in Seq(Frames)
  BY <1>1 DEF TypeInv, TypeOK
<1>4. wire'[p] = Append(wire[p], f) /\ wire'[e] = wire[e]
  BY <1>1, <1>2, <1>3
<1>5. IsPlain(f)
  <2>1. ASSUME NEW i \in Ids, f = Frame(i, "data", sent[e][i] + 1) PROVE IsPlain(f)
    BY <2>1 DEF IsPlain, Frame
  <2> QED
    BY <2>1
<1>6. PlainInv'
  <2>1. \A k \in DOMAIN Append(wire[p], f) : IsPlain(Append(wire[p], f)[k])
    <3>1. \A k \in DOMAIN wire[p] : IsPlain(wire[p][k])
      BY <1>1 DEF LineInv, PlainInv
    <3>2. /\ DOMAIN wire[p] = 1 .. Len(wire[p]) /\ Len(wire[p]) \in Nat
          /\ DOMAIN Append(wire[p], f) = 1 .. (Len(wire[p]) + 1)
          /\ \A k \in DOMAIN wire[p] : Append(wire[p], f)[k] = wire[p][k]
          /\ Append(wire[p], f)[Len(wire[p]) + 1] = f
      BY <1>3, AppendElements
    <3> QED
      BY <1>5, <3>1, <3>2 DEF IsPlain
  <2>2. \A d \in Ends : \A k \in DOMAIN wire'[d] : IsPlain(wire'[d][k])
    BY <1>1, <1>4, <2>1 DEF LineInv, PlainInv
  <2> QED
    BY <2>2 DEF LineInv, PlainInv, IsPlain
<1>7. sent \in [Ends -> [Ids -> Nat]]
  BY DEF TypeInv, TypeOK
<1>8. \A j \in Ids : sent'[p][j] = sent[p][j]
  BY <1>1, <1>7
<1>9. \A j \in Ids : sent'[e][j] \in Nat /\
        IF IsData(f, j) THEN f.seq = sent[e][j] + 1 /\ sent'[e][j] = sent[e][j] + 1
                        ELSE sent'[e][j] = sent[e][j]
  <2> TAKE j \in Ids
  <2>1. CASE f.flag # "data" /\ UNCHANGED sent
    BY <1>7, <2>1 DEF IsData
  <2>2. ASSUME NEW i \in Ids, f = Frame(i, "data", sent[e][i] + 1),
               sent' = [sent EXCEPT ![e][i] = @ + 1]
        PROVE  sent'[e][j] \in Nat /\
               IF IsData(f, j) THEN f.seq = sent[e][j] + 1 /\ sent'[e][j] = sent[e][j] + 1
                               ELSE sent'[e][j] = sent[e][j]
    <3>1. f.id = i /\ f.flag = "data" /\ f.seq = sent[e][i] + 1
      BY <2>2 DEF Frame
    <3>2. sent'[e] = [sent[e] EXCEPT ![i] = sent[e][i] + 1]
      BY <1>7, <2>2
    <3>3. sent[e] \in [Ids -> Nat]
      BY <1>7
    <3>4. CASE j = i
      BY <3>1, <3>2, <3>3, <3>4 DEF IsData
    <3>5. CASE j # i
      BY <3>1, <3>2, <3>3, <3>5 DEF IsData
    <3> QED
      BY <3>4, <3>5
  <2> QED
    BY <2>1, <2>2
<1>10. Peer(p) = e /\ Peer(e) = p
  BY DEF Peer, Ends
<1>11. OrderInv'
  <2> SUFFICES ASSUME NEW d \in Ends, NEW j \in Ids
               PROVE  /\ Ordered(recvCh'[d][j], Hand(d, j)', wire'[d], j,
                                 rcvd'[d][j], sent'[Peer(d)][j])
                      /\ rcvd'[d][j] <= sent'[Peer(d)][j]
    BY DEF OrderInv
  <2>1. /\ Ordered(recvCh[d][j], Hand(d, j), wire[d], j, rcvd[d][j], sent[Peer(d)][j])
        /\ rcvd[d][j] <= sent[Peer(d)][j]
    BY DEF LineInv, OrderInv
  <2>2. /\ recvCh[d][j] \in Seq(Frames) /\ wire[d] \in Seq(Frames)
        /\ Hand(d, j) \in Seq(Frames)
        /\ rcvd[d][j] \in Nat /\ sent[Peer(d)][j] \in Nat
    BY LineTypes
  <2>3. CASE d = p
    <3>1. Ordered(recvCh[d][j], Hand(d, j), Append(wire[d], f), j, rcvd[d][j], sent'[e][j])
      BY <1>9, <1>10, <2>1, <2>2, <2>3, OrderedWrite
    <3>2. rcvd[d][j] <= sent'[e][j]
      BY <1>9, <1>10, <2>1, <2>2, <2>3
    <3> QED
      BY <1>4, <1>10, <2>3, <3>1, <3>2
  <2>4. CASE d = e
    BY <1>4, <1>8, <1>10, <2>1, <2>4
  <2> QED
    BY <1>1, <2>3, <2>4
<1> QED
  BY <1>6, <1>11 DEF LineInv

\* Everything else that moves a line moves it at one end.
LineAt(e) ==
  /\ IsPlain(cur[e])
  /\ \A k \in DOMAIN wire[e] : IsPlain(wire[e][k])
  /\ \A i \in Ids : \A k \in DOMAIN recvCh[e][i] :
       recvCh[e][i][k].id = i /\ IsPlain(recvCh[e][i][k])
  /\ \A i \in Ids :
       /\ Ordered(recvCh[e][i], Hand(e, i), wire[e], i, rcvd[e][i], sent[Peer(e)][i])
       /\ rcvd[e][i] <= sent[Peer(e)][i]

LEMMA LineAtEnds == LineInv <=> \A e \in Ends : LineAt(e)
  BY DEF LineInv, PlainInv, OrderInv, LineAt

Keeps(d) == /\ recvCh'[d] = recvCh[d] /\ wire'[d] = wire[d] /\ cur'[d] = cur[d]
            /\ loop'[d] = loop[d] /\ rcvd'[d] = rcvd[d]

LEMMA LineOne ==
  ASSUME LineInv, NEW e \in Ends, LineAt(e)', UNCHANGED sent,
         \A d \in Ends \ {e} : Keeps(d)
  PROVE  LineInv'
<1>1. ASSUME NEW d \in Ends \ {e} PROVE LineAt(d)'
  <2>1. LineAt(d)
    BY LineAtEnds
  <2>2. Keeps(d)
    OBVIOUS
  <2>3. \A i \in Ids : Hand(d, i)' = Hand(d, i)
    BY <2>2 DEF Keeps, Hand
  <2> QED
    BY <2>1, <2>2, <2>3 DEF LineAt, Keeps
<1>2. \A d \in Ends : LineAt(d)'
  BY <1>1
<1> QED
  BY <1>2 DEF LineInv, PlainInv, OrderInv, LineAt

\* The loop reads a frame that it keeps in its hands only to push it.
LEMMA LineReads ==
  ASSUME TypeInv, LineInv, NEW e \in Ends, NEW f, NEW l, Reads(e, f, l),
         UNCHANGED <<rcvd, sent>>,
         recvCh' \in [Ends -> [Ids -> Seq(Frames)]],
         \A d \in Ends \ {e} : recvCh'[d] = recvCh[d],
         \A i \in Ids : recvCh'[e][i] \in {recvCh[e][i], <<>>}
  PROVE  LineInv'
<1>1. LineAt(e)
  BY LineAtEnds
<1>2. /\ wire \in [Ends -> Seq(Frames)] /\ cur \in [Ends -> Frames]
      /\ loop \in [Ends -> {"read", "raw", "accept", "reply", "push", "error",
                           "failed", "done"}]
      /\ wire[e] # <<>> /\ f = Head(wire[e])
      /\ wire' = [wire EXCEPT ![e] = Tail(@)]
      /\ loop' = [loop EXCEPT ![e] = l]
      /\ cur' = [cur EXCEPT ![e] = IF l = "read" THEN NoFrame ELSE f]
      /\ loop[e] = "read"
  BY DEF TypeInv, TypeOK, Reads
<1>3. /\ wire'[e] = Tail(wire[e]) /\ wire[e] \in Seq(Frames)
      /\ cur'[e] = NoFrame \/ cur'[e] = f
      /\ loop'[e] = l
  BY <1>2
<1>4. \A d \in Ends \ {e} : Keeps(d)
  BY <1>2 DEF Keeps
<1>5. /\ \A k \in DOMAIN Tail(wire[e]) : k + 1 \in DOMAIN wire[e]
                                        /\ Tail(wire[e])[k] = wire[e][k + 1]
      /\ 1 \in DOMAIN wire[e] /\ f = wire[e][1]
  BY <1>2, <1>3, TailElements
<1>6. IsPlain(cur'[e]) /\ \A k \in DOMAIN wire'[e] : IsPlain(wire'[e][k])
  <2>1. IsPlain(NoFrame)
    BY DEF IsPlain, NoFrame, Frame
  <2> QED
    BY <1>1, <1>3, <1>5, <2>1 DEF LineAt
<1>7. ASSUME NEW i \in Ids
      PROVE  /\ Ordered(recvCh'[e][i], Hand(e, i)', wire'[e], i, rcvd'[e][i],
                        sent'[Peer(e)][i])
             /\ rcvd'[e][i] <= sent'[Peer(e)][i]
  <2> DEFINE lo == rcvd[e][i]  hi == sent[Peer(e)][i]
  <2>1. Hand(e, i) = <<>>
    BY <1>2 DEF Hand
  <2>2. /\ recvCh[e][i] \in Seq(Frames) /\ lo \in Nat /\ hi \in Nat
        /\ wire[e] \in Seq(Frames)
    BY LineTypes
  <2>3. Ordered(recvCh[e][i], <<>>, wire[e], i, lo, hi) /\ lo <= hi
    BY <1>1, <2>1 DEF LineAt
  <2>4. /\ Ordered(recvCh[e][i], <<f>>, Tail(wire[e]), i, lo, hi)
        /\ Ordered(recvCh[e][i], <<>>, Tail(wire[e]), i, lo, hi)
    BY <1>2, <2>2, <2>3, OrderedRead
  <2>5. Hand(e, i)' = <<>> \/ Hand(e, i)' = <<f>>
    BY <1>2, <1>3 DEF Hand
  <2>6. recvCh'[e][i] = recvCh[e][i] \/ recvCh'[e][i] = <<>>
    OBVIOUS
  <2>7. Ordered(recvCh'[e][i], Hand(e, i)', Tail(wire[e]), i, lo, hi)
    BY <2>4, <2>5, <2>6, OrderedDrop
  <2> QED
    BY <1>3, <2>3, <2>7
<1>8. \A i \in Ids : \A k \in DOMAIN recvCh'[e][i] :
        recvCh'[e][i][k].id = i /\ IsPlain(recvCh'[e][i][k])
  <2> TAKE i \in Ids
  <2>1. CASE recvCh'[e][i] = recvCh[e][i]
    BY <1>1, <2>1 DEF LineAt
  <2>2. CASE recvCh'[e][i] = <<>>
    BY <2>2
  <2> QED
    BY <2>1, <2>2
<1>9. LineAt(e)'
  BY <1>6, <1>7, <1>8 DEF LineAt, IsPlain
<1> QED
  BY <1>4, <1>9, LineOne

\* The loop is done with the frame: pushed, or given up.
LEMMA LinePush ==
  ASSUME TypeInv, LineInv, NEW e \in Ends, loop[e] \in {"push", "error"},
         Push(e, cur[e].id), Returns(e), UNCHANGED <<wire, rcvd, sent>>
  PROVE  LineInv'
<1> DEFINE c == cur[e]  n == cur[e].id
<1>1. LineAt(e)
  BY LineAtEnds
<1>2. /\ n \in Ids /\ c \in Frames
      /\ loop \in [Ends -> {"read", "raw", "accept", "reply", "push", "error",
                           "failed", "done"}]
      /\ cur \in [Ends -> Frames] /\ recvCh \in [Ends -> [Ids -> Seq(Frames)]]
  BY DEF TypeInv, TypeOK, CurInv
<1>3. /\ loop' = [loop EXCEPT ![e] = "read"] /\ cur' = [cur EXCEPT ![e] = NoFrame]
      /\ loop'[e] = "read" /\ cur'[e] = NoFrame
  BY <1>2 DEF Returns
<1>4. /\ \A d \in Ends \ {e} : recvCh'[d] = recvCh[d]
      /\ \A i \in Ids : \/ recvCh'[e][i] = recvCh[e][i]
                        \/ i = n /\ recvCh'[e][i] = Append(recvCh[e][i], c)
  <2>1. recvCh' = recvCh \/ recvCh' = [recvCh EXCEPT ![e][n] = Append(@, c)]
    BY DEF Push
  <2>2. CASE recvCh' = recvCh
    BY <2>2
  <2>3. CASE recvCh' = [recvCh EXCEPT ![e][n] = Append(@, c)]
    <3>1. \A d \in Ends \ {e} : recvCh'[d] = recvCh[d]
      BY <1>2, <2>3
    <3>2. recvCh'[e] = [recvCh[e] EXCEPT ![n] = Append(recvCh[e][n], c)]
      BY <1>2, <2>3
    <3>3. \A i \in Ids : \/ recvCh'[e][i] = recvCh[e][i]
                         \/ i = n /\ recvCh'[e][i] = Append(recvCh[e][i], c)
      BY <1>2, <3>2
    <3> QED
      BY <3>1, <3>3
  <2> QED
    BY <2>1, <2>2, <2>3
<1>5. \A d \in Ends \ {e} : Keeps(d)
  BY <1>2, <1>3, <1>4 DEF Keeps
<1>6. IsPlain(cur'[e]) /\ IsPlain(c)
  BY <1>1, <1>3 DEF LineAt, IsPlain, NoFrame, Frame
<1>7. ASSUME NEW i \in Ids
      PROVE  /\ Ordered(recvCh'[e][i], <<>>, wire[e], i, rcvd[e][i],
                        sent[Peer(e)][i])
             /\ \A k \in DOMAIN recvCh'[e][i] :
                  recvCh'[e][i][k].id = i /\ IsPlain(recvCh'[e][i][k])
  <2> DEFINE rq == recvCh[e][i]  lo == rcvd[e][i]  hi == sent[Peer(e)][i]
  <2>1. /\ Ordered(rq, Hand(e, i), wire[e], i, lo, hi)
        /\ \A k \in DOMAIN rq : rq[k].id = i /\ IsPlain(rq[k])
    BY <1>1 DEF LineAt
  <2>2. rq \in Seq(Frames) /\ wire[e] \in Seq(Frames) /\ lo \in Nat /\ hi \in Nat
    BY LineTypes
  <2>3. CASE recvCh'[e][i] = rq
    BY <2>1, <2>3, OrderedDrop
  <2>4. CASE i = n /\ recvCh'[e][i] = Append(rq, c)
    <3>1. \A k \in DOMAIN Append(rq, c) :
            Append(rq, c)[k].id = i /\ IsPlain(Append(rq, c)[k])
      <4>1. /\ DOMAIN rq = 1 .. Len(rq) /\ Len(rq) \in Nat
            /\ DOMAIN Append(rq, c) = 1 .. (Len(rq) + 1)
            /\ \A k \in DOMAIN rq : Append(rq, c)[k] = rq[k]
            /\ Append(rq, c)[Len(rq) + 1] = c
        BY <1>2, <2>2, AppendElements
      <4>2. \A k \in DOMAIN Append(rq, c) : k \in DOMAIN rq \/ k = Len(rq) + 1
        BY <4>1
      <4>3. c.id = i
        BY <2>4
      <4> HIDE DEF c, n, rq
      <4> QED
        BY <1>6, <2>1, <4>1, <4>2, <4>3
    <3>2. Ordered(rq, <<c>>, wire[e], i, lo, hi)
      BY <2>1, <2>4 DEF Hand
    <3>3. Ordered(Append(rq, c), <<>>, wire[e], i, lo, hi)
      BY <1>2, <2>2, <3>2, OrderedPush
    <3> QED
      BY <2>4, <3>1, <3>3
  <2> QED
    BY <1>4, <2>3, <2>4
<1>8. \A i \in Ids : Hand(e, i)' = <<>>
  BY <1>3 DEF Hand
<1>9. LineAt(e)'
  BY <1>1, <1>6, <1>7, <1>8 DEF LineAt, IsPlain
<1> QED
  BY <1>5, <1>9, LineOne

\* A new stream starts with an empty recvCh, an exit of the loop empties its
\* hands, and closing the connection empties the wire.
LEMMA LineDrop ==
  ASSUME TypeInv, LineInv, NEW e \in Ends, UNCHANGED <<cur, rcvd, sent>>,
         \A d \in Ends \ {e} : Keeps(d),
         wire'[e] \in {wire[e], <<>>},
         \A i \in Ids : recvCh'[e][i] \in {recvCh[e][i], <<>>},
         \A i \in Ids : Hand(e, i)' \in {Hand(e, i), <<>>}
  PROVE  LineInv'
<1>1. LineAt(e)
  BY LineAtEnds
<1>2. wire'[e] = wire[e] \/ wire'[e] = <<>>
  OBVIOUS
<1>3. \A k \in DOMAIN wire'[e] : IsPlain(wire'[e][k])
  <2>1. CASE wire'[e] = wire[e]
    BY <1>1, <2>1 DEF LineAt
  <2>2. CASE wire'[e] = <<>>
    BY <2>2
  <2> QED
    BY <1>2, <2>1, <2>2
<1>4. ASSUME NEW i \in Ids
      PROVE  /\ \A k \in DOMAIN recvCh'[e][i] :
                  recvCh'[e][i][k].id = i /\ IsPlain(recvCh'[e][i][k])
             /\ Ordered(recvCh'[e][i], Hand(e, i)', wire'[e], i, rcvd[e][i],
                        sent[Peer(e)][i])
             /\ rcvd[e][i] <= sent[Peer(e)][i]
  <2>1. /\ Ordered(recvCh[e][i], Hand(e, i), wire[e], i, rcvd[e][i], sent[Peer(e)][i])
        /\ rcvd[e][i] <= sent[Peer(e)][i]
    BY <1>1 DEF LineAt
  <2>2. CASE recvCh'[e][i] = recvCh[e][i]
    BY <1>1, <1>2, <2>1, <2>2, OrderedDrop DEF LineAt
  <2>3. CASE recvCh'[e][i] = <<>>
    <3>1. DOMAIN <<>> = {}
      OBVIOUS
    <3> QED
      BY <1>2, <2>1, <2>3, <3>1, OrderedDrop
  <2> QED
    BY <2>2, <2>3
<1>5. LineAt(e)'
  BY <1>1, <1>3, <1>4 DEF LineAt, IsPlain
<1> QED
  BY <1>5, LineOne

\* Recv takes the head of recvCh.
LEMMA LineRecv ==
  ASSUME TypeInv, LineInv, NEW e \in Ends, NEW n \in Ids, RecvFrame(e, n)
  PROVE  LineInv'
<1> DEFINE q == recvCh[e][n]  g == Head(recvCh[e][n])
<1>1. LineAt(e)
  BY LineAtEnds
<1>2. /\ recvCh \in [Ends -> [Ids -> Seq(Frames)]] /\ rcvd \in [Ends -> [Ids -> Nat]]
      /\ q \in Seq(Frames) /\ q # <<>>
      /\ recvCh' = [recvCh EXCEPT ![e][n] = Tail(@)]
      /\ rcvd' = [rcvd EXCEPT ![e][n] =
                    IF g.flag \in {"closewrite", "error"} THEN @ ELSE g.seq]
      /\ UNCHANGED <<wire, loop, cur, sent>>
  BY DEF RecvFrame, TypeInv, TypeOK, loopVars
<1>3. /\ \A d \in Ends \ {e} : recvCh'[d] = recvCh[d] /\ rcvd'[d] = rcvd[d]
      /\ recvCh'[e] = [recvCh[e] EXCEPT ![n] = Tail(q)]
      /\ rcvd'[e] = [rcvd[e] EXCEPT ![n] = IF g.flag \in {"closewrite", "error"}
                                           THEN rcvd[e][n] ELSE g.seq]
  BY <1>2
<1>4. /\ \A i \in Ids \ {n} : recvCh'[e][i] = recvCh[e][i] /\ rcvd'[e][i] = rcvd[e][i]
      /\ recvCh'[e][n] = Tail(q)
      /\ rcvd'[e][n] = IF g.flag \in {"closewrite", "error"} THEN rcvd[e][n] ELSE g.seq
  BY <1>2, <1>3
<1>5. \A d \in Ends \ {e} : Keeps(d)
  BY <1>2, <1>3 DEF Keeps
<1>6. /\ \A k \in DOMAIN Tail(q) : k + 1 \in DOMAIN q /\ Tail(q)[k] = q[k + 1]
      /\ 1 \in DOMAIN q /\ g = q[1] /\ g \in Frames
  BY <1>2, TailElements
<1>7. /\ g.id = n /\ IsPlain(g) /\ n # RawId
      /\ \A k \in DOMAIN Tail(q) : Tail(q)[k].id = n /\ IsPlain(Tail(q)[k])
  BY <1>1, <1>6, IdsAreNat DEF LineAt, RawId
<1>8. /\ Ordered(q, Hand(e, n), wire[e], n, rcvd[e][n], sent[Peer(e)][n])
      /\ rcvd[e][n] <= sent[Peer(e)][n]
  BY <1>1 DEF LineAt
<1>9. /\ wire[e] \in Seq(Frames) /\ Hand(e, n) \in Seq(Frames)
      /\ rcvd[e][n] \in Nat /\ sent[Peer(e)][n] \in Nat /\ g.seq \in Nat
  BY <1>6, LineTypes, SeqNat
<1>10. /\ rcvd'[e][n] \in Nat
       /\ IF IsData(g, n) THEN rcvd'[e][n] = g.seq ELSE rcvd'[e][n] <= rcvd[e][n]
  BY <1>4, <1>7, <1>9 DEF IsData, IsPlain
<1>11. Ordered(Tail(q), Hand(e, n), wire[e], n, rcvd'[e][n], sent[Peer(e)][n])
  <2> DEFINE lo2 == rcvd'[e][n]  lo == rcvd[e][n]  hi == sent[Peer(e)][n]
             h == Hand(e, n)  w == wire[e]
  <2>1. q \in Seq(Frames) /\ q # <<>> /\ h \in Seq(Frames) /\ w \in Seq(Frames)
        /\ lo \in Nat /\ hi \in Nat /\ lo2 \in Nat
    BY <1>2, <1>9, <1>10
  <2>2. Ordered(q, h, w, n, lo, hi)
    BY <1>8
  <2>3. IF IsData(Head(q), n) THEN lo2 = Head(q).seq ELSE lo2 <= lo
    BY <1>10
  <2> HIDE DEF q, h, w, lo, hi, lo2
  <2>4. Ordered(Tail(q), h, w, n, lo2, hi)
    BY <2>1, <2>2, <2>3, OrderedRecv
  <2> QED
    BY <2>4 DEF q, h, w, lo2, hi
<1>12. rcvd'[e][n] <= sent[Peer(e)][n]
  <2>1. CASE IsData(g, n)
    BY <1>6, <1>8, <1>10, <2>1 DEF Ordered, Between
  <2>2. CASE ~IsData(g, n)
    BY <1>8, <1>9, <1>10, <2>2
  <2> QED
    BY <2>1, <2>2
<1>13. \A i \in Ids : Hand(e, i)' = Hand(e, i)
  BY <1>2 DEF Hand
<1>14. ASSUME NEW i \in Ids
       PROVE  /\ Ordered(recvCh'[e][i], Hand(e, i)', wire'[e], i, rcvd'[e][i],
                         sent'[Peer(e)][i])
              /\ rcvd'[e][i] <= sent'[Peer(e)][i]
              /\ \A k \in DOMAIN recvCh'[e][i] :
                   recvCh'[e][i][k].id = i /\ IsPlain(recvCh'[e][i][k])
  <2>1. CASE i = n
    BY <1>2, <1>4, <1>7, <1>11, <1>12, <1>13, <2>1
  <2>2. CASE i # n
    BY <1>1, <1>2, <1>4, <1>13, <2>2 DEF LineAt
  <2> QED
    BY <2>1, <2>2
<1>15. LineAt(e)'
  BY <1>1, <1>2, <1>14 DEF LineAt, IsPlain
<1> QED
  BY <1>2, <1>5, <1>15, LineOne

-----------------------------------------------------------------------------
LEMMA LineCalls ==
  ASSUME TypeInv, LineInv, NEW e \in Ends, NEW i \in Ids,
         Proceed(e, i) \/ SendCheck(e, i) \/ CloseWrite(e, i)
           \/ CloseCancel(e, i) \/ Receive(e, i)
  PROVE  LineInv'
<1> USE DEF loopVars, streamVars, histVars, lineVars
<1>1. /\ \A flag \in Flags : Frame(i, flag, 0) \in Frames
      /\ Frame(i, "data", sent[e][i] + 1) \in Frames
  BY WrittenType
<1>2. \A d \in Ends : IsPlain(cur[d])
  BY DEF LineInv, PlainInv
<1>3. ASSUME NEW flag \in Flags \ {"data"}, Write(e, Frame(i, flag, 0)),
             UNCHANGED <<recvCh, rcvd, sent, loop, cur>>
      PROVE  LineInv'
  <2> DEFINE f == Frame(i, flag, 0)
  <2>1. f \in Frames /\ f.flag # "data" /\ IsPlain(f)
    BY <1>1 DEF Frame, IsPlain
  <2>2. \A d \in Ends : \A j \in Ids : Hand(d, j)' = Hand(d, j)
    BY <1>3 DEF Hand
  <2>3. \A d \in Ends : IsPlain(cur'[d])
    BY <1>2, <1>3
  <2> HIDE DEF f
  <2>4. Write(e, f)
    BY <1>3 DEF f
  <2> QED
    BY <1>3, <2>1, <2>2, <2>3, <2>4, LineWrite
<1>4. CASE StartRegister(e, i)
  <2>1. /\ recvCh' = [recvCh EXCEPT ![e][i] = <<>>]
        /\ UNCHANGED <<wire, loop, cur, rcvd, sent>>
        /\ recvCh \in [Ends -> [Ids -> Seq(Frames)]]
    BY <1>4 DEF StartRegister, Fresh, TypeInv, TypeOK
  <2>2. \A d \in Ends \ {e} : Keeps(d)
    BY <2>1 DEF Keeps
  <2>3. \A j \in Ids : recvCh'[e][j] \in {recvCh[e][j], <<>>}
    BY <2>1
  <2>4. \A j \in Ids : Hand(e, j)' \in {Hand(e, j), <<>>}
    BY <2>1 DEF Hand
  <2> QED
    BY <2>1, <2>2, <2>3, <2>4, LineDrop
<1>5. CASE StartWrite(e, i)
  BY <1>3, <1>5 DEF StartWrite, Flags
<1>6. CASE SendWrite(e, i)
  <2> DEFINE f == Frame(i, "data", sent[e][i] + 1)
  <2>1. /\ Write(e, f) /\ f \in Frames /\ UNCHANGED <<recvCh, rcvd, loop, cur>>
        /\ sent' = [sent EXCEPT ![e][i] = @ + 1]
    BY <1>1, <1>6 DEF SendWrite
  <2>2. \A d \in Ends : \A j \in Ids : Hand(d, j)' = Hand(d, j)
    BY <2>1 DEF Hand
  <2>3. \A d \in Ends : IsPlain(cur'[d])
    BY <1>2, <2>1
  <2>4. \E j \in Ids : /\ f = Frame(j, "data", sent[e][j] + 1)
                       /\ sent' = [sent EXCEPT ![e][j] = @ + 1]
    BY <2>1
  <2> HIDE DEF f
  <2> QED
    BY <2>1, <2>2, <2>3, <2>4, LineWrite
<1>7. CASE CloseWrite(e, i)
  BY <1>3, <1>7 DEF CloseWrite, Flags
<1>8. CASE CloseFrame(e, i)
  BY <1>3, <1>8 DEF CloseFrame, Flags
<1>9. CASE RecvFrame(e, i)
  BY <1>9, LineRecv
<1>10. CASE UNCHANGED lineVars
  BY <1>10, LineStutter
<1> QED
  BY <1>4, <1>5, <1>6, <1>7, <1>8, <1>9, <1>10
  DEF Proceed, Receive, StartFail, SendCheck, SendFail, CloseCancel,
      CloseFrameLost, CloseRemove, RecvEnd

LEMMA LineLoop ==
  ASSUME TypeInv, LineInv, NEW e \in Ends, Loop(e)
  PROVE  LineInv'
<1> USE DEF loopVars, streamVars, histVars, lineVars
<1>1. recvCh \in [Ends -> [Ids -> Seq(Frames)]]
  BY DEF TypeInv, TypeOK
<1>2. ASSUME NEW f, NEW l, Reads(e, f, l), UNCHANGED <<recvCh, rcvd, sent>>
      PROVE  LineInv'
  BY <1>1, <1>2, LineReads
<1>3. ASSUME Returns(e), loop[e] \in {"raw", "accept", "reply"},
             UNCHANGED <<recvCh, rcvd, sent, wire>>
      PROVE  LineInv'
  <2>1. LineAt(e)
    BY LineAtEnds
  <2>2. /\ cur'[e] = NoFrame /\ \A d \in Ends \ {e} : Keeps(d)
        /\ loop'[e] = "read"
    BY <1>3 DEF Returns, Keeps, TypeInv, TypeOK
  <2>3. \A i \in Ids : Hand(e, i)' = Hand(e, i)
    BY <1>3, <2>2 DEF Hand
  <2>4. LineAt(e)'
    BY <1>3, <2>1, <2>2, <2>3 DEF LineAt, IsPlain, NoFrame, Frame
  <2> QED
    BY <1>3, <2>2, <2>4, LineOne
<1>4. CASE LoopRaw(e)
  BY <1>2, <1>4 DEF LoopRaw
<1>5. CASE LoopStart(e)
  <2>1. PICK f, l : /\ f \in Frames /\ f.id # RawId
                    /\ Reads(e, f, l) /\ Fresh(e, f.id) /\ UNCHANGED <<rcvd, sent>>
    <3>1. wire[e] \in Seq(Frames) /\ wire[e] # <<>>
      BY <1>5 DEF LoopStart, TypeInv, TypeOK
    <3> QED
      BY <1>5, <3>1, TakeType DEF LoopStart
  <2>2. f.id \in Ids
    BY <2>1, FrameFields
  <2>3. recvCh' = [recvCh EXCEPT ![e][f.id] = <<>>]
    BY <2>1 DEF Fresh
  <2>4. <<>> \in Seq(Frames)
    OBVIOUS
  <2>5. /\ recvCh' \in [Ends -> [Ids -> Seq(Frames)]]
        /\ \A d \in Ends \ {e} : recvCh'[d] = recvCh[d]
        /\ \A i \in Ids : recvCh'[e][i] \in {recvCh[e][i], <<>>}
    BY <1>1, <2>2, <2>3, <2>4
  <2> QED
    BY <2>1, <2>5, LineReads
<1>6. CASE LoopUnknown(e)
  BY <1>2, <1>6 DEF LoopUnknown
<1>7. CASE LoopClose(e)
  BY <1>2, <1>7 DEF LoopClose
<1>8. CASE LoopError(e)
  BY <1>2, <1>8 DEF LoopError
<1>9. CASE LoopData(e)
  BY <1>2, <1>9 DEF LoopData
<1>10. CASE LoopPushRaw(e)
  BY <1>3, <1>10 DEF LoopPushRaw
<1>11. CASE LoopAccept(e)
  BY <1>3, <1>11 DEF LoopAccept
<1>12. CASE LoopReply(e)
  <2> DEFINE f == Frame(cur[e].id, "error", 0)
  <2>1. /\ loop[e] = "reply" /\ Returns(e) /\ UNCHANGED <<recvCh, rcvd, sent>>
        /\ Write(e, f) \/ UNCHANGED wire
    BY <1>12 DEF LoopReply
  <2>2. CASE UNCHANGED wire
    BY <1>3, <2>1, <2>2
  <2>3. CASE Write(e, f)
    <3>1. cur[e].id \in Ids
      BY <2>1 DEF TypeInv, CurInv
    <3>2. f \in Frames /\ f.flag # "data" /\ IsPlain(f)
      BY <3>1, WrittenType DEF Flags, Frame, IsPlain
    <3>3. /\ loop' = [loop EXCEPT ![e] = "read"] /\ cur' = [cur EXCEPT ![e] = NoFrame]
          /\ loop \in [Ends -> {"read", "raw", "accept", "reply", "push", "error",
                               "failed", "done"}]
          /\ cur \in [Ends -> Frames]
      BY <2>1 DEF Returns, TypeInv, TypeOK
    <3>4. \A d \in Ends : \A j \in Ids : Hand(d, j)' = Hand(d, j)
      BY <2>1, <3>3 DEF Hand
    <3>5. \A d \in Ends : IsPlain(cur'[d])
      BY <3>3 DEF LineInv, PlainInv, IsPlain, NoFrame, Frame
    <3> HIDE DEF f
    <3> QED
      BY <2>1, <2>3, <3>2, <3>4, <3>5, LineWrite
  <2> QED
    BY <2>1, <2>2, <2>3
<1>13. CASE LoopPush(e)
  BY <1>13, LinePush DEF LoopPush
<1>14. CASE LoopPushError(e)
  BY <1>14, LinePush DEF LoopPushError
<1>15. CASE LoopFail(e) \/ LoopExit(e)
  <2>1. /\ loop' = [loop EXCEPT ![e] = loop'[e]] /\ loop'[e] \in {"failed", "done"}
        /\ UNCHANGED <<recvCh, rcvd, sent, wire, cur>>
    BY <1>15 DEF LoopFail, LoopExit, TypeInv, TypeOK
  <2>2. \A d \in Ends \ {e} : Keeps(d)
    BY <2>1 DEF Keeps, TypeInv, TypeOK
  <2>3. \A i \in Ids : Hand(e, i)' = <<>>
    BY <2>1 DEF Hand
  <2> QED
    BY <2>1, <2>2, <2>3, LineDrop
<1> QED
  BY <1>4, <1>5, <1>6, <1>7, <1>8, <1>9, <1>10, <1>11, <1>12, <1>13,
     <1>14, <1>15 DEF Loop

LEMMA LineNext == TypeInv /\ LineInv /\ [Next]_vars => LineInv'
<1> SUFFICES ASSUME TypeInv, LineInv, [Next]_vars PROVE LineInv'
  OBVIOUS
<1> USE DEF loopVars, streamVars, histVars, lineVars
<1>1. CASE UNCHANGED lineVars
  BY <1>1, LineStutter
<1>2. ASSUME NEW e \in Ends, WriteData(e)
      PROVE  LineInv'
  <2> DEFINE f == Frame(RawId, "raw", rawSent[e] + 1)
  <2>1. /\ Write(e, f) /\ UNCHANGED <<recvCh, rcvd, sent, loop, cur>>
    BY <1>2 DEF WriteData
  <2>2. rawSent[e] + 1 \in Nat
    BY DEF TypeInv, TypeOK
  <2>3. f \in Frames /\ f.flag # "data" /\ IsPlain(f)
    BY <2>2, FrameType DEF Flags, Frame, IsPlain
  <2>4. \A d \in Ends : \A j \in Ids : Hand(d, j)' = Hand(d, j)
    BY <2>1 DEF Hand
  <2>5. \A d \in Ends : IsPlain(cur'[d])
    BY <2>1 DEF LineInv, PlainInv
  <2> HIDE DEF f
  <2> QED
    BY <2>1, <2>3, <2>4, <2>5, LineWrite
<1>3. ASSUME NEW e \in Ends, ConnClose(e), Released(e)
      PROVE  LineInv'
  <2>1. /\ wire' = [wire EXCEPT ![e] = <<>>] /\ wire \in [Ends -> Seq(Frames)]
        /\ UNCHANGED <<recvCh, rcvd, sent, loop, cur>>
    BY <1>3 DEF ConnClose, Released, TypeInv, TypeOK
  <2>2. \A d \in Ends \ {e} : Keeps(d)
    BY <2>1 DEF Keeps
  <2>3. wire'[e] = <<>>
    BY <2>1
  <2>4. \A i \in Ids : Hand(e, i)' = Hand(e, i) /\ recvCh'[e][i] = recvCh[e][i]
    BY <2>1 DEF Hand
  <2> QED
    BY <2>1, <2>2, <2>3, <2>4, LineDrop
<1>4. ASSUME NEW e \in Ends,
             StartAlloc(e) \/ RegisterHandler(e) \/ ConnCancel(e) \/ Take(e)
      PROVE  LineInv'
  BY <1>1, <1>4 DEF StartAlloc, RegisterHandler, ConnCancel, Take, AcceptStream,
                    ReadData
<1>5. CASE UNCHANGED vars
  BY <1>1, <1>5 DEF vars
<1>7. ASSUME NEW e \in Ends, ConnClose(e), ~Released(e)
      PROVE  LineInv'
  BY <1>1, <1>7 DEF ConnClose
<1>6. CASE Next
  BY <1>2, <1>3, <1>4, <1>6, <1>7, LineLoop, LineCalls DEF Next, Decide
<1> QED
  BY <1>5, <1>6

-----------------------------------------------------------------------------
\* What Ordered says of the parts holds of their concatenation.
LEMMA OrderedJoin ==
  ASSUME NEW p \in Seq(Frames), NEW q \in Seq(Frames), NEW i, NEW lo, NEW hi,
         Between(p, i, lo, hi), Between(q, i, lo, hi),
         Sorted(p, i), Sorted(q, i), Before(p, q, i)
  PROVE  Between(p \o q, i, lo, hi) /\ Sorted(p \o q, i)
<1> DEFINE c == p \o q
<1>1. /\ DOMAIN p = 1 .. Len(p) /\ DOMAIN q = 1 .. Len(q)
      /\ Len(p) \in Nat /\ Len(q) \in Nat
      /\ DOMAIN c = 1 .. (Len(p) + Len(q))
      /\ \A k \in DOMAIN p : c[k] = p[k]
      /\ \A k \in DOMAIN c \ DOMAIN p : k - Len(p) \in DOMAIN q /\ c[k] = q[k - Len(p)]
  BY ConcatProperties
<1>2. \A j, k \in DOMAIN c : j < k /\ k \in DOMAIN p => j \in DOMAIN p
  BY <1>1
<1>3. \A j, k \in DOMAIN c \ DOMAIN p : j < k => j - Len(p) < k - Len(p)
  BY <1>1
<1> HIDE DEF c
<1>4. Between(c, i, lo, hi)
  BY <1>1 DEF Between
<1>5. Sorted(c, i)
  <2> SUFFICES ASSUME NEW j \in DOMAIN c, NEW k \in DOMAIN c, j < k,
                      IsData(c[j], i), IsData(c[k], i)
               PROVE  c[j].seq < c[k].seq
    BY DEF Sorted
  <2>1. CASE k \in DOMAIN p
    BY <1>1, <1>2, <2>1 DEF Sorted
  <2>2. CASE k \notin DOMAIN p /\ j \in DOMAIN p
    BY <1>1, <2>2 DEF Before
  <2>3. CASE k \notin DOMAIN p /\ j \notin DOMAIN p
    BY <1>1, <1>3, <2>3 DEF Sorted
  <2> QED
    BY <2>1, <2>2, <2>3
<1> QED
  BY <1>4, <1>5 DEF c

LEMMA BeforeJoin ==
  ASSUME NEW p \in Seq(Frames), NEW q \in Seq(Frames), NEW r, NEW i,
         Before(p, r, i), Before(q, r, i)
  PROVE  Before(p \o q, r, i)
<1>1. /\ DOMAIN p = 1 .. Len(p) /\ DOMAIN q = 1 .. Len(q)
      /\ Len(p) \in Nat /\ Len(q) \in Nat
      /\ DOMAIN (p \o q) = 1 .. (Len(p) + Len(q))
      /\ \A k \in DOMAIN p : (p \o q)[k] = p[k]
      /\ \A k \in DOMAIN (p \o q) \ DOMAIN p :
           k - Len(p) \in DOMAIN q /\ (p \o q)[k] = q[k - Len(p)]
  BY ConcatProperties
<1> QED
  BY <1>1 DEF Before

LEMMA OrderImplied == TypeInv /\ LineInv => InOrder
<1> SUFFICES ASSUME TypeInv, LineInv, NEW e \in Ends, NEW i \in Ids
             PROVE  \A k \in DataOf(i, Line(e, i)) :
                      /\ rcvd[e][i] < Line(e, i)[k].seq
                      /\ Line(e, i)[k].seq <= sent[Peer(e)][i]
                      /\ \A j \in DataOf(i, Line(e, i)) :
                           j < k => Line(e, i)[j].seq < Line(e, i)[k].seq
  BY DEF InOrder
<1> DEFINE rq == recvCh[e][i]  h == Hand(e, i)  w == wire[e]
           lo == rcvd[e][i]  hi == sent[Peer(e)][i]
<1>1. rq \in Seq(Frames) /\ h \in Seq(Frames) /\ w \in Seq(Frames)
  BY LineTypes
<1>2. Ordered(rq, h, w, i, lo, hi)
  BY DEF LineInv, OrderInv
<1>3. Line(e, i) = (rq \o h) \o w
  BY DEF Line
<1> HIDE DEF rq, h, w
<1>4. Between(rq \o h, i, lo, hi) /\ Sorted(rq \o h, i)
  BY <1>1, <1>2, OrderedJoin DEF Ordered
<1>5. Before(rq \o h, w, i) /\ rq \o h \in Seq(Frames)
  BY <1>1, <1>2, BeforeJoin, ConcatProperties DEF Ordered
<1>6. Between((rq \o h) \o w, i, lo, hi) /\ Sorted((rq \o h) \o w, i)
  BY <1>1, <1>2, <1>4, <1>5, OrderedJoin DEF Ordered
<1> QED
  BY <1>3, <1>6 DEF DataOf, Between, Sorted, IsData

\* A stream hands its payloads over in the order of the Sends, none twice and
\* none that was not sent, however many streams, ends, closes, lost writes and
\* failed reads there are, and whatever the capacities.
THEOREM PayloadsInOrder == Spec => []InOrder
<1>1. LineInv /\ TypeInv => InOrder
  BY OrderImplied
<1> QED
  BY <1>1, TypeInit, TypeNext, LineInit, LineNext, PTL DEF Spec

-----------------------------------------------------------------------------
(***************************************************************************)
(* Raw messages.  RawUpTo says that the raw frames of a wire are numbered  *)
(* lo + 1 up to hi, in this order; RawAt says it of the three places from  *)
(* which a raw message is taken.                                           *)
(***************************************************************************)
RawUpTo(q, lo, hi) ==
  /\ \A k \in RawOf(q) : q[k].seq \in (lo + 1) .. hi
  /\ \A n \in (lo + 1) .. hi : \E k \in RawOf(q) : q[k].seq = n
  /\ \A j, k \in RawOf(q) : j < k => q[j].seq < q[k].seq

\* rawMsgCh c, of which lo is the last number taken, the loop's hands, the wire.
RawAt(c, h, w, lo, hi) ==
  LET mid == lo + Len(c) IN
  /\ \A k \in DOMAIN c : c[k] = lo + k
  /\ \/ h = <<>> /\ mid <= hi /\ RawUpTo(w, mid, hi)
     \/ /\ h # <<>> /\ h[1].id = RawId /\ h[1].seq = mid + 1
        /\ mid + 1 <= hi /\ RawUpTo(w, mid + 1, hi)

Runs(e) == conn[e] # "closed" /\ ~ReadLoopErr(e)
RawHere(e) == RawAt(rawMsgCh[e], RawHand(e), wire[e], rawRcvd[e], rawSent[Peer(e)])
RawInv == \A e \in Ends : Runs(e) => RawHere(e)

\* A frame is written: a raw one is the next.
LEMMA RawWritten ==
  ASSUME NEW q \in Seq(Frames), NEW x \in Frames,
         NEW lo \in Nat, NEW hi \in Nat, NEW hi2 \in Nat,
         lo <= hi, RawUpTo(q, lo, hi),
         IF x.id = RawId THEN x.seq = hi + 1 /\ hi2 = hi + 1 ELSE hi2 = hi
  PROVE  lo <= hi2 /\ RawUpTo(Append(q, x), lo, hi2)
<1> DEFINE v == Append(q, x)
<1>1. /\ DOMAIN q = 1 .. Len(q) /\ Len(q) \in Nat
      /\ DOMAIN v = 1 .. (Len(q) + 1)
      /\ \A k \in DOMAIN q : v[k] = q[k] /\ q[k] \in Frames
      /\ v[Len(q) + 1] = x
  BY AppendElements
<1>2. \A k \in DOMAIN v : k \in DOMAIN q \/ k = Len(q) + 1
  BY <1>1
<1>3. RawOf(q) \subseteq DOMAIN q
  BY DEF RawOf
<1> HIDE DEF v
<1>4. \A k \in RawOf(q) : k \in RawOf(v) /\ v[k] = q[k] /\ q[k].seq \in (lo + 1) .. hi
  BY <1>1, <1>3 DEF RawOf, RawUpTo
<1>5. CASE x.id = RawId
  <2>1. \A k : k \in RawOf(v) <=> k \in RawOf(q) \/ k = Len(q) + 1
    BY <1>1, <1>2, <1>5 DEF RawOf
  <2>2. /\ x.seq = hi + 1 /\ hi2 = hi + 1 /\ v[Len(q) + 1] = x
        /\ \A n : n \in (lo + 1) .. hi2 <=> n \in (lo + 1) .. hi \/ n = hi + 1
    BY <1>1, <1>5
  <2>3. \A k \in RawOf(v) : v[k].seq \in (lo + 1) .. hi2
    BY <1>4, <2>1, <2>2
  <2>5. \A n \in (lo + 1) .. hi2 : \E k \in RawOf(v) : v[k].seq = n
    BY <1>4, <2>1, <2>2 DEF RawUpTo
  <2>4. \A j, k \in RawOf(v) : j < k => v[j].seq < v[k].seq
    <3> SUFFICES ASSUME NEW j \in RawOf(v), NEW k \in RawOf(v), j < k
                 PROVE  v[j].seq < v[k].seq
      OBVIOUS
    <3>1. j \in RawOf(q)
      BY <1>1, <1>3, <2>1
    <3>2. CASE k \in RawOf(q)
      BY <1>4, <3>1, <3>2 DEF RawUpTo
    <3>3. CASE k = Len(q) + 1
      <4>1. v[j].seq \in (lo + 1) .. hi /\ v[k].seq = hi + 1
        BY <1>4, <2>2, <3>1, <3>3
      <4> QED
        BY <4>1
    <3> QED
      BY <2>1, <3>2, <3>3
  <2> QED
    <3>1. RawUpTo(v, lo, hi2)
      BY <2>3, <2>4, <2>5 DEF RawUpTo
    <3>2. lo <= hi2
      BY <2>2
    <3> QED
      BY <3>1, <3>2 DEF v
<1>6. CASE x.id # RawId
  <2>1. RawOf(v) = RawOf(q)
    BY <1>1, <1>2, <1>6 DEF RawOf
  <2>2. \A k \in RawOf(v) : v[k] = q[k]
    BY <1>4, <2>1
  <2>3. \A j, k \in RawOf(v) : j < k => v[j].seq < v[k].seq
    BY <1>4, <2>1 DEF RawUpTo
  <2>4. RawUpTo(v, lo, hi)
    BY <2>1, <2>2, <2>3 DEF RawUpTo
  <2> QED
    BY <1>6, <2>4 DEF v
<1> QED
  BY <1>5, <1>6

\* A frame is read: a raw one is the first number that has not been.
LEMMA RawRead ==
  ASSUME NEW q \in Seq(Frames), q # <<>>, NEW lo \in Nat, NEW hi \in Nat,
         RawUpTo(q, lo, hi)
  PROVE  IF Head(q).id = RawId
           THEN /\ Head(q).seq = lo + 1 /\ lo + 1 <= hi
                /\ RawUpTo(Tail(q), lo + 1, hi)
           ELSE RawUpTo(Tail(q), lo, hi)
<1> DEFINE v == Tail(q)
<1>1. /\ DOMAIN q = 1 .. Len(q) /\ Len(q) \in Nat
      /\ DOMAIN v = 1 .. (Len(q) - 1)
      /\ \A k \in DOMAIN v : k \in Nat /\ k + 1 \in DOMAIN q /\ v[k] = q[k + 1]
                             /\ q[k + 1] \in Frames
      /\ 1 \in DOMAIN q /\ Head(q) = q[1] /\ q[1] \in Frames
  BY TailElements
<1>2. \A k \in DOMAIN q : k = 1 \/ k - 1 \in DOMAIN v
  BY <1>1
<1>3. RawOf(q) \subseteq DOMAIN q /\ RawOf(v) \subseteq DOMAIN v
  BY DEF RawOf
<1> HIDE DEF v
<1>4. \A k \in RawOf(q) : q[k].seq \in (lo + 1) .. hi
  BY DEF RawUpTo
<1>5. \A k \in RawOf(v) : k \in Nat /\ k + 1 \in RawOf(q) /\ v[k] = q[k + 1]
  BY <1>1, <1>3 DEF RawOf
<1>6. \A k \in RawOf(q) : k = 1 \/ (k - 1 \in RawOf(v) /\ v[k - 1] = q[k])
  <2> SUFFICES ASSUME NEW k \in RawOf(q), k # 1
               PROVE  k - 1 \in RawOf(v) /\ v[k - 1] = q[k]
    OBVIOUS
  <2>1. k - 1 \in DOMAIN v /\ (k - 1) + 1 = k
    BY <1>1, <1>2, <1>3
  <2> QED
    BY <1>1, <2>1 DEF RawOf
<1>7. \A j, k \in RawOf(v) : j < k => v[j].seq < v[k].seq
  <2>1. \A j, k \in RawOf(v) : j < k => j + 1 < k + 1
    BY <1>5
  <2> QED
    BY <1>5, <2>1 DEF RawUpTo
<1>8. CASE q[1].id = RawId
  <2>1. 1 \in RawOf(q)
    BY <1>1, <1>8 DEF RawOf
  <2>2. \A k \in RawOf(v) : q[1].seq < v[k].seq /\ v[k].seq \in (lo + 1) .. hi
    <3>1. \A k \in RawOf(v) : 1 < k + 1
      BY <1>1, <1>3
    <3> QED
      BY <1>4, <1>5, <2>1, <3>1 DEF RawUpTo
  <2>3. q[1].seq \in (lo + 1) .. hi
    BY <1>4, <2>1
  <2>4. \A n \in (lo + 1) .. hi : n = q[1].seq \/ \E k \in RawOf(v) : v[k].seq = n
    BY <1>6 DEF RawUpTo
  <2>5. q[1].seq = lo + 1
    <3>1. lo + 1 \in (lo + 1) .. hi
      BY <2>3
    <3> QED
      BY <2>2, <2>3, <2>4, <3>1
  <2>6. RawUpTo(v, lo + 1, hi)
    <3>1. \A n \in (lo + 1 + 1) .. hi : \E k \in RawOf(v) : v[k].seq = n
      BY <2>4, <2>5
    <3>2. \A k \in RawOf(v) : v[k].seq \in (lo + 1 + 1) .. hi
      BY <2>2, <2>5
    <3> QED
      BY <1>7, <3>1, <3>2 DEF RawUpTo
  <2>7. lo + 1 <= hi
    BY <2>3
  <2> QED
    BY <1>1, <1>8, <2>5, <2>6, <2>7 DEF v
<1>9. CASE q[1].id # RawId
  <2>1. 1 \notin RawOf(q)
    BY <1>9 DEF RawOf
  <2>2. /\ \A k \in RawOf(v) : v[k].seq \in (lo + 1) .. hi
        /\ \A n \in (lo + 1) .. hi : \E k \in RawOf(q) : q[k].seq = n
    BY <1>4, <1>5 DEF RawUpTo
  <2>3. \A n \in (lo + 1) .. hi : \E k \in RawOf(v) : v[k].seq = n
    BY <1>6, <2>1, <2>2
  <2>4. RawUpTo(v, lo, hi)
    BY <1>7, <2>2, <2>3 DEF RawUpTo
  <2> QED
    BY <1>1, <1>9, <2>4 DEF v
<1> QED
  BY <1>8, <1>9

\* What a step may do to the raw messages on their way to an end.
KeepsRaw(d) ==
  UNCHANGED <<rawMsgCh[d], rawRcvd[d], wire[d], rawSent[Peer(d)], RawHand(d)>>
GetsFrame(d) ==
  \E f \in Frames :
    /\ wire'[d] = Append(wire[d], f)
    /\ IF f.id = RawId
         THEN f.seq = rawSent[Peer(d)] + 1 /\ rawSent'[Peer(d)] = rawSent[Peer(d)] + 1
         ELSE UNCHANGED rawSent[Peer(d)]
    /\ UNCHANGED <<rawMsgCh[d], rawRcvd[d], RawHand(d)>>
ReadsFrame(d) ==
  /\ wire[d] # <<>> /\ wire'[d] = Tail(wire[d])
  /\ RawHand(d) = <<>>
  /\ RawHand(d)' = IF Head(wire[d]).id = RawId THEN <<Head(wire[d])>> ELSE <<>>
  /\ UNCHANGED <<rawMsgCh[d], rawRcvd[d], rawSent[Peer(d)]>>
PushesRaw(d) ==
  /\ RawHand(d) = <<cur[d]>> /\ RawHand(d)' = <<>>
  /\ rawMsgCh'[d] = Append(rawMsgCh[d], cur[d].seq)
  /\ UNCHANGED <<rawRcvd[d], wire[d], rawSent[Peer(d)]>>
TakesRaw(d) ==
  /\ rawMsgCh[d] # <<>> /\ rawMsgCh'[d] = Tail(rawMsgCh[d])
  /\ rawRcvd'[d] = Head(rawMsgCh[d])
  /\ UNCHANGED <<wire[d], rawSent[Peer(d)], RawHand(d)>>
RawMove(d) ==
  /\ Runs(d)' => Runs(d)
  /\ \/ ~Runs(d)' \/ KeepsRaw(d) \/ GetsFrame(d) \/ ReadsFrame(d)
     \/ PushesRaw(d) \/ TakesRaw(d)

LEMMA RawTypes ==
  ASSUME TypeInv, NEW d \in Ends
  PROVE  /\ rawMsgCh[d] \in Seq(Nat) /\ wire[d] \in Seq(Frames) /\ cur[d] \in Frames
         /\ rawRcvd[d] \in Nat /\ rawSent[d] \in Nat
         /\ Peer(d) \in Ends /\ rawSent[Peer(d)] \in Nat
         /\ Len(rawMsgCh[d]) \in Nat
<1>1. Peer(d) \in Ends
  BY PeerInEnds
<1> QED
  BY <1>1 DEF TypeInv, TypeOK

LEMMA RawKept ==
  ASSUME TypeInv, TypeInv', NEW d \in Ends, RawMove(d), Runs(d) => RawHere(d), Runs(d)'
  PROVE  RawHere(d)'
<1> DEFINE c == rawMsgCh[d]  h == RawHand(d)  w == wire[d]  lo == rawRcvd[d]
           hi == rawSent[Peer(d)]
<1>1. RawAt(c, h, w, lo, hi)
  BY DEF RawMove, RawHere
<1>2. /\ c \in Seq(Nat) /\ w \in Seq(Frames) /\ cur[d] \in Frames
      /\ lo \in Nat /\ hi \in Nat /\ Len(c) \in Nat /\ lo + Len(c) \in Nat
      /\ lo + Len(c) + 1 \in Nat
  BY RawTypes
<1>3. h = <<>> \/ h = <<cur[d]>>
  BY DEF RawHand
<1>4. RawHere(d)' <=> RawAt(c', h', w', lo', hi')
  BY DEF RawHere
<1>5. <<cur[d]>> # <<>> /\ <<cur[d]>>[1] = cur[d]
  OBVIOUS
<1> HIDE DEF c, h, w, lo, hi
<1>6. CASE KeepsRaw(d)
  <2>1. c' = c /\ h' = h /\ w' = w /\ lo' = lo /\ hi' = hi
    BY <1>6 DEF KeepsRaw, c, h, w, lo, hi
  <2> QED
    BY <1>1, <1>4, <2>1
<1>7. CASE GetsFrame(d)
  <2>1. PICK f \in Frames :
          /\ w' = Append(w, f)
          /\ IF f.id = RawId THEN f.seq = hi + 1 /\ hi' = hi + 1 ELSE hi' = hi
          /\ c' = c /\ h' = h /\ lo' = lo
    BY <1>7 DEF GetsFrame, c, h, w, lo, hi
  <2>2. hi' \in Nat
    BY <1>2, <2>1
  <2>3. ASSUME NEW m \in Nat, m <= hi, RawUpTo(w, m, hi)
        PROVE  m <= hi' /\ RawUpTo(Append(w, f), m, hi')
    BY <1>2, <2>1, <2>2, <2>3, RawWritten
  <2>4. RawAt(c, h, Append(w, f), lo, hi')
    <3>1. CASE h = <<>>
      BY <1>1, <1>2, <2>3, <3>1 DEF RawAt
    <3>2. CASE h # <<>>
      BY <1>1, <1>2, <2>3, <3>2 DEF RawAt
    <3> QED
      BY <3>1, <3>2
  <2> QED
    BY <1>4, <2>1, <2>4
<1>8. CASE ReadsFrame(d)
  <2>1. /\ w # <<>> /\ w' = Tail(w) /\ h = <<>>
        /\ h' = IF Head(w).id = RawId THEN <<Head(w)>> ELSE <<>>
        /\ c' = c /\ lo' = lo /\ hi' = hi
    BY <1>8 DEF ReadsFrame, c, h, w, lo, hi
  <2>2. RawUpTo(w, lo + Len(c), hi) /\ lo + Len(c) <= hi
        /\ \A k \in DOMAIN c : c[k] = lo + k
    BY <1>1, <2>1 DEF RawAt
  <2>3. IF Head(w).id = RawId
          THEN /\ Head(w).seq = lo + Len(c) + 1 /\ lo + Len(c) + 1 <= hi
               /\ RawUpTo(Tail(w), lo + Len(c) + 1, hi)
          ELSE RawUpTo(Tail(w), lo + Len(c), hi)
    BY <1>2, <2>1, <2>2, RawRead
  <2>4. <<Head(w)>> # <<>> /\ <<Head(w)>>[1] = Head(w)
    OBVIOUS
  <2>5. RawAt(c, h', Tail(w), lo, hi)
    <3>1. CASE Head(w).id = RawId
      BY <2>1, <2>2, <2>3, <2>4, <3>1 DEF RawAt
    <3>2. CASE Head(w).id # RawId
      BY <2>1, <2>2, <2>3, <3>2 DEF RawAt
    <3> QED
      BY <3>1, <3>2
  <2> QED
    BY <1>4, <2>1, <2>5
<1>9. CASE PushesRaw(d)
  <2>1. /\ h = <<cur[d]>> /\ h' = <<>> /\ c' = Append(c, cur[d].seq)
        /\ lo' = lo /\ w' = w /\ hi' = hi
    BY <1>9 DEF PushesRaw, c, h, w, lo, hi
  <2>2. /\ cur[d].seq = lo + Len(c) + 1 /\ lo + Len(c) + 1 <= hi
        /\ RawUpTo(w, lo + Len(c) + 1, hi) /\ \A k \in DOMAIN c : c[k] = lo + k
    BY <1>1, <1>5, <2>1 DEF RawAt
  <2>3. cur[d].seq \in Nat
    BY <1>2, SeqNat
  <2>4. /\ Len(Append(c, cur[d].seq)) = Len(c) + 1
        /\ DOMAIN Append(c, cur[d].seq) = 1 .. (Len(c) + 1)
        /\ DOMAIN c = 1 .. Len(c)
        /\ \A k \in 1 .. Len(c) : Append(c, cur[d].seq)[k] = c[k]
        /\ Append(c, cur[d].seq)[Len(c) + 1] = cur[d].seq
    BY <1>2, <2>3
  <2>5. \A k \in DOMAIN Append(c, cur[d].seq) : Append(c, cur[d].seq)[k] = lo + k
    <3>1. \A k \in 1 .. (Len(c) + 1) : k \in 1 .. Len(c) \/ k = Len(c) + 1
      BY <1>2
    <3>2. cur[d].seq = lo + (Len(c) + 1)
      BY <1>2, <2>2
    <3> QED
      BY <2>2, <2>4, <3>1, <3>2
  <2>6. lo + (Len(c) + 1) = lo + Len(c) + 1
    BY <1>2
  <2>7. RawAt(Append(c, cur[d].seq), <<>>, w, lo, hi)
    BY <2>2, <2>4, <2>5, <2>6 DEF RawAt
  <2> QED
    BY <1>4, <2>1, <2>7
<1>10. CASE TakesRaw(d)
  <2>1. /\ c # <<>> /\ c' = Tail(c) /\ lo' = Head(c)
        /\ h' = h /\ w' = w /\ hi' = hi
    BY <1>10 DEF TakesRaw, c, h, w, lo, hi
  <2>2. /\ Len(Tail(c)) = Len(c) - 1 /\ DOMAIN Tail(c) = 1 .. (Len(c) - 1)
        /\ \A k \in 1 .. (Len(c) - 1) : Tail(c)[k] = c[k + 1]
        /\ Head(c) = c[1] /\ DOMAIN c = 1 .. Len(c) /\ Len(c) > 0
    BY <1>2, <2>1
  <2>3. /\ Head(c) = lo + 1
        /\ \A k \in DOMAIN Tail(c) : Tail(c)[k] = Head(c) + k
        /\ Head(c) + Len(Tail(c)) = lo + Len(c)
    <3>1. \A k \in 1 .. Len(c) : c[k] = lo + k
      BY <1>1, <2>2 DEF RawAt
    <3>2. \A k \in 1 .. (Len(c) - 1) :
            /\ k \in Int /\ k + 1 \in 1 .. Len(c)
            /\ lo + (k + 1) = lo + 1 + k
      BY <1>2, <2>2
    <3>3. c[1] = lo + 1
      BY <1>2, <2>2, <3>1
    <3>4. \A k \in 1 .. (Len(c) - 1) : Tail(c)[k] = lo + 1 + k
      BY <2>2, <3>1, <3>2
    <3>5. lo + 1 + (Len(c) - 1) = lo + Len(c)
      BY <1>2
    <3> QED
      BY <2>2, <3>3, <3>4, <3>5
  <2>4. RawAt(Tail(c), h, w, Head(c), hi)
    BY <1>1, <2>3 DEF RawAt
  <2> QED
    BY <1>4, <2>1, <2>4
<1> QED
  BY <1>6, <1>7, <1>8, <1>9, <1>10 DEF RawMove

\* A step that reads, writes and receives no raw message.
LEMMA RawStill ==
  ASSUME NEW d \in Ends, UNCHANGED <<rawVars, wire[d], RawHand(d)>>,
         Runs(d)' => Runs(d)
  PROVE  RawMove(d)
  BY DEF RawMove, KeepsRaw, rawVars

\* A frame is written to the peer of e, and e may take up its next one.
LEMMA RawWrites ==
  ASSUME TypeInv, NEW e \in Ends, NEW f \in Frames, Write(e, f),
         UNCHANGED <<rawMsgCh, rawRcvd, conn>>,
         \A d \in Ends : RawHand(d)' = RawHand(d) /\ (ReadLoopErr(d) => ReadLoopErr(d)'),
         IF f.id = RawId
           THEN f.seq = rawSent[e] + 1 /\ rawSent' = [rawSent EXCEPT ![e] = @ + 1]
           ELSE UNCHANGED rawSent
  PROVE  \A d \in Ends : RawMove(d)
<1>1. /\ Peer(e) \in Ends /\ Peer(e) # e /\ Peer(Peer(e)) = e
      /\ \A d \in Ends : d = e \/ d = Peer(e)
  BY DEF Ends, Peer
<1>2. \A d \in Ends : Runs(d)' => Runs(d)
  BY DEF Runs
<1>3. /\ wire \in [Ends -> Seq(Frames)] /\ rawSent \in [Ends -> Nat]
      /\ wire' = [wire EXCEPT ![Peer(e)] = Append(@, f)]
  BY DEF TypeInv, TypeOK, Write
<1>4. wire'[e] = wire[e] /\ wire'[Peer(e)] = Append(wire[Peer(e)], f)
  BY <1>1, <1>3
<1>5. /\ rawSent'[Peer(e)] = rawSent[Peer(e)]
      /\ IF f.id = RawId THEN f.seq = rawSent[e] + 1 /\ rawSent'[e] = rawSent[e] + 1
                         ELSE rawSent'[e] = rawSent[e]
  BY <1>1, <1>3
<1>6. KeepsRaw(e)
  BY <1>4, <1>5 DEF KeepsRaw
<1>7. GetsFrame(Peer(e))
  <2>1. Peer(e)' = Peer(e)
    BY DEF Peer
  <2> QED
    BY <1>1, <1>4, <1>5 DEF GetsFrame
<1> QED
  BY <1>1, <1>2, <1>6, <1>7 DEF RawMove

LEMMA RawReads ==
  ASSUME TypeInv, NEW e \in Ends, NEW f,
         NEW l \in {"read", "raw", "accept", "reply", "push", "error"},
         Reads(e, f, l), f.id = RawId <=> l = "raw",
         UNCHANGED <<rawVars, conn>>
  PROVE  \A d \in Ends : RawMove(d)
<1>1. DOMAIN wire = Ends /\ DOMAIN loop = Ends /\ DOMAIN cur = Ends
  BY DEF TypeInv, TypeOK
<1>2. /\ wire[e] # <<>> /\ f = Head(wire[e]) /\ wire'[e] = Tail(wire[e])
      /\ loop[e] = "read" /\ loop'[e] = l /\ (l = "raw" => cur'[e] = f)
  BY <1>1 DEF Reads
<1>3. \A d \in Ends \ {e} : wire'[d] = wire[d] /\ loop'[d] = loop[d] /\ cur'[d] = cur[d]
  BY <1>1 DEF Reads
<1>4. \A d \in Ends : Runs(d)' => Runs(d)
  BY <1>2, <1>3 DEF Runs, ReadLoopErr
<1>5. \A d \in Ends \ {e} : RawMove(d)
  BY <1>3, <1>4, RawStill DEF RawHand
<1>6. ReadsFrame(e)
  <2>1. RawHand(e) = <<>>
    BY <1>2 DEF RawHand
  <2>2. RawHand(e)' = IF f.id = RawId THEN <<f>> ELSE <<>>
    BY <1>2 DEF RawHand
  <2> QED
    BY <1>2, <2>1, <2>2 DEF ReadsFrame, rawVars
<1> QED
  BY <1>4, <1>5, <1>6 DEF RawMove

LEMMA RawLoop ==
  ASSUME TypeInv, NEW e \in Ends, Loop(e)
  PROVE  \A d \in Ends : RawMove(d)
<1> USE DEF connVars, loopVars, streamVars, rawVars
<1>1. /\ DOMAIN wire = Ends /\ DOMAIN loop = Ends /\ DOMAIN cur = Ends
      /\ DOMAIN rawMsgCh = Ends
  BY DEF TypeInv, TypeOK
<1>2. \A d \in Ends : Peer(d)' = Peer(d)
  BY DEF Peer
<1>3. CASE LoopRaw(e)
  <2>1. Reads(e, Head(wire[e]), "raw") /\ Head(wire[e]).id = RawId
        /\ UNCHANGED <<rawVars, conn>>
    BY <1>3 DEF LoopRaw
  <2> DEFINE f == Head(wire[e])
  <2> HIDE DEF f
  <2>2. Reads(e, f, "raw") /\ f.id = RawId
    BY <2>1 DEF f
  <2> QED
    BY <2>1, <2>2, RawReads
<1>4. CASE LoopStart(e) \/ LoopUnknown(e) \/ LoopClose(e) \/ LoopError(e) \/ LoopData(e)
  <2>1. streams[e] \subseteq Ids /\ RawId \notin Ids
    BY IdsAreNat DEF TypeInv, TypeOK, RawId
  <2>2. \E l \in {"read", "accept", "reply", "error", "push"} :
          Reads(e, Head(wire[e]), l) /\ Head(wire[e]).id # RawId
    BY <1>4, <2>1 DEF LoopStart, LoopUnknown, LoopClose, LoopError, LoopData
  <2>3. UNCHANGED <<rawVars, conn>>
    BY <1>4 DEF LoopStart, LoopUnknown, LoopClose, LoopError, LoopData
  <2> DEFINE f == Head(wire[e])
  <2> HIDE DEF f
  <2>4. PICK l \in {"read", "accept", "reply", "error", "push"} :
          Reads(e, f, l) /\ f.id # RawId
    BY <2>2 DEF f
  <2> QED
    BY <2>3, <2>4, RawReads
<1>5. CASE LoopPushRaw(e)
  <2>1. /\ loop[e] = "raw" /\ loop'[e] = "read"
        /\ rawMsgCh'[e] = Append(rawMsgCh[e], cur[e].seq)
        /\ UNCHANGED <<conn, wire, rawSent, rawRcvd>>
    BY <1>1, <1>5 DEF LoopPushRaw, PushRaw, Returns
  <2>2. \A d \in Ends \ {e} :
          loop'[d] = loop[d] /\ cur'[d] = cur[d] /\ rawMsgCh'[d] = rawMsgCh[d]
    BY <1>1, <1>5 DEF LoopPushRaw, PushRaw, Returns
  <2>3. PushesRaw(e)
    BY <1>2, <2>1 DEF PushesRaw, RawHand
  <2>4. \A d \in Ends \ {e} : KeepsRaw(d)
    BY <1>2, <2>1, <2>2 DEF KeepsRaw, RawHand
  <2>5. \A d \in Ends : Runs(d)' => Runs(d)
    BY <2>1, <2>2 DEF Runs, ReadLoopErr
  <2> QED
    BY <2>3, <2>4, <2>5 DEF RawMove
<1>6. CASE LoopAccept(e) \/ LoopPush(e) \/ LoopPushError(e) \/ (LoopReply(e) /\ UNCHANGED wire)
  <2>1. /\ loop[e] \in {"accept", "push", "error", "reply"} /\ loop'[e] = "read"
        /\ UNCHANGED <<rawVars, conn, wire>>
    BY <1>1, <1>6 DEF LoopAccept, LoopPush, LoopPushError, LoopReply, Returns
  <2>2. \A d \in Ends \ {e} : loop'[d] = loop[d] /\ cur'[d] = cur[d]
    BY <1>1, <1>6 DEF LoopAccept, LoopPush, LoopPushError, LoopReply, Returns
  <2>3. \A d \in Ends : RawHand(d)' = RawHand(d)
    BY <2>1, <2>2 DEF RawHand
  <2>4. \A d \in Ends : Runs(d)' => Runs(d)
    BY <2>1, <2>2 DEF Runs, ReadLoopErr
  <2> QED
    BY <2>1, <2>3, <2>4, RawStill
<1>7. CASE LoopReply(e) /\ ~UNCHANGED wire
  <2> DEFINE f == Frame(cur[e].id, "error", 0)
  <2>1. /\ loop[e] = "reply" /\ loop'[e] = "read" /\ Write(e, f)
        /\ UNCHANGED <<rawVars, conn>>
    BY <1>1, <1>7 DEF LoopReply, Returns
  <2>2. \A d \in Ends \ {e} : loop'[d] = loop[d] /\ cur'[d] = cur[d]
    BY <1>1, <1>7 DEF LoopReply, Returns
  <2>3. \A d \in Ends : RawHand(d)' = RawHand(d) /\ (ReadLoopErr(d) => ReadLoopErr(d)')
    BY <2>1, <2>2 DEF RawHand, ReadLoopErr
  <2>4. cur[e].id \in Ids
    BY <2>1 DEF TypeInv, CurInv
  <2>5. f \in Frames /\ f.id # RawId
    <3>1. cur[e].id \in Ids \cup {RawId} /\ "error" \in Flags /\ 0 \in Nat
      BY <2>4 DEF Flags
    <3>2. f \in Frames /\ f.id = cur[e].id
      BY <3>1, FrameType
    <3> QED
      BY <2>4, <3>2, IdsAreNat DEF RawId
  <2> HIDE DEF f
  <2> QED
    BY <2>1, <2>3, <2>5, RawWrites
<1>8. CASE LoopFail(e) \/ LoopExit(e)
  <2>1. loop'[e] \in {"failed", "done"} /\ UNCHANGED <<rawVars, conn, wire, cur>>
    BY <1>1, <1>8 DEF LoopFail, LoopExit
  <2>2. \A d \in Ends \ {e} : loop'[d] = loop[d]
    BY <1>1, <1>8 DEF LoopFail, LoopExit
  <2>3. ~Runs(e)' /\ (Runs(e)' => Runs(e))
    BY <2>1 DEF Runs, ReadLoopErr
  <2>4. \A d \in Ends \ {e} : KeepsRaw(d) /\ (Runs(d)' => Runs(d))
    BY <1>2, <2>1, <2>2 DEF KeepsRaw, RawHand, Runs, ReadLoopErr
  <2> QED
    BY <2>3, <2>4 DEF RawMove
<1> QED
  BY <1>3, <1>4, <1>5, <1>6, <1>7, <1>8 DEF Loop

LEMMA RawCalls ==
  ASSUME TypeInv, NEW e \in Ends, NEW i \in Ids,
         Proceed(e, i) \/ SendCheck(e, i) \/ CloseWrite(e, i)
           \/ CloseCancel(e, i) \/ Receive(e, i)
  PROVE  \A d \in Ends : RawMove(d)
<1> USE DEF connVars, loopVars, rawVars
<1>1. UNCHANGED <<rawVars, conn, loop, cur>>
  BY DEF Proceed, Receive, StartRegister, StartWrite, StartFail, SendCheck, SendWrite,
         SendFail, CloseWrite, CloseCancel, CloseFrame, CloseFrameLost, CloseRemove,
         RecvFrame, RecvEnd
<1>2. \A d \in Ends : /\ RawHand(d)' = RawHand(d)
                      /\ (ReadLoopErr(d) <=> ReadLoopErr(d)') /\ (Runs(d)' => Runs(d))
  BY <1>1 DEF RawHand, ReadLoopErr, Runs
<1>3. \/ UNCHANGED wire
      \/ \E flag \in {"start", "closewrite", "close"} : Write(e, Frame(i, flag, 0))
      \/ Write(e, Frame(i, "data", sent[e][i] + 1))
  BY DEF Proceed, Receive, StartRegister, StartWrite, StartFail, SendCheck, SendWrite,
         SendFail, CloseWrite, CloseCancel, CloseFrame, CloseFrameLost, CloseRemove,
         RecvFrame, RecvEnd
<1>4. CASE UNCHANGED wire
  BY <1>1, <1>2, <1>4, RawStill
<1>5. ASSUME NEW f \in Frames, f.id = i, Write(e, f)
      PROVE  \A d \in Ends : RawMove(d)
  <2>1. f.id # RawId
    BY <1>5, IdsAreNat DEF RawId
  <2> QED
    BY <1>1, <1>2, <1>5, <2>1, RawWrites
<1>6. /\ \A flag \in {"start", "closewrite", "close"} :
           Frame(i, flag, 0) \in Frames /\ Frame(i, flag, 0).id = i
      /\ Frame(i, "data", sent[e][i] + 1) \in Frames
      /\ Frame(i, "data", sent[e][i] + 1).id = i
  BY WrittenType DEF Flags, Frame
<1> QED
  BY <1>3, <1>4, <1>5, <1>6

LEMMA RawMoves ==
  ASSUME TypeInv, [Next]_vars
  PROVE  \A d \in Ends : RawMove(d)
<1> USE DEF connVars, loopVars, rawVars
<1>1. \A d \in Ends : Peer(d)' = Peer(d)
  BY DEF Peer
<1>2. ASSUME UNCHANGED <<rawVars, wire, loop, cur>>, \A d \in Ends : Runs(d)' => Runs(d)
      PROVE  \A d \in Ends : RawMove(d)
  BY <1>2, RawStill DEF RawHand
<1>3. ASSUME NEW e \in Ends, WriteData(e)
      PROVE  \A d \in Ends : RawMove(d)
  <2> DEFINE f == Frame(RawId, "raw", rawSent[e] + 1)
  <2>1. /\ Write(e, f) /\ rawSent' = [rawSent EXCEPT ![e] = @ + 1]
        /\ UNCHANGED <<rawMsgCh, rawRcvd, conn, loop, cur>>
    BY <1>3 DEF WriteData
  <2>2. \A d \in Ends : RawHand(d)' = RawHand(d) /\ (ReadLoopErr(d) => ReadLoopErr(d)')
    BY <2>1 DEF RawHand, ReadLoopErr
  <2>3. rawSent[e] + 1 \in Nat
    BY RawTypes
  <2>4. RawId \in Ids \cup {RawId} /\ "raw" \in Flags
    BY DEF Flags
  <2>5. f \in Frames /\ f.id = RawId /\ f.seq = rawSent[e] + 1
    BY <2>3, <2>4, FrameType
  <2> HIDE DEF f
  <2> QED
    BY <2>1, <2>2, <2>5, RawWrites
<1>4. ASSUME NEW e \in Ends, ReadData(e)
      PROVE  \A d \in Ends : RawMove(d)
  <2>1. DOMAIN rawMsgCh = Ends /\ DOMAIN rawRcvd = Ends
    BY DEF TypeInv, TypeOK
  <2>2. /\ rawMsgCh[e] # <<>> /\ rawMsgCh'[e] = Tail(rawMsgCh[e])
        /\ rawRcvd'[e] = Head(rawMsgCh[e])
        /\ UNCHANGED <<conn, wire, loop, cur, rawSent>>
    BY <1>4, <2>1 DEF ReadData
  <2>3. \A d \in Ends \ {e} : rawMsgCh'[d] = rawMsgCh[d] /\ rawRcvd'[d] = rawRcvd[d]
    BY <1>4, <2>1 DEF ReadData
  <2>4. TakesRaw(e)
    BY <1>1, <2>2 DEF TakesRaw, RawHand
  <2>5. \A d \in Ends \ {e} : KeepsRaw(d)
    BY <1>1, <2>2, <2>3 DEF KeepsRaw, RawHand
  <2>6. \A d \in Ends : Runs(d)' => Runs(d)
    BY <2>2 DEF Runs, ReadLoopErr
  <2> QED
    BY <2>4, <2>5, <2>6 DEF RawMove
<1>5. ASSUME NEW e \in Ends, ConnClose(e)
      PROVE  \A d \in Ends : RawMove(d)
  <2>1. DOMAIN conn = Ends /\ DOMAIN wire = Ends
    BY DEF TypeInv, TypeOK
  <2>2. /\ conn[e] # "closed" /\ UNCHANGED <<rawVars, loop, cur>>
        /\ conn'[e] = "closed" \/ UNCHANGED wire
    BY <1>5, <2>1 DEF ConnClose, Released
  <2>3. \A d \in Ends \ {e} : conn'[d] = conn[d] /\ wire'[d] = wire[d]
    BY <1>5, <2>1 DEF ConnClose, Released
  <2>4. /\ ~Runs(e)' \/ KeepsRaw(e)
        /\ \A d \in Ends : Runs(d)' => Runs(d)
    BY <1>1, <2>2, <2>3 DEF Runs, ReadLoopErr, KeepsRaw, RawHand
  <2>5. \A d \in Ends \ {e} : KeepsRaw(d)
    BY <1>1, <2>2, <2>3 DEF KeepsRaw, RawHand
  <2> QED
    BY <2>4, <2>5 DEF RawMove
<1>6. ASSUME NEW e \in Ends, StartAlloc(e) \/ RegisterHandler(e) \/ AcceptStream(e)
      PROVE  \A d \in Ends : RawMove(d)
  <2>1. UNCHANGED <<rawVars, wire, loop, cur, conn>>
    BY <1>6 DEF StartAlloc, RegisterHandler, AcceptStream
  <2> QED
    BY <1>2, <2>1 DEF Runs, ReadLoopErr
<1>7. ASSUME NEW e \in Ends, ConnCancel(e)
      PROVE  \A d \in Ends : RawMove(d)
  <2>1. conn[e] = "open" /\ UNCHANGED <<rawVars, wire, loop, cur>>
    BY <1>7 DEF ConnCancel
  <2>2. \A d \in Ends \ {e} : conn'[d] = conn[d]
    BY <1>7 DEF ConnCancel, TypeInv, TypeOK
  <2>3. \A d \in Ends : Runs(d)' => Runs(d)
    BY <2>1, <2>2 DEF Runs, ReadLoopErr
  <2> QED
    BY <1>2, <2>1, <2>3
<1>8. CASE UNCHANGED vars
  <2>1. UNCHANGED <<rawVars, wire, loop, cur, conn>>
    BY <1>8 DEF vars
  <2> QED
    BY <1>2, <2>1 DEF Runs, ReadLoopErr
<1>9. CASE Next
  BY <1>3, <1>4, <1>5, <1>6, <1>7, <1>9, RawLoop, RawCalls DEF Next, Decide, Take
<1> QED
  BY <1>8, <1>9

LEMMA RawInit == Init => RawInv
<1> SUFFICES ASSUME Init, NEW e \in Ends PROVE RawHere(e)
  BY DEF RawInv
<1>1. /\ rawMsgCh[e] = <<>> /\ RawHand(e) = <<>> /\ wire[e] = <<>>
      /\ rawRcvd[e] = 0 /\ rawSent[Peer(e)] = 0
  BY PeerInEnds DEF Init, RawHand
<1>2. DOMAIN <<>> = {} /\ Len(<<>>) = 0
  OBVIOUS
<1>3. RawOf(<<>>) = {} /\ (0 + 1) .. 0 = {}
  BY <1>2 DEF RawOf
<1>4. RawUpTo(<<>>, 0, 0)
  BY <1>3 DEF RawUpTo
<1> QED
  BY <1>1, <1>2, <1>4 DEF RawHere, RawAt

LEMMA RawNext == TypeInv /\ RawInv /\ [Next]_vars => RawInv'
<1> SUFFICES ASSUME TypeInv, RawInv, [Next]_vars, NEW d \in Ends, Runs(d)'
             PROVE  RawHere(d)'
  BY DEF RawInv
<1>1. TypeInv' /\ RawMove(d)
  BY TypeNext, RawMoves
<1> QED
  BY <1>1, RawKept DEF RawInv

\* What the loop holds and what is on the wire, as one sequence.
LEMMA RawJoin ==
  ASSUME NEW w \in Seq(Frames), NEW x \in Frames, NEW lo \in Nat, NEW hi \in Nat,
         x.id = RawId, x.seq = lo + 1, lo + 1 <= hi, RawUpTo(w, lo + 1, hi)
  PROVE  RawUpTo(<<x>> \o w, lo, hi)
<1> DEFINE q == <<x>> \o w
<1>1. /\ DOMAIN w = 1 .. Len(w) /\ Len(w) \in Nat
      /\ DOMAIN q = 1 .. (Len(w) + 1) /\ q[1] = x
      /\ \A k \in DOMAIN q \ {1} : k - 1 \in DOMAIN w /\ q[k] = w[k - 1]
  OBVIOUS
<1>2. \A k \in DOMAIN w : k + 1 \in DOMAIN q \ {1} /\ q[k + 1] = w[k]
  BY <1>1
<1> HIDE DEF q
<1>3. \A k \in RawOf(q) : k = 1 \/ (k - 1 \in RawOf(w) /\ q[k] = w[k - 1])
  BY <1>1 DEF RawOf
<1>4. 1 \in RawOf(q) /\ q[1].seq = lo + 1
  BY <1>1 DEF RawOf
<1>5. \A k \in RawOf(w) : k + 1 \in RawOf(q) /\ q[k + 1] = w[k]
  BY <1>2 DEF RawOf
<1>6. \A k \in RawOf(w) : w[k].seq \in (lo + 2) .. hi
  BY DEF RawUpTo
<1>7. \A k \in RawOf(q) : q[k].seq \in (lo + 1) .. hi
  BY <1>3, <1>4, <1>6
<1>8. \A n \in (lo + 1) .. hi : \E k \in RawOf(q) : q[k].seq = n
  <2>1. \A n \in (lo + 1) .. hi : n = lo + 1 \/ n \in (lo + 1 + 1) .. hi
    OBVIOUS
  <2>2. \A n \in (lo + 1 + 1) .. hi : \E k \in RawOf(w) : w[k].seq = n
    BY DEF RawUpTo
  <2> QED
    BY <1>4, <1>5, <2>1, <2>2
<1>9. ASSUME NEW j \in RawOf(q), NEW k \in RawOf(q), j < k
      PROVE  q[j].seq < q[k].seq
  <2>1. j \in Nat /\ k \in Nat /\ j # 0 /\ k # 1
    BY <1>1, <1>9 DEF RawOf
  <2>2. k - 1 \in RawOf(w) /\ q[k] = w[k - 1]
    BY <1>3, <2>1
  <2>3. CASE j = 1
    BY <1>4, <1>6, <2>2, <2>3
  <2>4. CASE j # 1
    <3>1. j - 1 \in RawOf(w) /\ q[j] = w[j - 1] /\ j - 1 < k - 1
      BY <1>3, <1>9, <2>1, <2>4
    <3> QED
      BY <2>2, <3>1 DEF RawUpTo
  <2> QED
    BY <2>3, <2>4
<1>10. RawUpTo(q, lo, hi)
  BY <1>7, <1>8, <1>9 DEF RawUpTo
<1> QED
  BY <1>10 DEF q

LEMMA RawImplied == TypeInv /\ RawInv => RawInOrder
<1> SUFFICES ASSUME TypeInv, NEW e \in Ends, RawHere(e)
             PROVE  LET q == RawHand(e) \o wire[e]
                        n == rawRcvd[e] + Len(rawMsgCh[e]) IN
                    /\ \A k \in DOMAIN rawMsgCh[e] : rawMsgCh[e][k] = rawRcvd[e] + k
                    /\ {q[k].seq : k \in RawOf(q)} = (n + 1) .. rawSent[Peer(e)]
                    /\ \A j, k \in RawOf(q) : j < k => q[j].seq < q[k].seq
  BY DEF RawInOrder, RawInv, Runs
<1> DEFINE h == RawHand(e)  w == wire[e]  q == h \o w
           n == rawRcvd[e] + Len(rawMsgCh[e])  hi == rawSent[Peer(e)]
<1>1. /\ w \in Seq(Frames) /\ cur[e] \in Frames /\ n \in Nat /\ hi \in Nat
      /\ h = <<>> \/ h = <<cur[e]>>
  BY RawTypes DEF RawHand
<1>2. /\ \A k \in DOMAIN rawMsgCh[e] : rawMsgCh[e][k] = rawRcvd[e] + k
      /\ \/ h = <<>> /\ n <= hi /\ RawUpTo(w, n, hi)
         \/ /\ h # <<>> /\ h[1].id = RawId /\ h[1].seq = n + 1
            /\ n + 1 <= hi /\ RawUpTo(w, n + 1, hi)
  BY DEF RawHere, RawAt
<1> HIDE DEF h, w, n, hi
<1>3. RawUpTo(q, n, hi)
  <2>1. CASE h = <<>>
    BY <1>1, <1>2, <2>1
  <2>2. CASE h = <<cur[e]>>
    BY <1>1, <1>2, <2>2, RawJoin
  <2> QED
    BY <1>1, <2>1, <2>2
<1> HIDE DEF q
<1>4. {q[k].seq : k \in RawOf(q)} = (n + 1) .. hi
  BY <1>3 DEF RawUpTo
<1> QED
  BY <1>2, <1>3, <1>4 DEF RawUpTo, q, n, h, w, hi

\* Raw messages are read in the order they were written, and as long as the
\* loop runs none is missing, whatever streams share the channel and however
\* long the readers of raw messages wait.
THEOREM RawMessagesInOrder == Spec => []RawInOrder
<1>1. TypeInv /\ RawInv => RawInOrder
  BY RawImplied
<1> QED
  BY <1>1, TypeInit, TypeNext, RawInit, RawNext, PTL DEF Spec

=============================================================================
