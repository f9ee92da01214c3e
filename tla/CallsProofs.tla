---------------------------- MODULE CallsProofs ----------------------------
(***************************************************************************)
(* Proofs about Calls.  The goroutines of a call hand its payloads from    *)
(* one place to the next: a Go channel, the hand of a goroutine, a         *)
(* direction of the wire, recvCh.  The places from the far end back to the *)
(* near one are a line; what stands in it is in order, without a gap, and  *)
(* a step moves, drops or adds one payload, or loses the places behind one *)
(* that nobody will pass on any more.  The lemmas on lines say that each   *)
(* of these keeps a line; a lemma for each pattern of call says which of   *)
(* them each step is; the theorems read the far end of the line.           *)
(***************************************************************************)
EXTENDS Calls, SequenceTheorems, TLAPS

(* The type invariant, with what the pattern of a call leaves alone.       *)
IsData(f) == f.flag = "data"
Numbered(q) == \A k \in DOMAIN q : IsData(q[k]) => q[k].val \in 1 .. MaxPayloads

\* Where each goroutine can be, and when it holds a payload.
RoleInv ==
  /\ \A g \in Pumps : pc[g] \in {"off", "run", "done"}
  /\ pc["copier"] \in {"off", "recv", "push", "closing", "done"}
  /\ pc["feeder"] \in {"off", "run", "send", "closing", "done"}
  /\ pc["taker"] \in {"off", "recv", "push", "done"}
  /\ pc["call"] \in {"off", "start", "request", "end", "recv", "closing", "done"}
  /\ pc["handler"] \in {"off", "parked", "recv", "send", "sending", "range", "respond",
                        "end", "quit", "closing", "done"}
HandInv ==
  /\ \A g \in {"copier", "taker"} :
       /\ pc[g] \in {"off", "recv"} => hand[g] = 0
       /\ pc[g] = "push" => hand[g] # 0
  /\ pc["feeder"] = "send" => hand["feeder"] # 0
  /\ \A g \in Pumps : pc[g] = "off" => hand[g] = 0

\* What the pattern of the call leaves alone.
ModeInv ==
  IF mode = "SingleMulti"
    THEN /\ \A g \in {"feeder", "pumpReqs"} : pc[g] = "off"
         /\ \A g \in {"taker", "pumpTaken"} : pc[g] \in {"off", "done"}
         /\ pc["call"] # "recv" /\ pc["handler"] \notin {"range", "respond", "end"}
    ELSE /\ \A g \in {"copier", "pumpResp"} : pc[g] = "off"
         /\ pc["call"] \notin {"request", "end"} /\ pc["handler"] \notin {"send", "sending"}
IdleInv ==
  IF mode = "SingleMulti"
    THEN /\ \A c \in {"reqs", "rawReqs", "rawTaken", "taken"} : queue[c] = <<>>
         /\ Numbered(wire["host"]) /\ Numbered(recvCh["host"])
    ELSE /\ \A c \in {"resp", "rawResp"} : queue[c] = <<>>
         /\ Numbered(wire["plugin"]) /\ Numbered(recvCh["plugin"])

\* The goroutines that receive start once.
OrderInv ==
  /\ pc["copier"] # "off" => pc["call"] = "done"
  /\ pc["handler"] \in {"off", "parked", "recv"} =>
       pc["taker"] = "off" /\ pc["pumpTaken"] = "off"

TypeInv == TypeOK /\ RoleInv /\ HandInv /\ OrderInv /\ ModeInv /\ IdleInv

\* The handler may still take requests.
Taking == pc["handler"] \in {"off", "recv", "range"}

\* Nothing is written before the Start frame, it is the first the plugin
\* dispatches, and it is there before anybody at the host writes another.
StartInv ==
  /\ pc["call"] \in {"off", "start"} =>
       /\ wire["plugin"] = <<>> /\ wire["host"] = <<>> /\ sent = 0
       /\ pc["handler"] = "off" \/ (pc["handler"] = "done" /\ ~up)
       /\ pc["feeder"] = "off" /\ pc["copier"] = "off"
  /\ pc["handler"] = "off" =>
       /\ ~open["plugin"] /\ ~cancelled["plugin"] /\ recvCh["plugin"] = <<>>
       /\ \A k \in DOMAIN wire["plugin"] : wire["plugin"][k].flag = "start" <=> k = 1
       /\ wire["plugin"] = <<>> =>
            pc["call"] \in {"off", "start", "done"} /\ pc["feeder"] = "off"
            /\ pc["copier"] = "off"
  /\ pc["handler"] # "off" =>
       \A k \in DOMAIN wire["plugin"] : wire["plugin"][k].flag # "start"
  /\ Taking => /\ up
               /\ pc["handler"] # "off" => open["plugin"] \/ cancelled["plugin"]
               /\ cancelled["plugin"] => ~open["plugin"]


-----------------------------------------------------------------------------
LEMMA TakeType ==
  ASSUME NEW S, NEW q \in Seq(S), q # <<>>
  PROVE  /\ Head(q) \in S /\ Tail(q) \in Seq(S)
         /\ Len(Tail(q)) = Len(q) - 1 /\ Len(q) \in Nat \ {0}
         /\ DOMAIN q = 1 .. Len(q) /\ DOMAIN Tail(q) = 1 .. (Len(q) - 1)
         /\ 1 \in DOMAIN q /\ Head(q) = q[1]
         /\ \A k \in DOMAIN Tail(q) : k + 1 \in DOMAIN q /\ Tail(q)[k] = q[k + 1]
  OBVIOUS

LEMMA PutType ==
  ASSUME NEW S, NEW q \in Seq(S), NEW x \in S
  PROVE  /\ Append(q, x) \in Seq(S)
         /\ Len(Append(q, x)) = Len(q) + 1 /\ Len(q) \in Nat
         /\ DOMAIN q = 1 .. Len(q) /\ DOMAIN Append(q, x) = 1 .. (Len(q) + 1)
         /\ \A k \in DOMAIN q : Append(q, x)[k] = q[k]
         /\ Append(q, x)[Len(q) + 1] = x
  OBVIOUS

\* The parts of the state a step leaves alone one by one.
EnvOK ==
  /\ mode \in {"SingleMulti", "MultiSingle"} /\ lost \subseteq Ends
  /\ deadlines \in BOOLEAN
  /\ served \in BOOLEAN /\ ctxDone \in BOOLEAN /\ up \in BOOLEAN
StreamOK ==
  /\ wire \in [Ends -> Seq(Frames)] /\ recvCh \in [Ends -> Seq(Frames)]
  /\ cancelled \in [Ends -> BOOLEAN] /\ open \in [Ends -> BOOLEAN]
  /\ \A e \in Ends : Len(wire[e]) <= WireCap /\ Len(recvCh[e]) <= RecvCap
PcOK ==
  pc \in [Goroutines -> {"off", "start", "request", "end", "recv", "push", "run",
                         "send", "sending", "range", "respond", "quit",
                         "parked", "closing", "done"}]
HandOK == hand \in [Goroutines -> 0 .. MaxPayloads]
ChanOK ==
  /\ queue \in [Chans -> Seq(1 .. MaxPayloads)] /\ closed \in [Chans -> BOOLEAN]
  /\ \A c \in Chans : Len(queue[c]) <= ChanCap
AppOK ==
  /\ given \in 0 .. MaxPayloads /\ sent \in 0 .. MaxPayloads
  /\ early \in BOOLEAN /\ got \in Seq(1 .. MaxPayloads)
  /\ reply \in {"none", "response", "nil", "error"}

LEMMA TypeParts == TypeOK <=> EnvOK /\ StreamOK /\ PcOK /\ HandOK /\ ChanOK /\ AppOK
  BY DEF TypeOK, EnvOK, StreamOK, PcOK, HandOK, ChanOK, AppOK

LEMMA Names ==
  /\ Ends = {"host", "plugin"} /\ Peer("host") = "plugin" /\ Peer("plugin") = "host"
  /\ Goroutines = {"call", "copier", "pumpResp", "feeder", "pumpReqs",
                   "handler", "taker", "pumpTaken"}
  /\ Pumps \subseteq Goroutines
  /\ \A g \in Pumps : From(g) \in Chans /\ To(g) \in Chans /\ From(g) # To(g)
  BY DEF Ends, Peer, Goroutines, OfHost, OfPlugin, Pumps, From, To, Chans

LEMMA TypeInit == Init => TypeInv
<1> SUFFICES ASSUME Init PROVE TypeInv
  OBVIOUS
<1>1. MaxPayloads \in Nat /\ 0 \in 0 .. MaxPayloads
  BY CallsAssumption
<1>2. /\ <<>> \in Seq(Frames) /\ <<>> \in Seq(1 .. MaxPayloads) /\ Len(<<>>) = 0
      /\ DOMAIN <<>> = {}
  OBVIOUS
<1>3. 0 <= WireCap /\ 0 <= RecvCap /\ 0 <= ChanCap
  BY CallsAssumption
<1>4. TypeOK
  BY <1>1, <1>2, <1>3 DEF Init, TypeOK
<1>5. RoleInv /\ HandInv /\ OrderInv /\ ModeInv
  BY Names DEF Init, RoleInv, HandInv, OrderInv, ModeInv
<1>6. IdleInv
  BY <1>2, Names DEF Init, IdleInv, Numbered, Chans
<1> QED
  BY <1>4, <1>5, <1>6 DEF TypeInv

-----------------------------------------------------------------------------
(* The stream.  The payloads that arrive at e count in one pattern.        *)
Pattern(e) == IF e = "host" THEN "SingleMulti" ELSE "MultiSingle"
Counts(e, f) == IsData(f) /\ mode = Pattern(e) => f.val \in 1 .. MaxPayloads
NumberInv ==
  \A e \in Ends : mode = Pattern(e) => Numbered(wire[e]) /\ Numbered(recvCh[e])
StreamInv == StreamOK /\ NumberInv

LEMMA NumberedPut ==
  ASSUME NEW q \in Seq(Frames), NEW f \in Frames, Numbered(q),
         IsData(f) => f.val \in 1 .. MaxPayloads
  PROVE  Numbered(Append(q, f))
  BY PutType DEF Numbered

LEMMA NumberedTake ==
  ASSUME NEW q \in Seq(Frames), Numbered(q), q # <<>>
  PROVE  Numbered(Tail(q)) /\ (IsData(Head(q)) => Head(q).val \in 1 .. MaxPayloads)
  BY TakeType DEF Numbered

\* A frame is written to the peer of e.
LEMMA StreamWrite ==
  ASSUME StreamInv, NEW e \in Ends, NEW f \in Frames, Counts(Peer(e), f), Room(e),
         wire' = [wire EXCEPT ![Peer(e)] = Append(@, f)],
         UNCHANGED <<mode, recvCh, cancelled>>, open' \in [Ends -> BOOLEAN]
  PROVE  StreamInv'
<1> DEFINE p == Peer(e)
<1>1. p \in Ends
  BY Names
<1>2. wire[p] \in Seq(Frames) /\ Len(wire[p]) < WireCap /\ WireCap \in Nat
  BY <1>1, CallsAssumption DEF StreamInv, StreamOK, Room
<1> HIDE DEF p
<1>3. /\ Append(wire[p], f) \in Seq(Frames) /\ Len(Append(wire[p], f)) <= WireCap
      /\ mode = Pattern(p) => Numbered(Append(wire[p], f))
  <2>1. mode = Pattern(p) => Numbered(Append(wire[p], f))
    BY <1>1, <1>2, NumberedPut DEF StreamInv, NumberInv, Counts, p
  <2>2. Append(wire[p], f) \in Seq(Frames) /\ Len(Append(wire[p], f)) <= WireCap
    BY <1>2, PutType
  <2> QED
    BY <2>1, <2>2
<1>4. wire'[p] = Append(wire[p], f) /\ \A d \in Ends \ {p} : wire'[d] = wire[d]
  BY <1>1 DEF StreamInv, StreamOK, p
<1>5. wire' \in [Ends -> Seq(Frames)] /\ \A d \in Ends : Len(wire'[d]) <= WireCap
  BY <1>1, <1>3, <1>4 DEF StreamInv, StreamOK, p
<1>6. \A d \in Ends : mode = Pattern(d) => Numbered(wire'[d])
  BY <1>3, <1>4 DEF StreamInv, NumberInv
<1> QED
  BY <1>5, <1>6 DEF StreamInv, StreamOK, NumberInv, Pattern

\* A payload is received.
LEMMA StreamRecv ==
  ASSUME StreamInv, NEW e \in Ends, recvCh[e] # <<>>,
         recvCh' = [recvCh EXCEPT ![e] = Tail(@)],
         UNCHANGED <<mode, wire, open>>, cancelled' \in [Ends -> BOOLEAN]
  PROVE  /\ StreamInv'
         /\ Head(recvCh[e]) \in Frames /\ Counts(e, Head(recvCh[e]))
<1>1. recvCh[e] \in Seq(Frames) /\ RecvCap \in Nat
  BY CallsAssumption DEF StreamInv, StreamOK
<1>2. /\ Tail(recvCh[e]) \in Seq(Frames) /\ Len(Tail(recvCh[e])) <= RecvCap
      /\ Head(recvCh[e]) \in Frames
  BY <1>1, TakeType DEF StreamInv, StreamOK
<1>3. mode = Pattern(e) =>
        /\ Numbered(Tail(recvCh[e]))
        /\ IsData(Head(recvCh[e])) => Head(recvCh[e]).val \in 1 .. MaxPayloads
  BY <1>1, NumberedTake DEF StreamInv, NumberInv
<1>4. recvCh'[e] = Tail(recvCh[e]) /\ \A d \in Ends \ {e} : recvCh'[d] = recvCh[d]
  BY DEF StreamInv, StreamOK
<1>5. recvCh' \in [Ends -> Seq(Frames)] /\ \A d \in Ends : Len(recvCh'[d]) <= RecvCap
  BY <1>2, <1>4 DEF StreamInv, StreamOK
<1>6. \A d \in Ends : mode = Pattern(d) => Numbered(recvCh'[d])
  BY <1>3, <1>4 DEF StreamInv, NumberInv
<1> QED
  BY <1>2, <1>3, <1>5, <1>6 DEF StreamInv, StreamOK, NumberInv, Counts, Pattern

\* Neither a frame nor a payload moves.
LEMMA StreamRests ==
  ASSUME StreamInv, UNCHANGED <<mode, wire, recvCh>>,
         cancelled' \in [Ends -> BOOLEAN], open' \in [Ends -> BOOLEAN]
  PROVE  StreamInv'
  BY DEF StreamInv, StreamOK, NumberInv, Pattern

LEMMA StreamDispatch ==
  ASSUME StreamInv, NEW e \in Ends, Dispatch(e)
  PROVE  StreamInv'
<1>1. wire[e] \in Seq(Frames) /\ recvCh[e] \in Seq(Frames) /\ wire[e] # <<>>
      /\ RecvCap \in Nat
  BY CallsAssumption DEF StreamInv, StreamOK, Dispatch
<1>2. /\ Tail(wire[e]) \in Seq(Frames) /\ Len(Tail(wire[e])) <= WireCap
      /\ Head(wire[e]) \in Frames
  BY <1>1, TakeType, CallsAssumption DEF StreamInv, StreamOK
<1>3. mode = Pattern(e) =>
        /\ Numbered(Tail(wire[e]))
        /\ IsData(Head(wire[e])) => Head(wire[e]).val \in 1 .. MaxPayloads
  BY <1>1, NumberedTake DEF StreamInv, NumberInv
<1> DEFINE f == Head(wire[e])
<1>4. /\ wire'[e] = Tail(wire[e]) /\ \A d \in Ends \ {e} : wire'[d] = wire[d]
      /\ wire' \in [Ends -> Seq(Frames)] /\ \A d \in Ends : Len(wire'[d]) <= WireCap
  BY <1>2 DEF StreamInv, StreamOK, Dispatch
<1>5. \A d \in Ends : mode = Pattern(d) => Numbered(wire'[d])
  BY <1>3, <1>4 DEF StreamInv, NumberInv
<1>6. /\ cancelled' \in [Ends -> BOOLEAN] /\ open' \in [Ends -> BOOLEAN]
      /\ UNCHANGED mode
      /\ \/ UNCHANGED recvCh
         \/ /\ Len(recvCh[e]) < RecvCap
            /\ recvCh' = [recvCh EXCEPT ![e] = Append(@, f)]
  BY DEF StreamInv, StreamOK, Dispatch, envVars
<1> HIDE DEF f
<1>7. CASE UNCHANGED recvCh
  BY <1>4, <1>5, <1>6, <1>7 DEF StreamInv, StreamOK, NumberInv, Pattern
<1>8. CASE /\ Len(recvCh[e]) < RecvCap
           /\ recvCh' = [recvCh EXCEPT ![e] = Append(@, f)]
  <2>1. /\ Append(recvCh[e], f) \in Seq(Frames) /\ Len(Append(recvCh[e], f)) <= RecvCap
    BY <1>1, <1>2, <1>8, PutType DEF f
  <2>2. mode = Pattern(e) => Numbered(Append(recvCh[e], f))
    BY <1>1, <1>2, <1>3, NumberedPut DEF StreamInv, NumberInv, f
  <2>3. /\ recvCh'[e] = Append(recvCh[e], f)
        /\ \A d \in Ends \ {e} : recvCh'[d] = recvCh[d]
    BY <1>8 DEF StreamInv, StreamOK
  <2>4. recvCh' \in [Ends -> Seq(Frames)] /\ \A d \in Ends : Len(recvCh'[d]) <= RecvCap
    BY <1>8, <2>1, <2>3 DEF StreamInv, StreamOK
  <2>5. \A d \in Ends : mode = Pattern(d) => Numbered(recvCh'[d])
    BY <2>2, <2>3 DEF StreamInv, NumberInv
  <2> QED
    BY <1>4, <1>5, <1>6, <2>4, <2>5 DEF StreamInv, StreamOK, NumberInv, Pattern
<1> QED
  BY <1>6, <1>7, <1>8

LEMMA StreamStart ==
  ASSUME StreamInv, DispatchStart
  PROVE  StreamInv'
<1>1. wire["plugin"] \in Seq(Frames) /\ wire["plugin"] # <<>> /\ WireCap \in Nat
  BY Names, CallsAssumption DEF StreamInv, StreamOK, DispatchStart
<1>2. Tail(wire["plugin"]) \in Seq(Frames) /\ Len(Tail(wire["plugin"])) <= WireCap
  BY <1>1, Names, TakeType DEF StreamInv, StreamOK
<1>3. mode = Pattern("plugin") => Numbered(Tail(wire["plugin"]))
  BY <1>1, Names, NumberedTake DEF StreamInv, NumberInv
<1>4. /\ wire'["plugin"] = Tail(wire["plugin"]) /\ wire'["host"] = wire["host"]
      /\ wire' \in [Ends -> Seq(Frames)]
      /\ open' \in [Ends -> BOOLEAN] /\ UNCHANGED <<mode, recvCh, cancelled>>
  BY <1>2, Names DEF StreamInv, StreamOK, DispatchStart, envVars
<1>5. \A d \in Ends : d = "host" \/ d = "plugin"
  BY Names
<1> QED
  BY <1>2, <1>3, <1>4, <1>5 DEF StreamInv, StreamOK, NumberInv, Pattern

LEMMA StreamCrash ==
  ASSUME StreamInv, Crash
  PROVE  StreamInv'
<1>1. <<>> \in Seq(Frames) /\ Len(<<>>) <= WireCap /\ Numbered(<<>>)
  BY CallsAssumption DEF Numbered
<1>2. /\ wire'["plugin"] = <<>> /\ wire'["host"] = wire["host"]
      /\ wire' \in [Ends -> Seq(Frames)]
      /\ UNCHANGED <<mode, recvCh, cancelled, open>>
  BY <1>1, Names DEF StreamInv, StreamOK, Crash
<1>3. \A d \in Ends : d = "host" \/ d = "plugin"
  BY Names
<1> QED
  BY <1>1, <1>2, <1>3 DEF StreamInv, StreamOK, NumberInv, Pattern

\* The frames that the goroutines write.
LEMMA FrameType ==
  /\ \A n \in Nat : \A x \in Flags : /\ Frame(x, n) \in Frames
                                     /\ Frame(x, n).flag = x /\ Frame(x, n).val = n
  /\ \A e \in Ends : \A n \in Nat : \A x \in Flags \ {"data"} : Counts(e, Frame(x, n))
  BY DEF Frame, Frames, Counts, IsData

LEMMA StreamNext ==
  ASSUME TypeInv, StreamInv, Next
  PROVE  StreamInv'
<1> USE DEF envVars, streamVars, chanVars, appVars
<1>0. /\ "host" \in Ends /\ "plugin" \in Ends /\ Peer("host") = "plugin"
      /\ Peer("plugin") = "host"
      /\ {"start", "closewrite", "close"} \subseteq Flags \ {"data"} /\ "data" \in Flags
      /\ 0 \in Nat
  BY Names DEF Flags
<1>1. cancelled \in [Ends -> BOOLEAN] /\ open \in [Ends -> BOOLEAN]
  BY DEF StreamInv, StreamOK
<1>2. ASSUME NEW e \in Ends, NEW f \in Frames, Counts(Peer(e), f), Write(e, f),
             UNCHANGED mode
      PROVE  StreamInv'
  BY <1>1, <1>2, StreamWrite DEF Write
<1>3. ASSUME NEW e \in Ends, NEW x \in {"start", "closewrite", "close"},
             Write(e, Frame(x, 0)), UNCHANGED mode
      PROVE  StreamInv'
  <2>1. Peer(e) \in Ends
    BY Names
  <2>2. x \in Flags \ {"data"} /\ x \in Flags
    BY <1>0
  <2>3. Frame(x, 0) \in Frames /\ Counts(Peer(e), Frame(x, 0))
    BY <2>1, <2>2, FrameType
  <2> QED
    BY <1>2, <1>3, <2>3
<1>4. ASSUME NEW e \in Ends, NEW n \in Nat, Send(e, n), UNCHANGED mode,
             mode = Pattern(Peer(e)) => n \in 1 .. MaxPayloads
      PROVE  StreamInv'
  <2>1. Frame("data", n) \in Frames /\ Frame("data", n).val = n
    BY <1>0, FrameType
  <2>2. Counts(Peer(e), Frame("data", n))
    BY <1>4, <2>1 DEF Counts
  <2> QED
    BY <1>2, <1>4, <2>1, <2>2 DEF Send
<1>5. ASSUME NEW e \in Ends, Recv(e), UNCHANGED mode
      PROVE  StreamInv'
  BY <1>1, <1>5, StreamRecv DEF Recv, Arrived
<1>6. ASSUME UNCHANGED <<mode, wire, recvCh, open>>, cancelled' \in [Ends -> BOOLEAN]
      PROVE  StreamInv'
  BY <1>1, <1>6, StreamRests
<1>7. ASSUME UNCHANGED <<mode, wire, recvCh>>, NEW e \in Ends, NEW b \in BOOLEAN,
             open' = [open EXCEPT ![e] = b], cancelled' \in [Ends -> BOOLEAN]
      PROVE  StreamInv'
  BY <1>1, <1>7, StreamRests
<1>8. ASSUME NEW e \in Ends, Cancel(e), UNCHANGED mode
      PROVE  StreamInv'
  BY <1>1, <1>6, <1>8 DEF Cancel
<1>9. ASSUME NEW g, NEW e \in Ends, CloseEnd(g, e)
      PROVE  StreamInv'
  <2>1. Frame("close", 0) \in Frames /\ Counts(Peer(e), Frame("close", 0))
    BY <1>0, FrameType, Names
  <2>2. /\ open' \in [Ends -> BOOLEAN] /\ UNCHANGED <<mode, recvCh, cancelled>>
    BY <1>1, <1>9 DEF CloseEnd
  <2>3. CASE UNCHANGED wire
    BY <1>1, <2>2, <2>3, StreamRests
  <2>4. CASE Room(e) /\ wire' = [wire EXCEPT ![Peer(e)] = Append(@, Frame("close", 0))]
    BY <2>1, <2>2, <2>4, StreamWrite
  <2> QED
    BY <1>9, <2>3, <2>4 DEF CloseEnd
<1>10. CASE CallSteps \/ CallStart
  <2>1. CASE CallStart
    BY <1>0, <1>1, <1>7, <2>1 DEF CallStart
  <2>2. CASE CallWritesStart
    BY <1>0, <1>3, <2>2 DEF CallWritesStart
  <2>3. CASE CallStartFails
    BY <1>0, <1>1, <1>7, <2>3 DEF CallStartFails
  <2>4. CASE CallSendsRequest
    <3>1. mode # Pattern("plugin")
      BY <2>4 DEF CallSendsRequest, Moves, TypeInv, ModeInv, Pattern
    <3> QED
      BY <1>0, <1>4, <2>4, <3>1 DEF CallSendsRequest
  <2>5. CASE CallEndsRequest
    BY <1>0, <1>3, <2>5 DEF CallEndsRequest
  <2>6. CASE CallRequestFails
    BY <1>0, <1>8, <2>6 DEF CallRequestFails
  <2>7. CASE CallRecvs
    <3>1. cancelled' \in [Ends -> BOOLEAN] /\ UNCHANGED <<mode, wire, open>>
      BY <1>1, <2>7 DEF CallRecvs, CallReturns
    <3>2. CASE UNCHANGED recvCh
      BY <1>6, <3>1, <3>2
    <3>3. CASE Arrived("host") /\ recvCh' = [recvCh EXCEPT !["host"] = Tail(@)]
      BY <1>0, <3>1, <3>3, StreamRecv DEF Arrived
    <3> QED
      BY <2>7, <3>2, <3>3 DEF CallRecvs
  <2>8. CASE CloseEnd("call", "host")
    BY <1>0, <1>9, <2>8
  <2> QED
    BY <1>10, <2>1, <2>2, <2>3, <2>4, <2>5, <2>6, <2>7, <2>8 DEF CallSteps
<1>11. CASE CopierSteps
  <2>1. CASE CopierRecvs
    BY <1>0, <1>5, <2>1 DEF CopierRecvs, Recvs
  <2>2. CASE CopierPushes
    BY <1>1, <1>6, <2>2 DEF CopierPushes, PassesOn
  <2>3. CASE CopierEnds
    BY <1>0, <1>8, <2>3 DEF CopierEnds, CopierEndsIf
  <2>4. CASE CloseEnd("copier", "host")
    BY <1>0, <1>9, <2>4
  <2> QED
    BY <1>11, <2>1, <2>2, <2>3, <2>4 DEF CopierSteps
<1>12. CASE FeederSteps
  <2>1. CASE FeederTakes
    BY <1>1, <1>6, <2>1 DEF FeederTakes
  <2>2. CASE FeederSends
    <3>1. hand["feeder"] \in 1 .. MaxPayloads
      BY <2>2, Names, CallsAssumption
      DEF FeederSends, Moves, TypeInv, TypeOK, HandInv
    <3> QED
      BY <1>0, <1>4, <2>2, <3>1 DEF FeederSends
  <2>3. CASE FeederEnds
    BY <1>0, <1>1, <1>3, <1>6, <2>3 DEF FeederEnds
  <2>4. CASE FeederFails
    BY <1>0, <1>8, <2>4 DEF FeederFails
  <2>5. CASE CloseEnd("feeder", "host")
    BY <1>0, <1>9, <2>5
  <2> QED
    BY <1>12, <2>1, <2>2, <2>3, <2>4, <2>5 DEF FeederSteps
<1>13. CASE HandlerSteps \/ HandlerDecides
  <2>1. CASE HandlerRecvs
    BY <1>0, <1>1, <1>5, <1>6, <2>1 DEF HandlerRecvs
  <2>2. CASE HandlerSends
    <3>1. sent + 1 \in Nat /\ sent + 1 \in 1 .. MaxPayloads
      BY <2>2, CallsAssumption DEF HandlerSends, TypeInv, TypeOK
    <3> QED
      BY <1>0, <1>4, <2>2, <3>1 DEF HandlerSends
  <2>3. CASE \/ HandlerStops \/ HandlerCalls \/ HandlerSendFails \/ HandlerSkips
             \/ HandlerStarts \/ HandlerTakes \/ HandlerResponds
             \/ HandlerStopsEarly \/ HandlerGivesUp
    BY <1>1, <1>6, <2>3
    DEF HandlerStops, HandlerCalls, HandlerSendFails, HandlerSkips, HandlerStarts,
        HandlerTakes, HandlerResponds, HandlerRespondsIf,
        HandlerStopsEarly, HandlerGivesUp
  <2>4. CASE HandlerSendsResponse
    <3>1. mode # Pattern("host")
      BY <2>4 DEF HandlerSendsResponse, Moves, TypeInv, ModeInv, Pattern
    <3>2. CASE Send("plugin", 1)
      BY <1>0, <1>4, <2>4, <3>1, <3>2 DEF HandlerSendsResponse
    <3>3. CASE UNCHANGED streamVars
      BY <1>1, <1>6, <2>4, <3>3 DEF HandlerSendsResponse
    <3> QED
      BY <2>4, <3>2, <3>3 DEF HandlerSendsResponse
  <2>5. CASE HandlerEndsResponse
    BY <1>0, <1>3, <2>5 DEF HandlerEndsResponse
  <2>6. CASE HandlerQuits
    BY <1>0, <1>8, <2>6 DEF HandlerQuits
  <2>7. CASE CloseEnd("handler", "plugin")
    BY <1>0, <1>9, <2>7
  <2> QED
    BY <1>13, <2>1, <2>2, <2>3, <2>4, <2>5, <2>6, <2>7 DEF HandlerSteps, HandlerDecides
<1>14. CASE TakerSteps
  BY <1>0, <1>1, <1>5, <1>6, <1>14
  DEF TakerSteps, TakerRecvs, TakerPushes, TakerEnds, Recvs, PassesOn, CloseChan
<1>15. CASE \/ \E g \in Pumps : PumpSteps(g)
            \/ AppCloses \/ AppTakes \/ AppGives \/ ContextEnds
  BY <1>1, <1>6, <1>15
  DEF PumpSteps, PumpTakes, PumpPuts, PumpEnds, AppCloses, AppTakes, AppGives,
      ContextEnds
<1>16. CASE LoopFails
  BY <1>0, <1>1, <1>7, <1>16 DEF LoopFails
<1> QED
  BY <1>10, <1>11, <1>12, <1>13, <1>14, <1>15, <1>16, StreamDispatch, StreamStart,
     StreamCrash
  DEF Next, Proceed, Decide

-----------------------------------------------------------------------------
(* The goroutines.                                                         *)
LEMMA PcNext ==
  ASSUME TypeInv, Next
  PROVE  PcOK' /\ RoleInv' /\ ModeInv'
<1> USE DEF envVars, streamVars, chanVars, appVars, PcOK
<1>0. /\ PcOK /\ RoleInv /\ ModeInv /\ Pumps = {"pumpResp", "pumpReqs", "pumpTaken"}
      /\ mode \in {"SingleMulti", "MultiSingle"}
  BY DEF TypeInv, TypeOK, Pumps
<1>1. ASSUME UNCHANGED <<mode, pc>>
      PROVE  PcOK' /\ RoleInv' /\ ModeInv'
  BY <1>0, <1>1 DEF RoleInv, ModeInv
<1>2. CASE \/ CallStart \/ CallWritesStart
    BY <1>0, <1>2, Names DEF CallStart, CallWritesStart, RoleInv, ModeInv
<1>3. CASE \/ CallStartFails \/ CallSendsRequest \/ CallRequestFails
    BY <1>0, <1>3, Names
    DEF CallStartFails, CallSendsRequest, CallRequestFails, Moves, RoleInv, ModeInv
<1>4. CASE CallEndsRequest
    BY <1>0, <1>4, Names DEF CallEndsRequest, RoleInv, ModeInv
<1>5. CASE CallRecvs
    BY <1>0, <1>5, Names DEF CallRecvs, CallReturns, RoleInv, ModeInv
<1>6. CASE CloseEnd("call", "host") \/ CloseEnd("copier", "host")
           \/ CloseEnd("feeder", "host") \/ CloseEnd("handler", "plugin")
    BY <1>0, <1>6, Names DEF CloseEnd, Moves, RoleInv, ModeInv
<1>7. CASE CopierRecvs \/ CopierPushes
    BY <1>0, <1>7, Names DEF CopierRecvs, CopierPushes, Recvs, PassesOn, Moves,
       RoleInv, ModeInv
<1>8. CASE CopierEnds
    BY <1>0, <1>8, Names DEF CopierEnds, CopierEndsIf, Moves, RoleInv, ModeInv
<1>9. CASE FeederTakes \/ FeederSends \/ FeederEnds \/ FeederFails
    BY <1>0, <1>9, Names
    DEF FeederTakes, FeederSends, FeederEnds, FeederFails, Moves, RoleInv, ModeInv
<1>10. CASE HandlerRecvs \/ HandlerStarts
    BY <1>0, <1>10, Names DEF HandlerRecvs, HandlerStarts, Moves, RoleInv, ModeInv
<1>11. CASE \/ HandlerStops \/ HandlerCalls \/ HandlerSends \/ HandlerSendFails
            \/ HandlerResponds \/ HandlerStopsEarly \/ HandlerGivesUp
    BY <1>0, <1>11, Names
    DEF HandlerStops, HandlerCalls, HandlerSends, HandlerSendFails, HandlerResponds,
        HandlerStopsEarly, HandlerRespondsIf, HandlerGivesUp, Moves, RoleInv, ModeInv
<1>12. CASE HandlerSendsResponse \/ HandlerEndsResponse \/ HandlerQuits
    BY <1>0, <1>12, Names
    DEF HandlerSendsResponse, HandlerEndsResponse, HandlerQuits, Moves, RoleInv, ModeInv
<1>13. CASE TakerRecvs \/ TakerPushes \/ TakerEnds
    BY <1>0, <1>13, Names
    DEF TakerRecvs, TakerPushes, TakerEnds, Recvs, PassesOn, Moves, RoleInv, ModeInv
<1>14. CASE \E g \in Pumps : PumpEnds(g)
    BY <1>0, <1>14, Names DEF PumpEnds, Moves, RoleInv, ModeInv
<1>15. CASE DispatchStart
    BY <1>0, <1>15, Names DEF DispatchStart, RoleInv, ModeInv
<1>16. CASE Crash
  <2>1. \A g \in Goroutines : pc'[g] = IF g \in OfPlugin THEN "done" ELSE pc[g]
    BY <1>16 DEF Crash
  <2>2. PcOK'
    BY <1>0, <1>16 DEF Crash
  <2>3. mode' = mode
    BY <1>16 DEF Crash
  <2> QED
    BY <1>0, <2>1, <2>2, <2>3, Names DEF RoleInv, ModeInv, OfPlugin
<1>17. CASE \/ HandlerSkips \/ HandlerTakes \/ AppGives \/ AppCloses \/ AppTakes
            \/ ContextEnds \/ LoopFails \/ \E e \in Ends : Dispatch(e)
            \/ \E g \in Pumps : PumpTakes(g) \/ PumpPuts(g)
    BY <1>1, <1>17
    DEF HandlerSkips, HandlerTakes, AppGives, AppCloses, AppTakes, ContextEnds,
        LoopFails, Dispatch, PumpTakes, PumpPuts
<1> QED
  BY <1>2, <1>3, <1>4, <1>5, <1>6, <1>7, <1>8, <1>9, <1>10, <1>11, <1>12, <1>13,
     <1>14, <1>15, <1>16, <1>17
  DEF Next, Proceed, Decide, CallSteps, CopierSteps, FeederSteps, HandlerSteps,
      HandlerDecides,
      TakerSteps, PumpSteps

\* The payloads in hand.
LEMMA HandNext ==
  ASSUME TypeInv, NumberInv, Next
  PROVE  HandOK' /\ HandInv'
<1> USE DEF envVars, streamVars, chanVars, appVars, PcOK, HandOK
<1>0. /\ PcOK /\ HandOK /\ HandInv /\ Pumps = {"pumpResp", "pumpReqs", "pumpTaken"}
      /\ 0 \in 0 .. MaxPayloads /\ 1 .. MaxPayloads \subseteq 0 .. MaxPayloads
  BY CallsAssumption DEF TypeInv, TypeOK, Pumps
<1>1. CASE UNCHANGED <<pc, hand>>
  BY <1>0, <1>1 DEF HandInv
<1>2. CASE UNCHANGED hand /\ (\/ CallStart \/ CallWritesStart)
  <2>1. /\ \A g \in {"copier", "taker"} : pc'[g] = pc[g]
        /\ pc'["feeder"] \in {pc["feeder"], "run"}
        /\ \A g \in Pumps : pc'[g] \in {pc[g], "run"}
    BY <1>0, <1>2, Names DEF CallStart, CallWritesStart
  <2> QED
    BY <1>0, <1>2, <2>1 DEF HandInv
<1>3. CASE UNCHANGED hand /\ (\/ CallStartFails \/ CallSendsRequest \/ CallRequestFails)
  <2>1. \E x \in {"done", "end", "closing"} : pc' = [pc EXCEPT !["call"] = x]
    BY <1>3
    DEF CallStartFails, CallSendsRequest, CallRequestFails, Moves
  <2> QED
    BY <1>0, <1>3, <2>1, Names DEF HandInv
<1>4. CASE CallEndsRequest
  <2>1. /\ pc["copier"] = "off" /\ pc["call"] = "end" /\ hand' = hand
        /\ pc' = [pc EXCEPT !["call"] = "done", !["copier"] = "recv", !["pumpResp"] = "run"]
    BY <1>4 DEF CallEndsRequest, TypeInv, OrderInv
  <2> QED
    BY <1>0, <2>1, Names DEF HandInv
<1>5. CASE CallRecvs
  BY <1>0, <1>5, Names DEF CallRecvs, CallReturns, HandInv
<1>6. CASE CloseEnd("call", "host") \/ CloseEnd("copier", "host")
           \/ CloseEnd("feeder", "host") \/ CloseEnd("handler", "plugin")
  BY <1>0, <1>6, Names DEF CloseEnd, Moves, HandInv
<1>7. ASSUME NEW g \in {"copier", "taker"}, NEW e \in Ends, mode = Pattern(e), Recvs(g, e)
      PROVE  HandOK' /\ HandInv'
  <2>1. /\ recvCh[e] \in Seq(Frames) /\ recvCh[e] # <<>> /\ IsData(Head(recvCh[e]))
        /\ Numbered(recvCh[e])
    BY <1>7 DEF TypeInv, TypeOK, NumberInv, Recvs, Recv, Arrived, IsData
  <2>2. Head(recvCh[e]).val \in 1 .. MaxPayloads
    BY <2>1, NumberedTake
  <2> DEFINE n == Head(recvCh[e]).val
  <2>3. n \in 1 .. MaxPayloads
    BY <2>2
  <2>4. hand' = [hand EXCEPT ![g] = n] /\ pc' = [pc EXCEPT ![g] = "push"]
    BY <1>7 DEF Recvs, Moves
  <2> HIDE DEF n
  <2>5. n # 0 /\ n \in 0 .. MaxPayloads
    BY <2>3, <1>0
  <2> QED
    BY <1>0, <1>7, <2>4, <2>5, Names DEF HandInv
<1>8. CASE CopierRecvs
  <2>1. mode = Pattern("host") /\ "host" \in Ends
    BY <1>8, Names DEF CopierRecvs, Recvs, Moves, TypeInv, TypeOK, ModeInv, Pattern
  <2> QED
    BY <1>7, <1>8, <2>1 DEF CopierRecvs
<1>9. CASE TakerRecvs
  <2>1. mode = Pattern("plugin") /\ "plugin" \in Ends
    BY <1>9, Names DEF TakerRecvs, Recvs, Moves, TypeInv, TypeOK, ModeInv, Pattern
  <2> QED
    BY <1>7, <1>9, <2>1 DEF TakerRecvs
<1>10. CASE CopierPushes \/ TakerPushes
  BY <1>0, <1>10, Names DEF CopierPushes, TakerPushes, PassesOn, Moves, HandInv
<1>11. CASE CopierEnds \/ TakerEnds
  BY <1>0, <1>11, Names DEF CopierEnds, CopierEndsIf, TakerEnds, Moves, HandInv
<1>12. CASE FeederTakes
  <2>1. queue["rawReqs"] \in Seq(1 .. MaxPayloads) /\ queue["rawReqs"] # <<>>
    BY <1>12 DEF FeederTakes, Get, TypeInv, TypeOK, Chans
  <2> DEFINE n == Head(queue["rawReqs"])
  <2>2. n \in 1 .. MaxPayloads
    BY <2>1, TakeType
  <2>3. hand' = [hand EXCEPT !["feeder"] = n] /\ pc' = [pc EXCEPT !["feeder"] = "send"]
    BY <1>12 DEF FeederTakes, Moves
  <2> HIDE DEF n
  <2>4. n # 0 /\ n \in 0 .. MaxPayloads
    BY <2>2, <1>0
  <2> QED
    BY <1>0, <2>3, <2>4, Names DEF HandInv
<1>13. CASE FeederSends \/ FeederEnds \/ FeederFails
  <2>1. /\ \E x \in {"run", "done", "closing"} : pc' = [pc EXCEPT !["feeder"] = x]
        /\ hand' = hand
    BY <1>13 DEF FeederSends, FeederEnds, FeederFails, Moves
  <2> QED
    BY <1>0, <2>1, Names DEF HandInv
<1>14. CASE HandlerRecvs \/ HandlerStarts
  <2>1. /\ pc'["copier"] = pc["copier"] /\ pc'["feeder"] = pc["feeder"]
        /\ pc'["taker"] \in {pc["taker"], "recv"} /\ hand' = hand
        /\ \A g \in Pumps : pc'[g] \in {pc[g], "run"}
        /\ pc'["taker"] # pc["taker"] => hand["taker"] = 0
    <3>1. HandlerStarts => pc["taker"] = "off" /\ hand["taker"] = 0
      BY DEF HandlerStarts, TypeInv, OrderInv, HandInv
    <3> QED
      BY <1>0, <1>14, <3>1, Names DEF HandlerRecvs, HandlerStarts, Moves
  <2> QED
    BY <1>0, <2>1 DEF HandInv
<1>15. CASE \/ HandlerStops \/ HandlerCalls \/ HandlerSends \/ HandlerSendFails
            \/ HandlerResponds \/ HandlerStopsEarly \/ HandlerGivesUp
  BY <1>0, <1>15, Names
  DEF HandlerStops, HandlerCalls, HandlerSends, HandlerSendFails, HandlerResponds,
      HandlerStopsEarly, HandlerRespondsIf, HandlerGivesUp, Moves, HandInv
<1>16. CASE HandlerSendsResponse \/ HandlerEndsResponse \/ HandlerQuits
  BY <1>0, <1>16, Names
  DEF HandlerSendsResponse, HandlerEndsResponse, HandlerQuits, Moves, HandInv
<1>17. ASSUME NEW g \in Pumps, PumpTakes(g)
       PROVE  HandOK' /\ HandInv'
  <2>1. queue[From(g)] \in Seq(1 .. MaxPayloads) /\ queue[From(g)] # <<>>
    BY <1>17, Names DEF PumpTakes, Get, TypeInv, TypeOK
  <2>2. Head(queue[From(g)]) \in 1 .. MaxPayloads
    BY <2>1, TakeType
  <2> DEFINE n == LET m == Head(queue[From(g)]) IN IF Converts(g, m) THEN m ELSE 0
  <2>3. n \in 0 .. MaxPayloads
    BY <2>2, <1>0
  <2>4. hand' = [hand EXCEPT ![g] = n] /\ pc' = pc /\ pc[g] = "run"
    BY <1>17 DEF PumpTakes
  <2> HIDE DEF n
  <2> QED
    BY <1>0, <2>3, <2>4, Names DEF HandInv
<1>18. CASE \E g \in Pumps : PumpPuts(g) \/ PumpEnds(g)
  BY <1>0, <1>18, Names DEF PumpPuts, PumpEnds, Moves, HandInv
<1>19. CASE DispatchStart
  BY <1>0, <1>19, Names DEF DispatchStart, HandInv
<1>20. CASE Crash
  <2>1. \A g \in Goroutines : pc'[g] = IF g \in OfPlugin THEN "done" ELSE pc[g]
    BY <1>20 DEF Crash
  <2>2. hand' = hand
    BY <1>20 DEF Crash
  <2> QED
    BY <1>0, <2>1, <2>2, Names DEF HandInv, OfPlugin
<1>21. CASE \/ HandlerSkips \/ HandlerTakes \/ AppGives \/ AppCloses \/ AppTakes
            \/ ContextEnds \/ LoopFails \/ \E e \in Ends : Dispatch(e)
  BY <1>1, <1>21
  DEF HandlerSkips, HandlerTakes, AppGives, AppCloses, AppTakes, ContextEnds,
      LoopFails, Dispatch
<1>22. CASE \/ CallStart \/ CallWritesStart \/ CallStartFails \/ CallSendsRequest
            \/ CallRequestFails
  <2>1. UNCHANGED hand
    BY <1>22 DEF CallStart, CallWritesStart, CallStartFails, CallSendsRequest,
       CallRequestFails
  <2> QED
    BY <1>2, <1>3, <1>22, <2>1
<1> QED
  BY <1>4, <1>5, <1>6, <1>8, <1>9, <1>10, <1>11, <1>12, <1>13, <1>14, <1>15, <1>16,
     <1>17, <1>18, <1>19, <1>20, <1>21, <1>22
  DEF Next, Proceed, Decide, CallSteps, CopierSteps, FeederSteps, HandlerSteps,
      HandlerDecides,
      TakerSteps, PumpSteps

\* The Go channels.
IdleChans ==
  IF mode = "SingleMulti" THEN {"reqs", "rawReqs", "rawTaken", "taken"} ELSE {"resp", "rawResp"}
ChanInv == ChanOK /\ \A c \in IdleChans : queue[c] = <<>>

LEMMA IdleParts == mode \in {"SingleMulti", "MultiSingle"} =>
  (IdleInv <=> NumberInv /\ \A c \in IdleChans : queue[c] = <<>>)
  BY Names DEF IdleInv, IdleChans, NumberInv, Pattern

LEMMA ChanPut ==
  ASSUME ChanInv, NEW c \in Chans \ IdleChans, NEW n \in 1 .. MaxPayloads, Put(c, n),
         UNCHANGED <<mode, closed>>
  PROVE  ChanInv'
<1>1. queue[c] \in Seq(1 .. MaxPayloads) /\ Len(queue[c]) < ChanCap /\ ChanCap \in Nat
  BY CallsAssumption DEF ChanInv, ChanOK, Put
<1>2. /\ Append(queue[c], n) \in Seq(1 .. MaxPayloads)
      /\ Len(Append(queue[c], n)) <= ChanCap
  BY <1>1, PutType
<1>3. /\ queue'[c] = Append(queue[c], n)
      /\ \A d \in Chans \ {c} : queue'[d] = queue[d]
  BY DEF Put, ChanInv, ChanOK
<1>4. queue' \in [Chans -> Seq(1 .. MaxPayloads)]
  BY <1>2 DEF Put, ChanInv, ChanOK
<1>5. IdleChans' = IdleChans /\ IdleChans \subseteq Chans
  BY DEF IdleChans, Chans
<1> QED
  BY <1>2, <1>3, <1>4, <1>5 DEF ChanInv, ChanOK

LEMMA ChanGet ==
  ASSUME ChanInv, NEW c \in Chans, Get(c), UNCHANGED <<mode, closed>>
  PROVE  /\ ChanInv'
         /\ Head(queue[c]) \in 1 .. MaxPayloads /\ c \notin IdleChans
<1>1. queue[c] \in Seq(1 .. MaxPayloads) /\ queue[c] # <<>>
      /\ Len(queue[c]) <= ChanCap /\ ChanCap \in Nat
  BY CallsAssumption DEF ChanInv, ChanOK, Get
<1>2. /\ Tail(queue[c]) \in Seq(1 .. MaxPayloads) /\ Head(queue[c]) \in 1 .. MaxPayloads
      /\ Len(Tail(queue[c])) <= ChanCap
  <2> DEFINE q == queue[c]
             S == 1 .. MaxPayloads
  <2>1. q \in Seq(S) /\ q # <<>> /\ Len(q) <= ChanCap
    BY <1>1
  <2> HIDE DEF q, S
  <2>2. Tail(q) \in Seq(S) /\ Head(q) \in S /\ Len(Tail(q)) = Len(q) - 1 /\ Len(q) \in Nat
    BY <2>1, TakeType
  <2>3. Len(Tail(q)) <= ChanCap
    BY <1>1, <2>1, <2>2
  <2> QED
    BY <2>2, <2>3 DEF q, S
<1>3. /\ queue'[c] = Tail(queue[c])
      /\ \A d \in Chans \ {c} : queue'[d] = queue[d]
  BY DEF Get, ChanInv, ChanOK
<1>4. queue' \in [Chans -> Seq(1 .. MaxPayloads)]
  BY <1>2 DEF Get, ChanInv, ChanOK
<1>5. IdleChans' = IdleChans /\ IdleChans \subseteq Chans /\ c \notin IdleChans
  BY <1>1 DEF IdleChans, Chans, ChanInv
<1> QED
  BY <1>2, <1>3, <1>4, <1>5 DEF ChanInv, ChanOK

LEMMA ChanRests ==
  ASSUME ChanInv, UNCHANGED <<mode, queue>>, closed' \in [Chans -> BOOLEAN]
  PROVE  ChanInv'
  BY DEF ChanInv, ChanOK, IdleChans

LEMMA ChanNext ==
  ASSUME TypeInv, ChanInv, Next
  PROVE  ChanInv'
<1> USE DEF envVars, streamVars, chanVars, appVars
<1>0. /\ mode \in {"SingleMulti", "MultiSingle"} /\ closed \in [Chans -> BOOLEAN]
      /\ ModeInv /\ hand \in [Goroutines -> 0 .. MaxPayloads] /\ HandInv
  BY DEF TypeInv, TypeOK
<1>1. CASE UNCHANGED <<mode, chanVars>>
  BY <1>0, <1>1, ChanRests
<1>2. ASSUME NEW c \in Chans, CloseChan(c), UNCHANGED mode
      PROVE  ChanInv'
  BY <1>0, <1>2, ChanRests DEF CloseChan
<1>3. ASSUME NEW c \in Chans, Get(c), UNCHANGED <<mode, closed>>
      PROVE  ChanInv'
  BY <1>3, ChanGet
<1>4. ASSUME NEW g \in {"copier", "taker"}, NEW c \in Chans \ IdleChans, PassesOn(g, c)
      PROVE  ChanInv'
  <2>1. hand[g] \in 1 .. MaxPayloads
    BY <1>0, <1>4, Names, CallsAssumption DEF PassesOn, Moves, HandInv
  <2> QED
    BY <1>4, <2>1, ChanPut DEF PassesOn
<1>5. CASE CopierPushes
  <2>1. "rawResp" \in Chans \ IdleChans
    BY <1>0, <1>5 DEF CopierPushes, PassesOn, Moves, ModeInv, IdleChans, Chans
  <2> QED
    BY <1>4, <1>5, <2>1 DEF CopierPushes
<1>6. CASE TakerPushes
  <2>1. "rawTaken" \in Chans \ IdleChans
    BY <1>0, <1>6 DEF TakerPushes, PassesOn, Moves, ModeInv, IdleChans, Chans
  <2> QED
    BY <1>4, <1>6, <2>1 DEF TakerPushes
<1>7. CASE CopierEnds
  BY <1>2, <1>7 DEF CopierEnds, CopierEndsIf, Chans
<1>8. CASE TakerEnds
  BY <1>2, <1>8 DEF TakerEnds, Chans
<1>9. CASE FeederTakes
  BY <1>3, <1>9 DEF FeederTakes, Chans
<1>10. CASE HandlerTakes
  BY <1>3, <1>10 DEF HandlerTakes, Chans
<1>11. CASE AppTakes
  BY <1>3, <1>11 DEF AppTakes, Chans
<1>12. CASE AppCloses
  BY <1>2, <1>12 DEF AppCloses, Chans
<1>13. CASE AppGives
  <2>1. given + 1 \in 1 .. MaxPayloads
    BY <1>13, CallsAssumption DEF AppGives, TypeInv, TypeOK
  <2>2. "reqs" \in Chans \ IdleChans
    BY <1>13 DEF AppGives, IdleChans, Chans
  <2> QED
    BY <1>13, <2>1, <2>2, ChanPut DEF AppGives
<1>14. ASSUME NEW g \in Pumps, PumpSteps(g)
       PROVE  ChanInv'
  <2>1. CASE PumpTakes(g)
    BY <1>3, <1>14, <2>1, Names DEF PumpTakes
  <2>2. CASE PumpPuts(g)
    <3>1. hand[g] \in 1 .. MaxPayloads
      BY <1>0, <2>2, Names, CallsAssumption DEF PumpPuts
    <3>2. To(g) \in Chans \ IdleChans
      BY <1>0, <2>2 DEF PumpPuts, To, Pumps, ModeInv, IdleChans, Chans
    <3> QED
      BY <2>2, <3>1, <3>2, ChanPut DEF PumpPuts
  <2>3. CASE PumpEnds(g)
    BY <1>2, <1>14, <2>3, Names DEF PumpEnds
  <2> QED
    BY <1>14, <2>1, <2>2, <2>3 DEF PumpSteps
<1>15. CASE CallSteps \/ CallStart
  BY <1>1, <1>15
  DEF CallSteps, CallStart, CallWritesStart, CallStartFails, CallSendsRequest,
      CallEndsRequest, CallRequestFails, CallRecvs, CallReturns, CloseEnd
<1>16. CASE \/ CopierRecvs \/ TakerRecvs \/ CloseEnd("copier", "host")
            \/ FeederSends \/ FeederEnds \/ FeederFails \/ CloseEnd("feeder", "host")
  BY <1>1, <1>16
  DEF CopierRecvs, TakerRecvs, Recvs, FeederSends, FeederEnds, FeederFails, CloseEnd
<1>17. CASE \/ HandlerRecvs \/ HandlerSends \/ HandlerStops \/ HandlerCalls
            \/ HandlerSendFails \/ HandlerSkips \/ HandlerStarts
            \/ HandlerResponds \/ HandlerSendsResponse \/ HandlerEndsResponse
            \/ HandlerQuits \/ CloseEnd("handler", "plugin") \/ HandlerStopsEarly
            \/ HandlerGivesUp
  BY <1>1, <1>17
  DEF HandlerRecvs, HandlerSends, HandlerStops, HandlerCalls, HandlerSendFails,
      HandlerSkips, HandlerStarts, HandlerResponds,
      HandlerRespondsIf, HandlerSendsResponse, HandlerEndsResponse, HandlerQuits,
      CloseEnd, HandlerStopsEarly, HandlerGivesUp
<1>18. CASE \/ DispatchStart \/ LoopFails \/ ContextEnds \/ Crash
            \/ \E e \in Ends : Dispatch(e)
  BY <1>1, <1>18 DEF DispatchStart, LoopFails, ContextEnds, Crash, Dispatch
<1> QED
  BY <1>5, <1>6, <1>7, <1>8, <1>9, <1>10, <1>11, <1>12, <1>13, <1>14, <1>15, <1>16,
     <1>17, <1>18
  DEF Next, Proceed, Decide, CopierSteps, FeederSteps, HandlerSteps, HandlerDecides,
      TakerSteps

LEMMA AppNext ==
  ASSUME TypeInv, ChanInv, Next
  PROVE  AppOK'
<1> USE DEF envVars, streamVars, chanVars, appVars
<1>0. AppOK
  BY DEF TypeInv, TypeOK, AppOK
<1>1. CASE UNCHANGED appVars
  BY <1>0, <1>1 DEF AppOK
<1>2. CASE CallStartFails \/ CallRequestFails \/ CallRecvs
  BY <1>0, <1>2
  DEF AppOK, CallStartFails, CallRequestFails, CallRecvs, CallReturns
<1>3. CASE HandlerSends \/ HandlerSkips \/ AppGives
  BY <1>0, <1>3, CallsAssumption DEF AppOK, HandlerSends, HandlerSkips, AppGives
<1>4. CASE HandlerResponds \/ HandlerStopsEarly \/ HandlerGivesUp
  BY <1>0, <1>4
  DEF AppOK, HandlerResponds, HandlerStopsEarly, HandlerRespondsIf, HandlerGivesUp
<1>5. CASE HandlerTakes \/ AppTakes
  <2>1. PICK c \in Chans : Get(c) /\ got' = Append(got, Head(queue[c]))
                           /\ UNCHANGED <<mode, closed, given, sent, early, reply>>
    BY <1>5 DEF HandlerTakes, AppTakes, Chans
  <2>2. Head(queue[c]) \in 1 .. MaxPayloads
    BY <2>1, ChanGet
  <2> QED
    BY <1>0, <2>1, <2>2, PutType DEF AppOK
<1>6. CASE \/ CallStart \/ CallWritesStart \/ CallSendsRequest \/ CallEndsRequest
           \/ CloseEnd("call", "host") \/ CopierSteps \/ TakerSteps
  BY <1>1, <1>6
  DEF CallStart, CallWritesStart, CallSendsRequest, CallEndsRequest, CloseEnd,
      CopierSteps, CopierRecvs, CopierPushes, CopierEnds, CopierEndsIf, Recvs, PassesOn,
      TakerSteps, TakerRecvs, TakerPushes, TakerEnds
<1>7. CASE FeederSteps \/ \E g \in Pumps : PumpSteps(g)
  BY <1>1, <1>7
  DEF FeederSteps, FeederTakes, FeederSends, FeederEnds, FeederFails, CloseEnd,
      PumpSteps, PumpTakes, PumpPuts, PumpEnds
<1>8. CASE \/ HandlerRecvs \/ HandlerStops \/ HandlerCalls \/ HandlerSendFails
           \/ HandlerStarts \/ HandlerSendsResponse
           \/ HandlerEndsResponse \/ HandlerQuits \/ CloseEnd("handler", "plugin")
  BY <1>1, <1>8
  DEF HandlerRecvs, HandlerStops, HandlerCalls, HandlerSendFails, HandlerStarts,
      HandlerSendsResponse,
      HandlerEndsResponse, HandlerQuits, CloseEnd
<1>9. CASE \/ DispatchStart \/ LoopFails \/ AppCloses \/ ContextEnds \/ Crash
           \/ \E e \in Ends : Dispatch(e)
  BY <1>1, <1>9 DEF DispatchStart, LoopFails, AppCloses, ContextEnds, Crash, Dispatch
<1> QED
  BY <1>2, <1>3, <1>4, <1>5, <1>6, <1>7, <1>8, <1>9
  DEF Next, Proceed, Decide, CallSteps, HandlerSteps, HandlerDecides

LEMMA EnvNext ==
  ASSUME TypeInv, Next
  PROVE  EnvOK' /\ mode' = mode
<1> USE DEF envVars, streamVars, chanVars, appVars
<1>0. EnvOK
  BY DEF TypeInv, TypeOK, EnvOK
<1>1. CASE UNCHANGED envVars
  BY <1>0, <1>1 DEF EnvOK
<1>2. CASE ContextEnds \/ Crash
  BY <1>0, <1>2 DEF EnvOK, ContextEnds, Crash
<1>7. ASSUME NEW e \in Ends, NEW g \in Goroutines, CloseEnd(g, e) \/ FeederEnds
      PROVE  EnvOK' /\ mode' = mode
  <2>1. /\ UNCHANGED <<mode, deadlines, served, ctxDone, up>>
        /\ lost' \subseteq lost \cup Ends
    BY <1>7, Names DEF CloseEnd, FeederEnds, GivesUp
  <2> QED
    BY <1>0, <2>1 DEF EnvOK
<1>8. CASE \/ CloseEnd("call", "host") \/ CloseEnd("copier", "host")
           \/ CloseEnd("feeder", "host") \/ CloseEnd("handler", "plugin") \/ FeederEnds
  BY <1>7, <1>8, Names
<1>3. CASE \/ CallStart \/ CallWritesStart \/ CallStartFails \/ CallSendsRequest
           \/ CallEndsRequest \/ CallRequestFails \/ CallRecvs
           \/ CopierRecvs \/ CopierPushes \/ CopierEnds \/ TakerSteps
  BY <1>1, <1>3
  DEF CallStart, CallWritesStart, CallStartFails, CallSendsRequest,
      CallEndsRequest, CallRequestFails, CallRecvs, CallReturns,
      CopierRecvs, CopierPushes, CopierEnds, CopierEndsIf, Recvs, PassesOn,
      TakerSteps, TakerRecvs, TakerPushes, TakerEnds
<1>4. CASE FeederTakes \/ FeederSends \/ FeederFails \/ \E g \in Pumps : PumpSteps(g)
  BY <1>1, <1>4
  DEF FeederTakes, FeederSends, FeederFails, PumpSteps, PumpTakes, PumpPuts, PumpEnds
<1>5. CASE \/ HandlerRecvs \/ HandlerSends \/ HandlerSendFails \/ HandlerStarts
           \/ HandlerSendsResponse \/ HandlerEndsResponse \/ HandlerQuits
           \/ HandlerDecides
  BY <1>1, <1>5
  DEF HandlerRecvs, HandlerSends, HandlerSendFails, HandlerStarts,
      HandlerSendsResponse, HandlerEndsResponse, HandlerQuits, HandlerDecides,
      HandlerCalls, HandlerSkips, HandlerStops, HandlerTakes, HandlerResponds,
      HandlerRespondsIf, HandlerStopsEarly, HandlerGivesUp
<1>6. CASE \/ DispatchStart \/ LoopFails \/ AppCloses \/ AppTakes \/ AppGives
           \/ \E e \in Ends : Dispatch(e)
  BY <1>1, <1>6 DEF DispatchStart, LoopFails, AppCloses, AppTakes, AppGives, Dispatch
<1> QED
  BY <1>2, <1>3, <1>4, <1>5, <1>6, <1>8
  DEF Next, Proceed, Decide, CallSteps, CopierSteps, FeederSteps, HandlerSteps

-----------------------------------------------------------------------------
(***************************************************************************)
(* Lines.  The payloads of a call stand in a line of places, each a        *)
(* sequence of frames: place 1 is the far end, and a payload goes from a   *)
(* place to the one before it.                                             *)
(***************************************************************************)
Lines(n) == [1 .. n -> Seq(Frames)]
Earlier(j, a, k, b) == j < k \/ (j = k /\ a < b)

Stands(P, k, a, n) ==
  k \in DOMAIN P /\ a \in DOMAIN P[k] /\ IsData(P[k][a]) /\ P[k][a].val = n

\* The payloads of P are among the first hi, ...
Within(P, hi) == \A k, a, n : Stands(P, k, a, n) => n \in 1 .. hi
\* ... they stand in their order, ...
Climbs(P) ==
  \A k, a, n, l, b, o :
    Stands(P, k, a, n) /\ Stands(P, l, b, o) /\ Earlier(k, a, l, b) => n < o
\* ... and no readable one is missing before one that is there, ...
Has(P, n) == \E k, a : Stands(P, k, a, n)
NoGap(P) == \A n, o : Has(P, o) /\ n \in 1 .. (o - 1) /\ Readable(n) => Has(P, n)
Line(P, hi) == Within(P, hi) /\ Climbs(P) /\ NoGap(P)
\* ... or no readable one of the first hi at all.
Whole(P, hi) == \A n \in 1 .. hi : Readable(n) => Has(P, n)
\* The first m places hold what unmarshals.
Filtered(P, m) == \A k, a, n : Stands(P, k, a, n) /\ k <= m => Readable(n)

\* The moves in a line: the first of place j + 1 goes to place j, the first of
\* place j is dropped, a frame comes to place j, the places from j on are lost.
Others(P, Q, S) == \A k \in DOMAIN P \ S : Q[k] = P[k]
Passes(P, Q, j) ==
  /\ P[j + 1] # <<>> /\ Q[j] = Append(P[j], Head(P[j + 1])) /\ Q[j + 1] = Tail(P[j + 1])
  /\ Others(P, Q, {j, j + 1})
Lost(f) == IsData(f) => ~Readable(f.val)
Drops(P, Q, j) ==
  P[j] # <<>> /\ Lost(Head(P[j])) /\ Q[j] = Tail(P[j]) /\ Others(P, Q, {j})
Adds(P, Q, j, f) == Q[j] = Append(P[j], f) /\ Others(P, Q, {j})
Cuts(P, Q, j) == \A k \in DOMAIN P : Q[k] = IF k < j THEN P[k] ELSE <<>>

LEMMA PassLine ==
  ASSUME NEW m \in Nat, NEW P \in Lines(m), NEW Q \in Lines(m), NEW j \in 1 .. m,
         j + 1 \in 1 .. m, Passes(P, Q, j)
  PROVE  /\ \A n : Has(Q, n) <=> Has(P, n)
         /\ \A hi : Line(P, hi) => Line(Q, hi)
         /\ \A x \in Nat : Filtered(P, x) /\ (j = x => Readable(Head(P[j + 1]).val)) => Filtered(Q, x)
<1> DEFINE i == j + 1
           L == Len(P[j])
<1>1. /\ DOMAIN P = 1 .. m /\ DOMAIN Q = 1 .. m
      /\ \A k \in 1 .. m : P[k] \in Seq(Frames) /\ Q[k] \in Seq(Frames)
      /\ i \in 1 .. m /\ i # j /\ j < i /\ \A k \in 1 .. m : j < k => i = k \/ i < k
      /\ j \in Nat
  BY DEF Lines
<1>2. P[i] # <<>> /\ Q[j] = Append(P[j], Head(P[i])) /\ Q[i] = Tail(P[i])
  BY DEF Passes
<1>3. \A k \in (1 .. m) \ {j, i} : Q[k] = P[k]
  BY <1>1 DEF Passes, Others
<1>4. i = j + 1
  OBVIOUS
<1> HIDE DEF i
<1>5. /\ Head(P[i]) = P[i][1] /\ 1 \in DOMAIN P[i] /\ Head(P[i]) \in Frames
      /\ \A b \in DOMAIN Q[i] : b + 1 \in DOMAIN P[i] /\ Q[i][b] = P[i][b + 1]
      /\ \A b \in DOMAIN P[i] : b \in Nat /\ (b = 1 \/ (b - 1 \in DOMAIN Q[i] /\ P[i][b] = Q[i][b - 1]))
  BY <1>1, <1>2, TakeType
<1>6. /\ L \in Nat /\ DOMAIN P[j] = 1 .. L /\ DOMAIN Q[j] = 1 .. (L + 1)
      /\ \A b \in 1 .. L : Q[j][b] = P[j][b]
      /\ Q[j][L + 1] = P[i][1] /\ L + 1 \in DOMAIN Q[j]
  BY <1>1, <1>2, <1>5, PutType
<1> HIDE DEF L
\* Where the payloads of Q come from, and those of P go.
<1>7. \A k, a, n : Stands(Q, k, a, n) =>
        /\ k \in 1 .. m /\ a \in Nat \ {0}
        /\ \/ k = j /\ a = L + 1 /\ Stands(P, i, 1, n)
           \/ k = i /\ Stands(P, i, a + 1, n)
           \/ k # i /\ (k = j => a <= L) /\ Stands(P, k, a, n)
  <2> SUFFICES ASSUME NEW k, NEW a, NEW n, Stands(Q, k, a, n)
               PROVE  /\ k \in 1 .. m /\ a \in Nat \ {0}
                      /\ \/ k = j /\ a = L + 1 /\ Stands(P, i, 1, n)
                         \/ k = i /\ Stands(P, i, a + 1, n)
                         \/ k # i /\ (k = j => a <= L) /\ Stands(P, k, a, n)
    OBVIOUS
  <2>1. k \in 1 .. m /\ a \in DOMAIN Q[k] /\ a \in Nat \ {0}
    BY <1>1 DEF Stands
  <2>2. CASE k = j
    BY <1>1, <1>5, <1>6, <2>1, <2>2 DEF Stands
  <2>3. CASE k = i
    BY <1>1, <1>5, <2>1, <2>3 DEF Stands
  <2>4. CASE k # i /\ k # j
    BY <1>1, <1>3, <2>1, <2>4 DEF Stands
  <2> QED
    BY <2>1, <2>2, <2>3, <2>4
<1>8. \A k, a, n : Stands(P, k, a, n) =>
        /\ k \in 1 .. m /\ a \in Nat \ {0} /\ (k = j => a <= L)
        /\ Has(Q, n)
  <2> SUFFICES ASSUME NEW k, NEW a, NEW n, Stands(P, k, a, n)
               PROVE  /\ k \in 1 .. m /\ a \in Nat \ {0} /\ (k = j => a <= L)
                      /\ Has(Q, n)
    OBVIOUS
  <2>1. k \in 1 .. m /\ a \in DOMAIN P[k] /\ a \in Nat \ {0}
    BY <1>1 DEF Stands
  <2>2. CASE k = j
    <3>1. a \in DOMAIN Q[j] /\ Q[j][a] = P[j][a] /\ a <= L
      BY <1>6, <2>1, <2>2
    <3> QED
      BY <1>1, <2>1, <2>2, <3>1 DEF Stands, Has
  <2>3. CASE k = i /\ a = 1
    <3>1. Stands(Q, j, L + 1, n)
      BY <1>1, <1>6, <2>3 DEF Stands
    <3> QED
      BY <1>1, <2>1, <2>3, <3>1 DEF Has
  <2>4. CASE k = i /\ a # 1
    <3>1. Stands(Q, i, a - 1, n)
      BY <1>1, <1>5, <2>1, <2>4 DEF Stands
    <3> QED
      BY <1>1, <2>1, <2>4, <3>1 DEF Has
  <2>5. CASE k # i /\ k # j
    BY <1>1, <1>3, <2>1, <2>5 DEF Stands, Has
  <2> QED
    BY <2>1, <2>2, <2>3, <2>4, <2>5
<1>9. \A n : Has(Q, n) <=> Has(P, n)
  BY <1>7, <1>8 DEF Has
<1>10. ASSUME NEW hi, Within(P, hi)
       PROVE  Within(Q, hi)
  BY <1>7, <1>10 DEF Within
<1>11. ASSUME Climbs(P)
       PROVE  Climbs(Q)
  <2> SUFFICES ASSUME NEW k, NEW a, NEW n, NEW l, NEW b, NEW o, Stands(Q, k, a, n),
                      Stands(Q, l, b, o), Earlier(k, a, l, b)
               PROVE  n < o
    BY DEF Climbs
  <2>1. \A x, c, y, d :
          Stands(P, x, c, n) /\ Stands(P, y, d, o) /\ (x < y \/ (x = y /\ c < d)) => n < o
    BY <1>11 DEF Climbs, Earlier
  <2>2. /\ k \in Nat /\ l \in Nat /\ a \in Nat \ {0} /\ b \in Nat \ {0}
        /\ k < l \/ (k = l /\ a < b)
    BY <1>7 DEF Earlier
  <2>3. CASE k = j /\ a = L + 1 /\ Stands(P, i, 1, n)
    <3>1. CASE l = i /\ Stands(P, i, b + 1, o)
      BY <2>1, <2>2, <2>3, <3>1
    <3>2. CASE l # i /\ Stands(P, l, b, o) /\ (l = j => b <= L)
      <4>1. i < l
        BY <1>1, <1>4, <1>6, <1>7, <2>2, <2>3, <3>2
      <4> QED
        BY <2>1, <2>3, <3>2, <4>1
    <3> QED
      BY <1>6, <1>7, <2>2, <2>3, <3>1, <3>2
  <2>4. CASE k = i /\ Stands(P, i, a + 1, n)
    <3>1. CASE l = i /\ Stands(P, i, b + 1, o)
      BY <2>1, <2>2, <2>4, <3>1
    <3>2. CASE l # i /\ Stands(P, l, b, o)
      BY <2>1, <2>2, <2>4, <3>2
    <3> QED
      BY <1>4, <1>7, <2>2, <2>4, <3>1, <3>2
  <2>5. CASE k # i /\ Stands(P, k, a, n) /\ (k = j => a <= L)
    <3>1. CASE l = j /\ b = L + 1 /\ Stands(P, i, 1, o)
      BY <1>4, <2>1, <2>2, <2>5, <3>1
    <3>2. CASE l = i /\ Stands(P, i, b + 1, o)
      BY <2>1, <2>2, <2>5, <3>2
    <3>3. CASE l # i /\ Stands(P, l, b, o)
      BY <2>1, <2>2, <2>5, <3>3
    <3> QED
      BY <1>7, <3>1, <3>2, <3>3
  <2> QED
    BY <1>7, <2>3, <2>4, <2>5
<1>12. ASSUME NoGap(P)
       PROVE  NoGap(Q)
  BY <1>9, <1>12 DEF NoGap
<1>13. ASSUME NEW x \in Nat, Filtered(P, x), j = x => Readable(Head(P[i]).val)
       PROVE  Filtered(Q, x)
  <2>1. \A n : Stands(P, i, 1, n) => n = Head(P[i]).val
    BY <1>5 DEF Stands
  <2> SUFFICES ASSUME NEW k, NEW a, NEW n, Stands(Q, k, a, n), k <= x
               PROVE  Readable(n)
    BY DEF Filtered
  <2>2. CASE k = j /\ Stands(P, i, 1, n)
    <3>1. CASE j = x
      BY <1>13, <2>1, <2>2, <3>1
    <3>2. CASE j # x
      BY <1>1, <1>4, <1>13, <2>2, <3>2 DEF Filtered
    <3> QED
      BY <3>1, <3>2
  <2>3. CASE k = i /\ Stands(P, i, a + 1, n)
    BY <1>13, <2>3 DEF Filtered
  <2>4. CASE Stands(P, k, a, n)
    BY <1>13, <2>4 DEF Filtered
  <2> QED
    BY <1>7, <2>2, <2>3, <2>4
<1> QED
  BY <1>9, <1>10, <1>11, <1>12, <1>13 DEF Line, i

LEMMA DropLine ==
  ASSUME NEW m \in Nat, NEW P \in Lines(m), NEW Q \in Lines(m), NEW j \in 1 .. m,
         Drops(P, Q, j)
  PROVE  /\ \A n : Readable(n) /\ Has(P, n) => Has(Q, n)
         /\ \A hi : Line(P, hi) => Line(Q, hi)
         /\ \A x : Filtered(P, x) => Filtered(Q, x)
<1>1. /\ DOMAIN P = 1 .. m /\ DOMAIN Q = 1 .. m
      /\ P[j] \in Seq(Frames) /\ P[j] # <<>> /\ Q[j] = Tail(P[j]) /\ Lost(Head(P[j]))
      /\ \A k \in (1 .. m) \ {j} : Q[k] = P[k]
  BY DEF Lines, Drops, Others
<1>2. /\ Head(P[j]) = P[j][1] /\ 1 \in DOMAIN P[j]
      /\ \A b \in DOMAIN Q[j] : b \in Nat /\ b + 1 \in DOMAIN P[j] /\ Q[j][b] = P[j][b + 1]
      /\ \A b \in DOMAIN P[j] : b \in Nat /\ (b = 1 \/ (b - 1 \in DOMAIN Q[j] /\ P[j][b] = Q[j][b - 1]))
  BY <1>1, TakeType
<1>3. \A k, a, n : Stands(Q, k, a, n) =>
        /\ k \in Nat
        /\ \/ k = j /\ a \in Nat /\ Stands(P, k, a + 1, n)
           \/ k # j /\ Stands(P, k, a, n)
  <2> SUFFICES ASSUME NEW k, NEW a, NEW n, Stands(Q, k, a, n)
               PROVE  /\ k \in Nat
                      /\ \/ k = j /\ a \in Nat /\ Stands(P, k, a + 1, n)
                         \/ k # j /\ Stands(P, k, a, n)
    OBVIOUS
  <2>1. k \in 1 .. m /\ a \in DOMAIN Q[k]
    BY <1>1 DEF Stands
  <2>2. CASE k = j
    BY <1>1, <1>2, <2>1, <2>2 DEF Stands
  <2>3. CASE k # j
    BY <1>1, <2>1, <2>3 DEF Stands
  <2> QED
    BY <2>1, <2>2, <2>3
<1>4. ASSUME NEW n, Readable(n), Has(P, n)
      PROVE  Has(Q, n)
  <2>1. PICK k, a : Stands(P, k, a, n)
    BY <1>4 DEF Has
  <2>2. CASE k # j
    BY <1>1, <2>1, <2>2 DEF Stands, Has
  <2>3. CASE k = j
    <3>1. a # 1
      BY <1>1, <1>2, <1>4, <2>1, <2>3 DEF Stands, Lost
    <3>2. Stands(Q, j, a - 1, n)
      BY <1>1, <1>2, <2>1, <2>3, <3>1 DEF Stands
    <3> QED
      BY <3>2 DEF Has
  <2> QED
    BY <2>2, <2>3
<1>5. \A n : Has(Q, n) => Has(P, n)
  BY <1>3 DEF Has
<1>6. ASSUME NEW hi, Within(P, hi)
      PROVE  Within(Q, hi)
  BY <1>3, <1>6 DEF Within
<1>7. ASSUME Climbs(P)
      PROVE  Climbs(Q)
  <2> SUFFICES ASSUME NEW k, NEW a, NEW n, NEW l, NEW b, NEW o, Stands(Q, k, a, n),
                      Stands(Q, l, b, o), Earlier(k, a, l, b)
               PROVE  n < o
    BY DEF Climbs
  <2>1. \A x, c, y, d :
          Stands(P, x, c, n) /\ Stands(P, y, d, o) /\ (x < y \/ (x = y /\ c < d)) => n < o
    BY <1>7 DEF Climbs, Earlier
  <2>2. k \in Nat /\ l \in Nat /\ (k < l \/ (k = l /\ a < b))
    BY <1>3 DEF Earlier
  <2>3. CASE k = j /\ l = j
    <3>1. a \in Nat /\ b \in Nat /\ a + 1 < b + 1
      BY <1>3, <2>2, <2>3
    <3> QED
      BY <1>3, <2>1, <2>3, <3>1
  <2>4. CASE k = j /\ l # j
    BY <1>3, <2>1, <2>2, <2>4
  <2>5. CASE k # j /\ l = j
    BY <1>3, <2>1, <2>2, <2>5
  <2>6. CASE k # j /\ l # j
    BY <1>3, <2>1, <2>2, <2>6
  <2> QED
    BY <2>3, <2>4, <2>5, <2>6
<1>8. ASSUME NoGap(P)
      PROVE  NoGap(Q)
  BY <1>4, <1>5, <1>8 DEF NoGap
<1>9. ASSUME NEW x, Filtered(P, x)
      PROVE  Filtered(Q, x)
  BY <1>3, <1>9 DEF Filtered
<1> QED
  BY <1>4, <1>6, <1>7, <1>8, <1>9 DEF Line

LEMMA AddLine ==
  ASSUME NEW m \in Nat, NEW P \in Lines(m), NEW Q \in Lines(m), NEW j \in 1 .. m,
         NEW f \in Frames, ~IsData(f), Adds(P, Q, j, f)
  PROVE  /\ \A n : Has(P, n) => Has(Q, n)
         /\ \A hi : Line(P, hi) => Line(Q, hi)
         /\ \A x : Filtered(P, x) => Filtered(Q, x)
<1>1. /\ DOMAIN P = 1 .. m /\ DOMAIN Q = 1 .. m
      /\ P[j] \in Seq(Frames) /\ Q[j] = Append(P[j], f)
      /\ \A k \in (1 .. m) \ {j} : Q[k] = P[k]
  BY DEF Lines, Adds, Others
<1>2. /\ \A b \in DOMAIN P[j] : b \in DOMAIN Q[j] /\ Q[j][b] = P[j][b]
      /\ \A b \in DOMAIN Q[j] : b \in DOMAIN P[j] \/ Q[j][b] = f
  BY <1>1, PutType
<1>3. \A k, a, n : Stands(Q, k, a, n) <=> Stands(P, k, a, n)
  BY <1>1, <1>2 DEF Stands
<1>4. \A n : Has(Q, n) <=> Has(P, n)
  BY <1>3 DEF Has
<1> QED
  BY <1>3, <1>4 DEF Line, Within, Climbs, NoGap, Filtered

\* The next payload comes to the last place.
LEMMA EnterLine ==
  ASSUME NEW m \in Nat, NEW P \in Lines(m), NEW Q \in Lines(m), m # 0,
         NEW hi \in Nat, Adds(P, Q, m, Frame("data", hi + 1)), Line(P, hi), Whole(P, hi)
  PROVE  /\ Line(Q, hi + 1) /\ Whole(Q, hi + 1)
         /\ \A x \in Nat : x < m /\ Filtered(P, x) => Filtered(Q, x)
<1> DEFINE f == Frame("data", hi + 1)
           L == Len(P[m])
<1>1. /\ DOMAIN P = 1 .. m /\ DOMAIN Q = 1 .. m /\ m \in 1 .. m
      /\ P[m] \in Seq(Frames) /\ Q[m] = Append(P[m], f)
      /\ \A k \in (1 .. m) \ {m} : Q[k] = P[k]
      /\ f \in Frames /\ IsData(f) /\ f.val = hi + 1
      /\ \A k \in 1 .. m : P[k] \in Seq(Frames)
  BY DEF Lines, Adds, Others, Frame, Frames, Flags, IsData
<1> HIDE DEF f
<1>2. /\ \A b \in DOMAIN P[m] : b \in DOMAIN Q[m] /\ Q[m][b] = P[m][b] /\ b <= L /\ b \in Nat
      /\ \A b \in DOMAIN Q[m] : b \in DOMAIN P[m] \/ b = L + 1
      /\ Q[m][L + 1] = f /\ L + 1 \in DOMAIN Q[m] /\ L \in Nat
  BY <1>1, PutType
<1> HIDE DEF L
<1>3. \A k, a, n : Stands(P, k, a, n) =>
        /\ Stands(Q, k, a, n) /\ k \in 1 .. m /\ a \in Nat /\ (k = m => a <= L)
        /\ n \in 1 .. hi
  <2> SUFFICES ASSUME NEW k, NEW a, NEW n, Stands(P, k, a, n)
               PROVE  /\ Stands(Q, k, a, n) /\ k \in 1 .. m /\ a \in Nat /\ (k = m => a <= L)
                      /\ n \in 1 .. hi
    OBVIOUS
  <2>1. n \in 1 .. hi
    BY DEF Line, Within
  <2>2. k \in 1 .. m /\ a \in DOMAIN P[k] /\ a \in Nat
    BY <1>1 DEF Stands
  <2> QED
    BY <1>1, <1>2, <2>1, <2>2 DEF Stands
<1>4. \A k, a, n : Stands(Q, k, a, n) =>
        Stands(P, k, a, n) \/ (k = m /\ a = L + 1 /\ n = hi + 1)
  BY <1>1, <1>2 DEF Stands
<1>5. Stands(Q, m, L + 1, hi + 1)
  BY <1>1, <1>2 DEF Stands
<1>6. Within(Q, hi + 1)
  BY <1>3, <1>4 DEF Within
<1>7. Climbs(Q)
  <2> SUFFICES ASSUME NEW k, NEW a, NEW n, NEW l, NEW b, NEW o, Stands(Q, k, a, n),
                      Stands(Q, l, b, o), Earlier(k, a, l, b)
               PROVE  n < o
    BY DEF Climbs
  <2>1. CASE Stands(P, k, a, n) /\ Stands(P, l, b, o)
    BY <2>1 DEF Line, Climbs
  <2>2. CASE Stands(P, k, a, n) /\ o = hi + 1
    BY <1>3, <2>2
  <2>3. CASE k = m /\ a = L + 1
    BY <1>2, <1>3, <1>4, <2>3 DEF Earlier
  <2> QED
    BY <1>4, <2>1, <2>2, <2>3
<1>8. \A n : Has(P, n) => Has(Q, n)
  BY <1>3 DEF Has
<1>9. Whole(Q, hi + 1)
  BY <1>5, <1>8 DEF Whole, Has
<1>10. NoGap(Q)
  <2> SUFFICES ASSUME NEW n, NEW o, Has(Q, o), n \in 1 .. (o - 1), Readable(n)
               PROVE  Has(Q, n)
    BY DEF NoGap
  <2>1. o \in 1 .. (hi + 1)
    BY <1>6 DEF Within, Has
  <2> QED
    BY <1>9, <2>1 DEF Whole
<1>11. ASSUME NEW x \in Nat, x < m, Filtered(P, x)
       PROVE  Filtered(Q, x)
  BY <1>4, <1>11 DEF Filtered
<1> QED
  BY <1>6, <1>7, <1>9, <1>10, <1>11 DEF Line

LEMMA CutLine ==
  ASSUME NEW m \in Nat, NEW P \in Lines(m), NEW Q \in Lines(m), NEW j \in 1 .. m,
         Cuts(P, Q, j)
  PROVE  /\ \A hi : Line(P, hi) => Line(Q, hi)
         /\ \A x : Filtered(P, x) => Filtered(Q, x)
         /\ (\A k, a, n : Stands(P, k, a, n) => k < j) => \A n : Has(P, n) => Has(Q, n)
<1>1. /\ DOMAIN P = 1 .. m /\ DOMAIN Q = 1 .. m
      /\ \A k \in 1 .. m : Q[k] = IF k < j THEN P[k] ELSE <<>>
      /\ \A k \in 1 .. m : P[k] \in Seq(Frames) /\ DOMAIN P[k] = 1 .. Len(P[k])
      /\ DOMAIN <<>> = {}
  BY DEF Lines, Cuts
<1>2. \A k, a, n : Stands(P, k, a, n) => k \in Nat /\ a \in Nat
  BY <1>1 DEF Stands
<1>3. \A k, a, n : Stands(Q, k, a, n) <=> Stands(P, k, a, n) /\ k < j
  BY <1>1 DEF Stands
<1>4. ASSUME NEW hi, Line(P, hi)
      PROVE  Line(Q, hi)
  <2>1. Within(Q, hi) /\ Climbs(Q)
    BY <1>3, <1>4 DEF Line, Within, Climbs
  <2>2. ASSUME NEW n, NEW o, Has(Q, o), n \in 1 .. (o - 1), Readable(n)
        PROVE  Has(Q, n)
    <3>1. PICK k, a : Stands(P, k, a, o) /\ k < j
      BY <1>3, <2>2 DEF Has
    <3>2. Has(P, n)
      BY <1>4, <2>2, <3>1 DEF Line, NoGap, Has
    <3>3. PICK l, b : Stands(P, l, b, n)
      BY <3>2 DEF Has
    <3>4. o \in Nat /\ n \in Nat /\ n < o
      BY <1>4, <2>2, <3>1 DEF Line, Within
    <3>5. l < j
      <4> SUFFICES ASSUME ~(l < j) PROVE FALSE
        OBVIOUS
      <4>1. Earlier(k, a, l, b)
        BY <1>2, <3>1, <3>3 DEF Earlier
      <4>2. o < n
        BY <1>4, <3>1, <3>3, <4>1 DEF Line, Climbs
      <4> QED
        BY <3>4, <4>2
    <3> QED
      BY <1>3, <3>3, <3>5 DEF Has
  <2> QED
    BY <2>1, <2>2 DEF Line, NoGap
<1>5. ASSUME NEW x, Filtered(P, x)
      PROVE  Filtered(Q, x)
  BY <1>3, <1>5 DEF Filtered
<1>6. ASSUME \A k, a, n : Stands(P, k, a, n) => k < j
      PROVE  \A n : Has(P, n) => Has(Q, n)
  BY <1>3, <1>6 DEF Has
<1> QED
  BY <1>4, <1>5, <1>6

-----------------------------------------------------------------------------
(* The start of the stream.                                                *)
\* What a write does to the wire.
LEMMA WireWrite ==
  ASSUME TypeInv, NEW e \in Ends, NEW x \in Flags, NEW n \in Nat, Write(e, Frame(x, n))
  PROVE  /\ up /\ UNCHANGED <<recvCh, cancelled, open>>
         /\ wire'[e] = wire[e] /\ wire'[Peer(e)] = Append(wire[Peer(e)], Frame(x, n))
         /\ wire[Peer(e)] \in Seq(Frames) /\ wire[e] \in Seq(Frames)
         /\ \A k \in DOMAIN wire[Peer(e)] :
              k \in DOMAIN wire'[Peer(e)] /\ wire'[Peer(e)][k] = wire[Peer(e)][k]
         /\ \A k \in DOMAIN wire'[Peer(e)] :
              \/ k \in DOMAIN wire[Peer(e)] /\ wire'[Peer(e)][k] = wire[Peer(e)][k]
              \/ k = Len(wire'[Peer(e)]) /\ wire'[Peer(e)][k] = Frame(x, n)
         /\ Len(wire'[Peer(e)]) = Len(wire[Peer(e)]) + 1 /\ wire'[Peer(e)] # <<>>
         /\ Frame(x, n) \in Frames /\ Frame(x, n).flag = x /\ Frame(x, n).val = n
<1> DEFINE p == Peer(e)
           f == Frame(x, n)
<1>1. p \in Ends /\ p # e /\ f \in Frames /\ f.flag = x /\ f.val = n
  BY Names, FrameType
<1>2. /\ wire[p] \in Seq(Frames) /\ wire[e] \in Seq(Frames)
      /\ wire'[p] = Append(wire[p], f) /\ wire'[e] = wire[e]
      /\ up /\ UNCHANGED <<recvCh, cancelled, open>>
  BY <1>1 DEF Write, TypeInv, TypeOK
<1> HIDE DEF p, f
<1>3. /\ DOMAIN wire[p] = 1 .. Len(wire[p]) /\ DOMAIN wire'[p] = 1 .. (Len(wire[p]) + 1)
      /\ \A k \in DOMAIN wire[p] : wire'[p][k] = wire[p][k]
      /\ wire'[p][Len(wire[p]) + 1] = f
      /\ Len(wire'[p]) = Len(wire[p]) + 1 /\ Len(wire[p]) \in Nat
  BY <1>1, <1>2, PutType
<1>4. /\ \A k \in DOMAIN wire[p] : k \in DOMAIN wire'[p] /\ wire'[p][k] = wire[p][k]
      /\ \A k \in DOMAIN wire'[p] :
           \/ k \in DOMAIN wire[p] /\ wire'[p][k] = wire[p][k]
           \/ k = Len(wire'[p]) /\ wire'[p][k] = f
  BY <1>3
<1>5. wire'[p] # <<>>
  BY <1>3
<1> QED
  BY <1>1, <1>2, <1>3, <1>4, <1>5 DEF p, f

\* What a dispatched frame leaves.
LEMMA WireTake ==
  ASSUME TypeInv, NEW e \in Ends, wire[e] # <<>>,
         wire' = [wire EXCEPT ![e] = Tail(@)]
  PROVE  /\ wire'[e] = Tail(wire[e]) /\ wire[e] \in Seq(Frames)
         /\ wire'[Peer(e)] = wire[Peer(e)]
         /\ Head(wire[e]) = wire[e][1] /\ Head(wire[e]) \in Frames /\ 1 \in DOMAIN wire[e]
         /\ DOMAIN wire[e] = 1 .. Len(wire[e]) /\ Len(wire[e]) \in Nat \ {0}
         /\ Len(wire'[e]) = Len(wire[e]) - 1
         /\ \A k \in DOMAIN wire'[e] :
              k \in Nat \ {0} /\ k + 1 \in DOMAIN wire[e] /\ wire'[e][k] = wire[e][k + 1]
<1>1. /\ wire[e] \in Seq(Frames) /\ wire'[e] = Tail(wire[e])
      /\ Peer(e) \in Ends /\ Peer(e) # e /\ wire'[Peer(e)] = wire[Peer(e)]
  BY Names DEF TypeInv, TypeOK
<1> DEFINE q == wire[e]
<1>2. /\ Head(q) = q[1] /\ Head(q) \in Frames /\ 1 \in DOMAIN q
      /\ DOMAIN q = 1 .. Len(q) /\ Len(q) \in Nat \ {0} /\ Len(Tail(q)) = Len(q) - 1
      /\ DOMAIN Tail(q) = 1 .. (Len(q) - 1)
      /\ \A k \in DOMAIN Tail(q) : k + 1 \in DOMAIN q /\ Tail(q)[k] = q[k + 1]
  <2>1. q \in Seq(Frames) /\ q # <<>>
    BY <1>1
  <2> HIDE DEF q
  <2> QED
    BY <2>1, TakeType
<1>3. \A k \in DOMAIN Tail(q) : k \in Nat \ {0}
  BY <1>2
<1> QED
  BY <1>1, <1>2, <1>3

LEMMA StartInit == Init => StartInv
<1> SUFFICES ASSUME Init PROVE StartInv
  OBVIOUS
<1>1. DOMAIN <<>> = {}
  OBVIOUS
<1> QED
  BY <1>1, Names DEF Init, StartInv, Taking

LEMMA StartNext ==
  ASSUME TypeInv, StartInv, Next
  PROVE  StartInv'
<1> USE DEF envVars, streamVars, chanVars, appVars, PcOK
<1>0. /\ "host" \in Ends /\ "plugin" \in Ends /\ Peer("host") = "plugin"
      /\ Peer("plugin") = "host" /\ 0 \in Nat
      /\ {"start", "data", "closewrite", "close"} = Flags
      /\ PcOK /\ RoleInv
      /\ open \in [Ends -> BOOLEAN] /\ cancelled \in [Ends -> BOOLEAN]
      /\ DOMAIN recvCh = Ends
  BY Names DEF Flags, TypeInv, TypeOK, PcOK
<1>1. ASSUME UNCHANGED <<up, wire, sent>>, recvCh'["plugin"] = recvCh["plugin"],
             open'["plugin"] = open["plugin"], cancelled'["plugin"] = cancelled["plugin"],
             pc'["handler"] = pc["handler"],
             pc'["call"] \in {"off", "start"} => pc["call"] \in {"off", "start"},
             pc["feeder"] = "off" => pc'["feeder"] = "off",
             pc["copier"] = "off" => pc'["copier"] = "off",
             pc["call"] \in {"off", "start", "done"} /\ pc["feeder"] = "off" /\ pc["copier"] = "off"
               => pc'["call"] \in {"off", "start", "done"}
      PROVE  StartInv'
  BY <1>1 DEF StartInv, Taking
\* The host writes a frame that is not the first.
<1>2. ASSUME NEW x \in Flags \ {"start"}, NEW n \in Nat, Write("host", Frame(x, n)),
             UNCHANGED <<up, sent>>, pc'["handler"] = pc["handler"],
             pc'["call"] \notin {"off", "start"},
             pc["call"] \notin {"off", "start", "done"} \/ pc["feeder"] # "off"
               \/ pc["copier"] # "off"
      PROVE  StartInv'
  <2>1. pc["handler"] = "off" => wire["plugin"] # <<>>
    BY <1>2 DEF StartInv
  <2>2. /\ UNCHANGED <<recvCh, cancelled, open>> /\ wire'["plugin"] # <<>>
        /\ \A k \in DOMAIN wire["plugin"] :
             k \in DOMAIN wire'["plugin"] /\ wire'["plugin"][k] = wire["plugin"][k]
        /\ \A k \in DOMAIN wire'["plugin"] :
             \/ k \in DOMAIN wire["plugin"] /\ wire'["plugin"][k] = wire["plugin"][k]
             \/ k = Len(wire'["plugin"]) /\ wire'["plugin"][k] = Frame(x, n)
        /\ Len(wire'["plugin"]) = Len(wire["plugin"]) + 1
        /\ wire["plugin"] \in Seq(Frames) /\ Frame(x, n).flag = x
    BY <1>0, <1>2, WireWrite
  <2>3. wire["plugin"] # <<>> => Len(wire'["plugin"]) # 1
    BY <2>2
  <2> QED
    BY <1>2, <2>1, <2>2, <2>3 DEF StartInv, Taking
<1>3. ASSUME NEW g \in {"call", "copier", "feeder"}, CloseEnd(g, "host")
      PROVE  StartInv'
  <2>1. /\ pc[g] = "closing" /\ pc' = [pc EXCEPT ![g] = "done"]
        /\ UNCHANGED <<up, sent, recvCh, cancelled>>
        /\ open'["plugin"] = open["plugin"]
    BY <1>0, <1>3 DEF CloseEnd, Moves
  <2>2. /\ pc'["handler"] = pc["handler"]
        /\ pc'["call"] \in {"off", "start"} => pc["call"] \in {"off", "start"}
        /\ pc["call"] \in {"off", "start"} => pc["feeder"] = "off" /\ pc["copier"] = "off"
        /\ pc["feeder"] = "off" => pc'["feeder"] = "off"
        /\ pc["copier"] = "off" => pc'["copier"] = "off"
    BY <1>0, <2>1, Names DEF StartInv
  <2>3. CASE UNCHANGED wire
    <3>1. pc["call"] \in {"off", "start", "done"} => pc'["call"] \in {"off", "start", "done"}
      BY <1>0, <2>1, Names
    <3> QED
      BY <1>1, <2>1, <2>2, <2>3, <3>1
  <2>4. CASE Room("host") /\ up
             /\ wire' = [wire EXCEPT !["plugin"] = Append(@, Frame("close", 0))]
    <3>1. /\ pc'["call"] \notin {"off", "start"}
          /\ pc["call"] \notin {"off", "start", "done"} \/ pc["feeder"] # "off"
               \/ pc["copier"] # "off"
      BY <1>0, <2>1, <2>2, Names
    <3>2. pc["handler"] = "off" => wire["plugin"] # <<>>
      BY <3>1 DEF StartInv
    <3> DEFINE q == wire["plugin"]
               f == Frame("close", 0)
    <3>3. q \in Seq(Frames) /\ wire'["plugin"] = Append(q, f) /\ f \in Frames
          /\ f.flag = "close"
      BY <1>0, <2>4, FrameType DEF TypeInv, TypeOK
    <3> HIDE DEF q, f
    <3>4. /\ \A k \in DOMAIN Append(q, f) :
               \/ k \in DOMAIN q /\ Append(q, f)[k] = q[k]
               \/ k = Len(q) + 1 /\ Append(q, f)[k] = f
          /\ q # <<>> => \A k \in DOMAIN Append(q, f) : k = 1 => k \in DOMAIN q
          /\ Append(q, f) # <<>>
      BY <3>3, PutType
    <3> QED
      BY <2>1, <2>2, <3>1, <3>2, <3>3, <3>4 DEF StartInv, Taking, q
  <2> QED
    BY <1>0, <1>3, <2>3, <2>4 DEF CloseEnd
<1>4. CASE CallStart
  BY <1>0, <1>1, <1>4, Names DEF CallStart
<1>5. CASE CallWritesStart
  <2>1. /\ (wire["plugin"] = <<>> /\ pc["handler"] = "off") \/ ~up
        /\ pc["copier"] = "off" /\ pc["call"] = "start"
    BY <1>5 DEF CallWritesStart, StartInv
  <2>2. /\ UNCHANGED <<recvCh, cancelled, open, sent>> /\ up
        /\ wire'["plugin"] # <<>>
        /\ \A k \in DOMAIN wire'["plugin"] :
             \/ k \in DOMAIN wire["plugin"] /\ wire'["plugin"][k] = wire["plugin"][k]
             \/ k = Len(wire'["plugin"]) /\ wire'["plugin"][k] = Frame("start", 0)
        /\ Len(wire'["plugin"]) = Len(wire["plugin"]) + 1
        /\ Frame("start", 0).flag = "start"
    <3>1. /\ Write("host", Frame("start", 0)) /\ "start" \in Flags /\ UNCHANGED sent
      BY <1>0, <1>5 DEF CallWritesStart
    <3> QED
      BY <1>0, <3>1, WireWrite
  <2>3. \A k \in DOMAIN wire'["plugin"] : k = 1 /\ wire'["plugin"][k].flag = "start"
    BY <2>1, <2>2
  <2>4. /\ pc'["handler"] = pc["handler"] /\ pc'["call"] \notin {"off", "start"}
        /\ up' = up
    BY <1>0, <1>5, Names DEF CallWritesStart
  <2> QED
    BY <2>1, <2>2, <2>3, <2>4 DEF StartInv, Taking
<1>6. CASE CallStartFails
  <2>1. pc["feeder"] = "off" /\ pc["copier"] = "off" /\ pc["call"] = "start"
    BY <1>6 DEF CallStartFails, Moves, StartInv
  <2> QED
    BY <1>0, <1>1, <1>6, <2>1, Names DEF CallStartFails, Moves
<1>7. CASE CallSendsRequest
  <2>1. Write("host", Frame("data", 0))
    BY <1>7 DEF CallSendsRequest, Send
  <2>2. "data" \in Flags \ {"start"}
    BY <1>0
  <2>3. /\ pc["call"] = "request" /\ pc'["call"] = "end" /\ pc'["handler"] = pc["handler"]
        /\ UNCHANGED <<up, sent>>
    BY <1>0, <1>7, Names DEF CallSendsRequest, Moves
  <2> QED
    BY <1>0, <1>2, <2>1, <2>2, <2>3
<1>8. CASE CallEndsRequest
  <2>1. Write("host", Frame("closewrite", 0))
    BY <1>8 DEF CallEndsRequest
  <2>2. "closewrite" \in Flags \ {"start"}
    BY <1>0
  <2>3. /\ pc["call"] = "end" /\ pc'["call"] = "done" /\ pc'["handler"] = pc["handler"]
        /\ UNCHANGED <<up, sent>>
    BY <1>0, <1>8, Names DEF CallEndsRequest
  <2> QED
    BY <1>0, <1>2, <2>1, <2>2, <2>3
<1>9. CASE CallRequestFails
  <2>1. /\ pc["call"] \in {"request", "end"} /\ pc' = [pc EXCEPT !["call"] = "closing"]
        /\ UNCHANGED <<up, sent, wire, recvCh, open>>
        /\ cancelled'["plugin"] = cancelled["plugin"]
    BY <1>0, <1>9 DEF CallRequestFails, Moves, Cancel
  <2> QED
    BY <1>0, <1>1, <2>1, Names
<1>10. CASE CallRecvs
  <2>1. /\ pc["call"] = "recv" /\ pc' = [pc EXCEPT !["call"] = "closing"]
        /\ UNCHANGED <<up, sent, wire, open>>
        /\ cancelled'["plugin"] = cancelled["plugin"]
        /\ recvCh'["plugin"] = recvCh["plugin"]
    BY <1>0, <1>10 DEF CallRecvs, CallReturns
  <2> QED
    BY <1>0, <1>1, <2>1, Names
<1>11. CASE CopierRecvs \/ CopierPushes \/ CopierEnds
  <2>1. /\ pc["copier"] \in {"recv", "push"}
        /\ \E x \in {"recv", "push", "closing"} : pc' = [pc EXCEPT !["copier"] = x]
        /\ UNCHANGED <<up, sent, wire, open>>
        /\ cancelled'["plugin"] = cancelled["plugin"]
        /\ recvCh'["plugin"] = recvCh["plugin"]
    BY <1>0, <1>11
    DEF CopierRecvs, CopierPushes, CopierEnds, CopierEndsIf, Recvs, Recv, PassesOn,
        Moves, Cancel, CloseChan
  <2> QED
    BY <1>0, <1>1, <2>1, Names
<1>12. CASE FeederTakes \/ FeederFails
  <2>1. /\ pc["feeder"] \in {"run", "send"}
        /\ \E x \in {"send", "closing"} : pc' = [pc EXCEPT !["feeder"] = x]
        /\ UNCHANGED <<up, sent, wire, open>>
        /\ cancelled'["plugin"] = cancelled["plugin"]
        /\ recvCh'["plugin"] = recvCh["plugin"]
    BY <1>0, <1>12 DEF FeederTakes, FeederFails, Moves, Cancel
  <2> QED
    BY <1>0, <1>1, <2>1, Names
<1>13. CASE FeederSends
  <2>1. Write("host", Frame("data", hand["feeder"])) /\ hand["feeder"] \in Nat
    BY <1>13, Names, CallsAssumption DEF FeederSends, Send, TypeInv, TypeOK
  <2>2. "data" \in Flags \ {"start"}
    BY <1>0
  <2>3. /\ pc["feeder"] = "send" /\ pc'["call"] = pc["call"] /\ pc'["handler"] = pc["handler"]
        /\ UNCHANGED <<up, sent>>
    BY <1>0, <1>13, Names DEF FeederSends, Moves
  <2>4. pc["call"] \notin {"off", "start"}
    BY <2>3 DEF StartInv
  <2> QED
    BY <1>0, <1>2, <2>1, <2>2, <2>3, <2>4
<1>14. CASE FeederEnds
  <2>1. /\ pc["feeder"] = "run" /\ pc' = [pc EXCEPT !["feeder"] = "done"]
        /\ UNCHANGED <<up, sent>>
    BY <1>0, <1>14 DEF FeederEnds, Moves
  <2>2. pc["call"] \notin {"off", "start"}
    BY <2>1 DEF StartInv
  <2>3. CASE Write("host", Frame("closewrite", 0))
    <3>1. "closewrite" \in Flags \ {"start"}
      BY <1>0
    <3> QED
      BY <1>0, <1>2, <2>1, <2>2, <2>3, <3>1, Names
  <2>4. CASE UNCHANGED streamVars
    BY <1>0, <1>1, <2>1, <2>2, <2>4, Names
  <2> QED
    BY <1>14, <2>3, <2>4 DEF FeederEnds
<1>15. CASE TakerSteps
  <2>1. /\ \E x \in {"recv", "push", "done"} : pc' = [pc EXCEPT !["taker"] = x]
        /\ UNCHANGED <<up, sent, wire, open, cancelled>>
        /\ UNCHANGED recvCh \/ recvCh["plugin"] # <<>>
    BY <1>0, <1>15
    DEF TakerSteps, TakerRecvs, TakerPushes, TakerEnds, Recvs, Recv, Arrived, PassesOn,
        Moves, CloseChan
  <2>2. /\ pc'["handler"] = pc["handler"] /\ pc'["call"] = pc["call"]
        /\ pc'["feeder"] = pc["feeder"] /\ pc'["copier"] = pc["copier"]
    BY <1>0, <2>1, Names
  <2> QED
    BY <2>1, <2>2 DEF StartInv, Taking
\* The handler's own steps: it has left "off", and does not come back to it.
<1>16. ASSUME pc["handler"] \notin {"off", "done"}, pc'["handler"] # "off",
              \/ pc'["handler"] \notin {"recv", "range"}
              \/ /\ pc["handler"] \in {"recv", "range"}
                 /\ open'["plugin"] = open["plugin"] /\ cancelled'["plugin"] = cancelled["plugin"],
              UNCHANGED up, wire'["plugin"] = wire["plugin"],
              pc'["call"] = pc["call"], pc'["feeder"] = pc["feeder"], pc'["copier"] = pc["copier"]
       PROVE  StartInv'
  BY <1>16 DEF StartInv, Taking
<1>18. CASE \/ HandlerRecvs \/ HandlerStops \/ HandlerCalls \/ HandlerSendFails
            \/ HandlerStarts \/ HandlerTakes \/ HandlerResponds \/ HandlerStopsEarly
            \/ HandlerGivesUp \/ HandlerQuits
  <2>1. /\ pc["handler"] \notin {"off", "done"} /\ pc'["handler"] # "off"
        /\ UNCHANGED <<up, wire, sent>>
        /\ pc'["call"] = pc["call"] /\ pc'["feeder"] = pc["feeder"]
        /\ pc'["copier"] = pc["copier"]
        /\ \/ pc'["handler"] \notin {"recv", "range"}
           \/ /\ pc["handler"] \in {"recv", "range"}
              /\ open'["plugin"] = open["plugin"] /\ cancelled'["plugin"] = cancelled["plugin"]
    BY <1>0, <1>18, Names
    DEF HandlerRecvs, Recv, HandlerStops, HandlerCalls, HandlerSendFails,
        HandlerStarts, HandlerTakes, HandlerResponds, HandlerRespondsIf,
        HandlerStopsEarly, HandlerGivesUp, HandlerQuits, Moves, Cancel
  <2> QED
    BY <1>16, <2>1
<1>19. CASE HandlerSends \/ HandlerSendsResponse \/ HandlerEndsResponse
  <2>1. /\ pc["handler"] \in {"sending", "respond", "end"}
        /\ pc'["handler"] \in {"send", "end", "quit"}
        /\ pc'["call"] = pc["call"] /\ pc'["feeder"] = pc["feeder"]
        /\ pc'["copier"] = pc["copier"]
        /\ UNCHANGED up
        /\ UNCHANGED <<wire, sent>> \/ \E f : Write("plugin", f)
    BY <1>0, <1>19, Names
    DEF HandlerSends, HandlerSendsResponse, HandlerEndsResponse, Moves, Send
  <2>2. wire'["plugin"] = wire["plugin"] /\ (~up => UNCHANGED <<wire, sent>>)
    BY <1>0, <2>1 DEF Write, TypeInv, TypeOK
  <2> QED
    BY <1>16, <2>1, <2>2
<1>20. CASE CloseEnd("handler", "plugin")
  <2>1. /\ pc["handler"] = "closing" /\ pc' = [pc EXCEPT !["handler"] = "done"]
        /\ UNCHANGED <<up, sent>> /\ wire'["plugin"] = wire["plugin"]
        /\ ~up => UNCHANGED wire
    BY <1>0, <1>20 DEF CloseEnd, Moves, TypeInv, TypeOK
  <2>2. /\ pc'["handler"] = "done"
        /\ pc'["call"] = pc["call"] /\ pc'["feeder"] = pc["feeder"]
        /\ pc'["copier"] = pc["copier"]
    BY <1>0, <2>1, Names
  <2> QED
    BY <1>16, <2>1, <2>2
<1>21. CASE Dispatch("host")
  <2>1. /\ UNCHANGED <<up, sent, pc>> /\ wire["host"] # <<>>
        /\ wire'["plugin"] = wire["plugin"] /\ recvCh'["plugin"] = recvCh["plugin"]
        /\ cancelled'["plugin"] = cancelled["plugin"] /\ open'["plugin"] = open["plugin"]
    BY <1>0, <1>21 DEF Dispatch, TypeInv, TypeOK
  <2> QED
    BY <2>1 DEF StartInv, Taking
<1>22. CASE Dispatch("plugin")
  <2>1. /\ wire["plugin"] # <<>> /\ wire' = [wire EXCEPT !["plugin"] = Tail(@)]
        /\ Head(wire["plugin"]).flag # "start" /\ UNCHANGED <<up, sent, pc>>
    BY <1>22 DEF Dispatch
  <2>2. /\ wire'["host"] = wire["host"]
        /\ Head(wire["plugin"]) = wire["plugin"][1] /\ 1 \in DOMAIN wire["plugin"]
        /\ \A k \in DOMAIN wire'["plugin"] :
             k + 1 \in DOMAIN wire["plugin"] /\ wire'["plugin"][k] = wire["plugin"][k + 1]
    BY <1>0, <2>1, WireTake
  <2>3. pc["handler"] # "off"
    BY <2>1, <2>2 DEF StartInv
  <2>4. \A k \in DOMAIN wire'["plugin"] : wire'["plugin"][k].flag # "start"
    BY <2>2, <2>3 DEF StartInv
  <2>5. \/ UNCHANGED <<cancelled, open>>
        \/ cancelled'["plugin"] = TRUE /\ open'["plugin"] = FALSE
    BY <1>0, <1>22 DEF Dispatch
  <2>6. pc["call"] \notin {"off", "start"}
    BY <2>1 DEF StartInv
  <2> QED
    BY <2>1, <2>3, <2>4, <2>5, <2>6 DEF StartInv, Taking
<1>23. CASE DispatchStart
  <2>1. /\ wire["plugin"] # <<>> /\ wire' = [wire EXCEPT !["plugin"] = Tail(@)]
        /\ Head(wire["plugin"]).flag = "start" /\ UNCHANGED <<up, sent, cancelled>>
        /\ pc'["handler"] \in {"recv", "parked"} /\ open'["plugin"] = TRUE
        /\ pc'["call"] = pc["call"]
    BY <1>0, <1>23, Names DEF DispatchStart
  <2>2. /\ Head(wire["plugin"]) = wire["plugin"][1] /\ 1 \in DOMAIN wire["plugin"]
        /\ \A k \in DOMAIN wire'["plugin"] :
             /\ k \in Nat \ {0} /\ k + 1 \in DOMAIN wire["plugin"]
             /\ wire'["plugin"][k] = wire["plugin"][k + 1]
    BY <1>0, <2>1, WireTake
  <2>3. pc["handler"] = "off" /\ up /\ ~cancelled["plugin"]
    BY <2>1, <2>2 DEF StartInv, Taking
  <2>4. \A k \in DOMAIN wire'["plugin"] : wire'["plugin"][k].flag # "start"
    <3>1. \A k \in DOMAIN wire'["plugin"] : k + 1 # 1
      BY <2>2
    <3> QED
      BY <2>2, <2>3, <3>1 DEF StartInv
  <2>5. pc["call"] \notin {"off", "start"}
    BY <2>1 DEF StartInv
  <2> QED
    BY <2>1, <2>3, <2>4, <2>5 DEF StartInv, Taking
<1>24. CASE LoopFails
  BY <1>0, <1>1, <1>24, Names DEF LoopFails
<1>25. CASE Crash
  <2>1. /\ pc'["handler"] = "done" /\ pc'["call"] = pc["call"]
        /\ pc'["feeder"] = pc["feeder"] /\ pc'["copier"] = pc["copier"]
        /\ ~up' /\ wire'["plugin"] = <<>> /\ wire'["host"] = wire["host"] /\ sent' = sent
    BY <1>0, <1>25, Names DEF Crash, OfPlugin, TypeInv, TypeOK
  <2>2. DOMAIN <<>> = {}
    OBVIOUS
  <2> QED
    BY <2>1, <2>2 DEF StartInv, Taking
<1>26. CASE \E g \in Pumps : PumpSteps(g)
  <2>1. /\ \E g \in Pumps : \E x \in {"run", "done"} : pc' = pc \/ pc' = [pc EXCEPT ![g] = x]
        /\ UNCHANGED <<up, sent, streamVars>>
    BY <1>26 DEF PumpSteps, PumpTakes, PumpPuts, PumpEnds, Moves
  <2>2. /\ pc'["handler"] = pc["handler"] /\ pc'["call"] = pc["call"]
        /\ pc'["feeder"] = pc["feeder"] /\ pc'["copier"] = pc["copier"]
    BY <1>0, <2>1, Names DEF Pumps
  <2> QED
    BY <1>1, <2>1, <2>2
<1>27. CASE AppCloses \/ AppTakes \/ AppGives \/ ContextEnds
  BY <1>1, <1>27 DEF AppCloses, AppTakes, AppGives, ContextEnds
<1>29. CASE HandlerSkips
  <2>1. pc["handler"] = "send" /\ UNCHANGED <<up, streamVars, pc>>
    BY <1>29 DEF HandlerSkips
  <2>2. pc["call"] \notin {"off", "start"}
    BY <2>1 DEF StartInv
  <2> QED
    BY <2>1, <2>2 DEF StartInv, Taking
<1>28. \A e \in Ends : Dispatch(e) => Dispatch("host") \/ Dispatch("plugin")
  BY Names
<1> QED
  BY <1>3, <1>4, <1>5, <1>6, <1>7, <1>8, <1>9, <1>10, <1>11, <1>12, <1>13, <1>14,
     <1>15, <1>18, <1>19, <1>20, <1>21, <1>22, <1>23, <1>24, <1>25, <1>26, <1>27, <1>28,
     <1>29
  DEF Next, Proceed, Decide, CallSteps, CopierSteps, FeederSteps, HandlerSteps,
      HandlerDecides

LEMMA OrderNext ==
  ASSUME TypeInv, StartInv, Next
  PROVE  OrderInv'
<1> USE DEF envVars, streamVars, chanVars, appVars, PcOK
<1>0. PcOK /\ OrderInv
  BY DEF TypeInv, TypeOK
<1>1. ASSUME pc'["copier"] = pc["copier"], pc'["call"] = pc["call"] \/ pc["copier"] = "off",
             pc'["handler"] = pc["handler"], pc'["taker"] = pc["taker"],
             pc'["pumpTaken"] = pc["pumpTaken"]
      PROVE  OrderInv'
  BY <1>0, <1>1 DEF OrderInv
<1>2. CASE \/ CallStart \/ CallWritesStart \/ CallStartFails \/ CallSendsRequest
           \/ CallRequestFails \/ CallRecvs \/ CloseEnd("call", "host")
  <2>1. /\ pc["call"] # "done" /\ pc'["copier"] = pc["copier"]
        /\ pc'["handler"] = pc["handler"] /\ pc'["taker"] = pc["taker"]
        /\ pc'["pumpTaken"] = pc["pumpTaken"]
    BY <1>0, <1>2, Names
    DEF CallStart, CallWritesStart, CallStartFails, CallSendsRequest, CallRequestFails,
        CallRecvs, CallReturns, CloseEnd, Moves
  <2>2. pc["copier"] = "off"
    BY <1>0, <2>1 DEF OrderInv
  <2> QED
    BY <1>1, <2>1, <2>2
<1>3. CASE CallEndsRequest
  <2>1. /\ pc'["call"] = "done" /\ pc'["handler"] = pc["handler"]
        /\ pc'["taker"] = pc["taker"] /\ pc'["pumpTaken"] = pc["pumpTaken"]
    BY <1>0, <1>3, Names DEF CallEndsRequest
  <2> QED
    BY <1>0, <2>1 DEF OrderInv
<1>4. CASE CopierSteps
  <2>1. /\ pc["copier"] # "off"
        /\ \E x \in {"recv", "push", "closing", "done"} : pc' = [pc EXCEPT !["copier"] = x]
    BY <1>4
    DEF CopierSteps, CopierRecvs, CopierPushes, CopierEnds, Recvs, PassesOn, CloseEnd,
        Moves
  <2>2. /\ pc'["call"] = pc["call"] /\ pc'["handler"] = pc["handler"]
        /\ pc'["taker"] = pc["taker"] /\ pc'["pumpTaken"] = pc["pumpTaken"]
    BY <1>0, <2>1, Names
  <2> QED
    BY <1>0, <2>1, <2>2 DEF OrderInv
<1>5. CASE FeederSteps
  <2>1. \E x \in {"run", "send", "closing", "done"} : pc' = [pc EXCEPT !["feeder"] = x]
    BY <1>5
    DEF FeederSteps, FeederTakes, FeederSends, FeederEnds, FeederFails, CloseEnd, Moves
  <2>2. /\ pc'["call"] = pc["call"] /\ pc'["handler"] = pc["handler"]
        /\ pc'["taker"] = pc["taker"] /\ pc'["pumpTaken"] = pc["pumpTaken"]
        /\ pc'["copier"] = pc["copier"]
    BY <1>0, <2>1, Names
  <2> QED
    BY <1>1, <2>2
<1>6. CASE HandlerSteps \/ HandlerDecides
  <2>1. /\ pc'["handler"] \notin {"off", "parked", "recv"}
        /\ pc'["call"] = pc["call"] /\ pc'["copier"] = pc["copier"]
    <3>1. CASE \/ HandlerRecvs \/ HandlerStarts \/ HandlerSends \/ HandlerTakes
      BY <1>0, <3>1, Names
      DEF HandlerRecvs, HandlerStarts, HandlerSends, HandlerTakes, Moves
    <3>2. CASE \/ HandlerStops \/ HandlerCalls \/ HandlerSendFails \/ HandlerSkips
               \/ HandlerResponds \/ HandlerStopsEarly \/ HandlerGivesUp
      BY <1>0, <3>2, Names
      DEF HandlerStops, HandlerCalls, HandlerSendFails, HandlerSkips, HandlerResponds,
          HandlerRespondsIf, HandlerStopsEarly,
          HandlerGivesUp, Moves
    <3>3. CASE \/ HandlerSendsResponse \/ HandlerEndsResponse \/ HandlerQuits
               \/ CloseEnd("handler", "plugin")
      BY <1>0, <3>3, Names
      DEF HandlerSendsResponse, HandlerEndsResponse, HandlerQuits, CloseEnd, Moves
    <3> QED
      BY <1>6, <3>1, <3>2, <3>3 DEF HandlerSteps, HandlerDecides
  <2> QED
    BY <1>0, <2>1 DEF OrderInv
<1>7. CASE TakerSteps
  <2>1. pc["taker"] # "off" /\ \E x : pc' = [pc EXCEPT !["taker"] = x]
    BY <1>7 DEF TakerSteps, TakerRecvs, TakerPushes, TakerEnds, Recvs, PassesOn, Moves
  <2>2. /\ pc'["call"] = pc["call"] /\ pc'["handler"] = pc["handler"]
        /\ pc'["copier"] = pc["copier"]
    BY <1>0, <2>1, Names
  <2> QED
    BY <1>0, <2>1, <2>2 DEF OrderInv
<1>8. CASE \E g \in Pumps : PumpSteps(g)
  <2>1. PICK g \in Pumps : pc' = pc \/ (pc[g] = "run" /\ pc' = [pc EXCEPT ![g] = "done"])
    BY <1>8 DEF PumpSteps, PumpTakes, PumpPuts, PumpEnds, Moves
  <2>2. /\ pc'["call"] = pc["call"] /\ pc'["handler"] = pc["handler"]
        /\ pc'["taker"] = pc["taker"] /\ pc'["copier"] = pc["copier"]
        /\ pc["pumpTaken"] = "off" => pc'["pumpTaken"] = "off"
    BY <1>0, <2>1, Names DEF Pumps
  <2> QED
    BY <1>0, <2>2 DEF OrderInv
<1>9. CASE DispatchStart
  <2>1. wire["plugin"] \in Seq(Frames) /\ wire["plugin"] # <<>>
        /\ Head(wire["plugin"]).flag = "start"
    BY <1>9, Names DEF DispatchStart, TypeInv, TypeOK
  <2>2. 1 \in DOMAIN wire["plugin"] /\ wire["plugin"][1].flag = "start"
    BY <2>1, TakeType
  <2>3. pc["handler"] = "off"
    BY <2>2 DEF StartInv
  <2>4. /\ pc'["call"] = pc["call"] /\ pc'["copier"] = pc["copier"]
        /\ pc'["taker"] = pc["taker"] /\ pc'["pumpTaken"] = pc["pumpTaken"]
    BY <1>0, <1>9, Names DEF DispatchStart
  <2> QED
    BY <1>0, <2>3, <2>4 DEF OrderInv
<1>10. CASE Crash
  <2>1. /\ pc'["handler"] = "done" /\ pc'["call"] = pc["call"]
        /\ pc'["copier"] = pc["copier"]
    BY <1>0, <1>10, Names DEF Crash, OfPlugin
  <2> QED
    BY <1>0, <2>1 DEF OrderInv
<1>11. CASE \/ LoopFails \/ AppCloses \/ AppTakes \/ AppGives \/ ContextEnds
            \/ \E e \in Ends : Dispatch(e)
  <2>1. pc' = pc
    BY <1>11 DEF LoopFails, AppCloses, AppTakes, AppGives, ContextEnds, Dispatch
  <2> QED
    BY <1>1, <2>1
<1> QED
  BY <1>2, <1>3, <1>4, <1>5, <1>6, <1>7, <1>8, <1>9, <1>10, <1>11
  DEF Next, Proceed, Decide, CallSteps

CoreInv == TypeInv /\ StartInv

LEMMA CoreNext == CoreInv /\ [Next]_vars => CoreInv'
<1> SUFFICES ASSUME TypeInv, StartInv, [Next]_vars PROVE TypeInv' /\ StartInv'
  BY DEF CoreInv
<1>1. CASE UNCHANGED vars
  BY <1>1 DEF vars, envVars, streamVars, chanVars, appVars, TypeInv, TypeOK, RoleInv,
     HandInv, OrderInv, ModeInv, IdleInv, StartInv, Taking
<1>2. CASE Next
  <2>1. /\ EnvOK /\ StreamOK /\ PcOK /\ HandOK /\ ChanOK /\ AppOK
        /\ NumberInv /\ \A c \in IdleChans : queue[c] = <<>>
    BY TypeParts, IdleParts DEF TypeInv, EnvOK
  <2>2. StreamInv /\ ChanInv
    BY <2>1 DEF StreamInv, ChanInv
  <2>3. EnvOK' /\ StreamInv' /\ PcOK' /\ RoleInv' /\ ModeInv'
    BY <1>2, <2>2, EnvNext, StreamNext, PcNext
  <2>4. HandOK' /\ HandInv' /\ ChanInv' /\ AppOK'
    BY <1>2, <2>1, <2>2, HandNext, ChanNext, AppNext
  <2>5. TypeOK'
    BY <2>3, <2>4 DEF StreamInv, ChanInv, TypeOK, EnvOK, StreamOK, PcOK, HandOK, ChanOK,
       AppOK
  <2>6. IdleInv'
    BY <2>3, <2>4, Names DEF StreamInv, ChanInv, EnvOK, IdleInv, IdleChans, NumberInv,
       Pattern
  <2> QED
    BY <1>2, <2>3, <2>4, <2>5, <2>6, OrderNext, StartNext DEF TypeInv
<1> QED
  BY <1>1, <1>2

LEMMA CoreHolds == Spec => []CoreInv
<1>1. Init => CoreInv
  BY TypeInit, StartInit DEF CoreInv
<1> QED
  BY <1>1, CoreNext, PTL DEF Spec

\* The channels of the stream and of the call keep within what make gave them,
\* and no goroutine passes on a payload it has not taken (the pumps of
\* generic.go and the goroutines of conn_routing.go).
THEOREM TypeCorrect == Spec => []TypeOK
<1>1. CoreInv => TypeOK
  BY DEF CoreInv, TypeInv
<1> QED
  BY CoreHolds, <1>1, PTL

-----------------------------------------------------------------------------
(* The steps that are possible in each of the patterns.                    *)
LEMMA SingleNext ==
  ASSUME TypeInv, Next, mode = "SingleMulti"
  PROVE  \/ CallStart \/ CallWritesStart \/ CallStartFails \/ CallSendsRequest
         \/ CallEndsRequest \/ CallRequestFails \/ CloseEnd("call", "host")
         \/ CopierRecvs \/ CopierPushes \/ CopierEnds \/ CloseEnd("copier", "host")
         \/ HandlerRecvs \/ HandlerSends \/ HandlerStops \/ HandlerCalls
         \/ HandlerSendFails \/ HandlerSkips \/ HandlerQuits
         \/ CloseEnd("handler", "plugin") \/ PumpSteps("pumpResp")
         \/ Dispatch("host") \/ Dispatch("plugin") \/ DispatchStart \/ LoopFails
         \/ AppTakes \/ ContextEnds \/ Crash
<1>1. /\ pc["feeder"] = "off" /\ pc["pumpReqs"] = "off"
      /\ pc["taker"] \in {"off", "done"} /\ pc["pumpTaken"] \in {"off", "done"}
      /\ pc["call"] # "recv" /\ pc["handler"] \notin {"range", "respond", "end"}
  BY DEF TypeInv, ModeInv
<1>2. ~FeederSteps /\ ~TakerSteps /\ ~CallRecvs /\ ~AppGives /\ ~AppCloses
  BY <1>1 DEF FeederSteps, FeederTakes, FeederSends, FeederEnds, FeederFails, CloseEnd,
     TakerSteps, TakerRecvs, TakerPushes, TakerEnds, Recvs, PassesOn, Moves, CallRecvs,
     AppGives, AppCloses
<1>3. /\ ~HandlerStarts /\ ~HandlerTakes /\ ~HandlerResponds /\ ~HandlerStopsEarly
      /\ ~HandlerGivesUp /\ ~HandlerSendsResponse /\ ~HandlerEndsResponse
  BY <1>1 DEF HandlerStarts, HandlerTakes, HandlerResponds, HandlerRespondsIf,
     HandlerStopsEarly, HandlerGivesUp, HandlerSendsResponse, HandlerEndsResponse, Moves
<1>4. ~PumpSteps("pumpReqs") /\ ~PumpSteps("pumpTaken")
  BY <1>1 DEF PumpSteps, PumpTakes, PumpPuts, PumpEnds, Moves
<1>5. /\ \A g \in Pumps : PumpSteps(g) => PumpSteps("pumpResp")
      /\ \A e \in Ends : Dispatch(e) => Dispatch("host") \/ Dispatch("plugin")
  BY <1>4, Names DEF Pumps
<1> QED
  BY <1>2, <1>3, <1>5
  DEF Next, Proceed, Decide, CallSteps, CopierSteps, HandlerSteps, HandlerDecides

LEMMA MultiNext ==
  ASSUME TypeInv, Next, mode = "MultiSingle"
  PROVE  \/ CallStart \/ CallWritesStart \/ CallStartFails \/ CallRecvs
         \/ CloseEnd("call", "host")
         \/ FeederTakes \/ FeederSends \/ FeederEnds \/ FeederFails
         \/ CloseEnd("feeder", "host")
         \/ HandlerStarts \/ HandlerTakes \/ HandlerResponds \/ HandlerStopsEarly
         \/ HandlerGivesUp \/ HandlerSendsResponse \/ HandlerEndsResponse
         \/ HandlerQuits
         \/ CloseEnd("handler", "plugin")
         \/ TakerRecvs \/ TakerPushes \/ TakerEnds
         \/ PumpSteps("pumpReqs") \/ PumpSteps("pumpTaken")
         \/ Dispatch("host") \/ Dispatch("plugin") \/ DispatchStart \/ LoopFails
         \/ AppGives \/ AppCloses \/ ContextEnds \/ Crash
<1>1. /\ pc["copier"] = "off" /\ pc["pumpResp"] = "off"
      /\ pc["call"] \notin {"request", "end"} /\ pc["handler"] \notin {"send", "sending"}
      /\ queue["resp"] = <<>>
  BY DEF TypeInv, ModeInv, IdleInv
<1>2. ~CopierSteps /\ ~CallSendsRequest /\ ~CallEndsRequest /\ ~CallRequestFails
  BY <1>1 DEF CopierSteps, CopierRecvs, CopierPushes, CopierEnds, CloseEnd, Recvs,
     PassesOn, Moves, CallSendsRequest, CallEndsRequest, CallRequestFails
<1>3. /\ ~HandlerRecvs /\ ~HandlerCalls /\ ~HandlerSkips /\ ~HandlerSends
      /\ ~HandlerSendFails /\ ~HandlerStops /\ ~AppTakes
  BY <1>1 DEF HandlerRecvs, HandlerCalls, HandlerSkips, HandlerSends, HandlerSendFails,
     HandlerStops, Moves, AppTakes, Get
<1>4. ~PumpSteps("pumpResp")
  BY <1>1 DEF PumpSteps, PumpTakes, PumpPuts, PumpEnds, Moves
<1>5. /\ \A g \in Pumps : PumpSteps(g) => PumpSteps("pumpReqs") \/ PumpSteps("pumpTaken")
      /\ \A e \in Ends : Dispatch(e) => Dispatch("host") \/ Dispatch("plugin")
  BY <1>4, Names DEF Pumps
<1> QED
  BY <1>2, <1>3, <1>5
  DEF Next, Proceed, Decide, CallSteps, FeederSteps, HandlerSteps, HandlerDecides,
      TakerSteps

-----------------------------------------------------------------------------
(* The responses of SingleMulti.                                           *)
Items(q) == [k \in DOMAIN q |-> Frame("data", q[k])]
Held(n) == IF n = 0 THEN <<>> ELSE <<Frame("data", n)>>
NoData(q) == \A k \in DOMAIN q : ~IsData(q[k])

\* The caller is still receiving, or will be.
Reading ==
  \/ pc["copier"] \in {"recv", "push"}
  \/ pc["call"] \in {"off", "start", "request", "end"}
Spoken == pc["handler"] = "done"

\* The stream of the caller that is receiving is open until the handler's
\* Close, or the end of the plugin, and what came before has been dispatched.
ReadInv ==
  /\ Reading => open["host"] \/ cancelled["host"] \/ pc["call"] = "off"
  /\ Reading /\ cancelled["host"] =>
       (Spoken \/ ~up) /\ ~open["host"] /\ NoData(wire["host"])
  /\ \A k \in DOMAIN wire["host"] :
       IsData(wire["host"][k])
         \/ (wire["host"][k].flag = "close" /\ k = Len(wire["host"]) /\ Spoken)
  /\ \A k \in DOMAIN recvCh["host"] : IsData(recvCh["host"][k])
  /\ pc["call"] = "off" => ~cancelled["host"] /\ ~open["host"]

LEMMA ReadInit == Init => ReadInv
<1> SUFFICES ASSUME Init PROVE ReadInv
  OBVIOUS
<1>1. DOMAIN <<>> = {}
  OBVIOUS
<1> QED
  BY <1>1, Names DEF Init, ReadInv, Reading

LEMMA ReadNext ==
  ASSUME TypeInv, StartInv, ReadInv, Next, mode = "SingleMulti"
  PROVE  ReadInv' /\ (Reading' => Reading)
<1> USE DEF envVars, streamVars, chanVars, appVars, PcOK
<1>0. /\ "host" \in Ends /\ "plugin" \in Ends /\ Peer("host") = "plugin"
      /\ Peer("plugin") = "host" /\ 0 \in Nat
      /\ {"start", "data", "closewrite", "close"} = Flags
      /\ PcOK /\ wire["host"] \in Seq(Frames) /\ recvCh["host"] \in Seq(Frames)
      /\ open \in [Ends -> BOOLEAN] /\ cancelled \in [Ends -> BOOLEAN]
      /\ DOMAIN recvCh = Ends /\ DOMAIN wire = Ends
      /\ pc["copier"] # "off" => pc["call"] = "done"
  BY Names DEF Flags, TypeInv, TypeOK, PcOK, OrderInv
\* A step that leaves the host's end of the stream alone, and one after which
\* the caller no longer receives.
<1>1. ASSUME wire'["host"] = wire["host"], recvCh'["host"] = recvCh["host"],
             open'["host"] = open["host"], cancelled'["host"] = cancelled["host"],
             pc["call"] = "off" <=> pc'["call"] = "off", Reading' => Reading,
             up' => up, Spoken => Spoken'
      PROVE  ReadInv' /\ (Reading' => Reading)
  BY <1>1 DEF ReadInv, NoData
<1>2. ASSUME wire'["host"] = wire["host"], recvCh'["host"] = recvCh["host"],
             pc'["call"] # "off", ~Reading', Spoken => Spoken'
      PROVE  ReadInv' /\ (Reading' => Reading)
  BY <1>2 DEF ReadInv
<1>3. CASE CallStart
  <2>1. /\ pc["call"] = "off" /\ pc'["call"] = "start" /\ pc'["copier"] = pc["copier"]
        /\ pc'["handler"] = pc["handler"] /\ open'["host"] = TRUE
        /\ UNCHANGED <<wire, recvCh, cancelled, up>>
    BY <1>0, <1>3, Names DEF CallStart
  <2> QED
    BY <2>1 DEF ReadInv, Reading, Spoken, NoData
<1>4. CASE CallWritesStart \/ CallSendsRequest \/ CallEndsRequest
  <2>1. /\ pc["call"] \in {"start", "request", "end"} /\ pc'["handler"] = pc["handler"]
        /\ \/ pc'["call"] \in {"request", "end"} /\ pc'["copier"] = pc["copier"]
           \/ pc'["call"] = "done"
        /\ UNCHANGED up
        /\ \E f : Write("host", f)
    BY <1>0, <1>4, Names
    DEF CallWritesStart, CallSendsRequest, CallEndsRequest, Moves, Send
  <2>2. wire'["host"] = wire["host"] /\ UNCHANGED <<recvCh, cancelled, open>>
    BY <1>0, <2>1 DEF Write
  <2>3. Reading
    BY <2>1 DEF Reading
  <2> QED
    BY <1>1, <2>1, <2>2, <2>3 DEF Spoken
<1>5. CASE CallStartFails \/ CallRequestFails \/ CloseEnd("call", "host")
  <2>1. /\ pc["call"] \in {"start", "request", "end", "closing"}
        /\ pc'["call"] \in {"done", "closing"}
        /\ pc'["handler"] = pc["handler"] /\ pc'["copier"] = pc["copier"]
        /\ wire'["host"] = wire["host"] /\ UNCHANGED recvCh
    BY <1>0, <1>5, Names DEF CallStartFails, CallRequestFails, CloseEnd, Moves, Cancel
  <2>2. pc["copier"] = "off"
    BY <1>0, <2>1
  <2> QED
    BY <1>2, <2>1, <2>2 DEF Reading, Spoken
<1>6. CASE CopierRecvs
  <2>1. /\ recvCh["host"] # <<>> /\ recvCh'["host"] = Tail(recvCh["host"])
        /\ wire' = wire /\ open' = open /\ cancelled' = cancelled /\ up' = up
        /\ pc["copier"] = "recv" /\ pc'["copier"] = "push"
        /\ pc'["handler"] = pc["handler"] /\ pc'["call"] = pc["call"]
    BY <1>0, <1>6, Names DEF CopierRecvs, Recvs, Recv, Arrived, Moves
  <2>2. \A k \in DOMAIN Tail(recvCh["host"]) : IsData(Tail(recvCh["host"])[k])
    BY <1>0, <2>1, TakeType DEF ReadInv
  <2> QED
    BY <2>1, <2>2 DEF ReadInv, Reading, Spoken, NoData
<1>7. CASE CopierPushes
  <2>1. /\ UNCHANGED <<wire, open, cancelled, recvCh, up>>
        /\ pc["copier"] = "push" /\ pc'["copier"] = "recv"
        /\ pc'["handler"] = pc["handler"] /\ pc'["call"] = pc["call"]
    BY <1>0, <1>7, Names DEF CopierPushes, PassesOn, Moves
  <2> QED
    BY <2>1 DEF ReadInv, Reading, Spoken, NoData
<1>8. CASE CopierEnds \/ CloseEnd("copier", "host")
  <2>1. /\ pc["copier"] \in {"recv", "push", "closing"}
        /\ pc'["copier"] \in {"closing", "done"}
        /\ pc'["handler"] = pc["handler"] /\ pc'["call"] = pc["call"]
        /\ wire'["host"] = wire["host"] /\ UNCHANGED recvCh
    BY <1>0, <1>8, Names DEF CopierEnds, CopierEndsIf, CloseEnd, Moves, Cancel
  <2>2. pc["call"] = "done"
    BY <1>0, <2>1
  <2> QED
    BY <1>2, <2>1, <2>2 DEF Reading, Spoken
<1>9. CASE \/ HandlerRecvs \/ HandlerCalls \/ HandlerSkips \/ HandlerSendFails
           \/ HandlerStops \/ HandlerQuits
  <2>1. /\ pc["handler"] \in {"recv", "send", "sending", "quit"}
        /\ pc'["copier"] = pc["copier"] /\ pc'["call"] = pc["call"]
        /\ UNCHANGED <<wire, open, up>>
        /\ recvCh'["host"] = recvCh["host"] /\ cancelled'["host"] = cancelled["host"]
    BY <1>0, <1>9, Names
    DEF HandlerRecvs, Recv, HandlerCalls, HandlerSkips, HandlerSendFails, HandlerStops,
        HandlerQuits, Moves, Cancel
  <2> QED
    BY <1>1, <2>1 DEF ReadInv, Reading, Spoken
<1>10. CASE HandlerSends
  <2>1. /\ pc["handler"] = "sending" /\ pc'["handler"] = "send"
        /\ pc'["copier"] = pc["copier"] /\ pc'["call"] = pc["call"] /\ UNCHANGED up
        /\ Write("plugin", Frame("data", sent + 1)) /\ sent + 1 \in Nat
    BY <1>0, <1>10, Names, CallsAssumption
    DEF Moves, HandlerSends, Send, TypeInv, TypeOK
  <2>2. /\ up /\ UNCHANGED <<recvCh, cancelled, open>>
        /\ \A k \in DOMAIN wire'["host"] :
             \/ k \in DOMAIN wire["host"] /\ wire'["host"][k] = wire["host"][k]
             \/ IsData(wire'["host"][k])
    <3> DEFINE n == sent + 1
    <3>1. Write("plugin", Frame("data", n)) /\ n \in Nat /\ "data" \in Flags
      BY <1>0, <2>1
    <3> HIDE DEF n
    <3>2. /\ up /\ UNCHANGED <<recvCh, cancelled, open>>
          /\ \A k \in DOMAIN wire'["host"] :
               \/ k \in DOMAIN wire["host"] /\ wire'["host"][k] = wire["host"][k]
               \/ wire'["host"][k] = Frame("data", n)
          /\ Frame("data", n).flag = "data"
      BY <1>0, <3>1, WireWrite
    <3> QED
      BY <3>2 DEF IsData
  <2> QED
    BY <2>1, <2>2 DEF ReadInv, Reading, Spoken, NoData
<1>11. CASE CloseEnd("handler", "plugin")
  <2>1. /\ pc["handler"] = "closing" /\ pc'["handler"] = "done"
        /\ pc'["copier"] = pc["copier"] /\ pc'["call"] = pc["call"]
        /\ UNCHANGED <<recvCh, cancelled, up>> /\ open'["host"] = open["host"]
    BY <1>0, <1>11, Names DEF CloseEnd, Moves
  <2>2. CASE UNCHANGED wire
    BY <1>1, <2>1, <2>2 DEF ReadInv, Reading, Spoken
  <2>3. CASE up /\ wire' = [wire EXCEPT !["host"] = Append(@, Frame("close", 0))]
    <3>1. /\ Frame("close", 0) \in Frames /\ Frame("close", 0).flag = "close"
          /\ wire'["host"] = Append(wire["host"], Frame("close", 0))
      BY <1>0, <2>3, FrameType
    <3>2. \A k \in DOMAIN wire'["host"] :
             \/ k \in DOMAIN wire["host"] /\ wire'["host"][k] = wire["host"][k]
             \/ k = Len(wire'["host"]) /\ wire'["host"][k] = Frame("close", 0)
      BY <1>0, <3>1, PutType
    <3>3. \A k \in DOMAIN wire["host"] : IsData(wire["host"][k])
      BY <2>1 DEF ReadInv, Spoken
    <3>4. Spoken' /\ ~(Reading /\ cancelled["host"])
      BY <2>1, <2>3 DEF ReadInv, Spoken
    <3> QED
      BY <2>1, <2>3, <3>1, <3>2, <3>3, <3>4 DEF ReadInv, Reading
  <2> QED
    BY <1>0, <1>11, <2>2, <2>3 DEF CloseEnd
<1>12. CASE PumpSteps("pumpResp")
  <2>1. /\ UNCHANGED <<streamVars, up>> /\ pc'["handler"] = pc["handler"]
        /\ pc'["copier"] = pc["copier"] /\ pc'["call"] = pc["call"]
    BY <1>0, <1>12, Names DEF PumpSteps, PumpTakes, PumpPuts, PumpEnds, Moves
  <2> QED
    BY <1>1, <2>1 DEF ReadInv, Reading, Spoken
<1>13. CASE Dispatch("host")
  <2> DEFINE q == wire["host"]
             f == Head(wire["host"])
  <2>1. /\ q # <<>> /\ wire' = [wire EXCEPT !["host"] = Tail(@)] /\ UNCHANGED <<up, pc>>
        /\ f.flag # "start"
        /\ \/ UNCHANGED <<recvCh, cancelled, open>>
           \/ /\ cancelled'["host"] = TRUE /\ open'["host"] = FALSE /\ UNCHANGED recvCh
              /\ f.flag = "close"
           \/ /\ open["host"] /\ f.flag # "close" /\ UNCHANGED <<cancelled, open>>
              /\ recvCh'["host"] = Append(recvCh["host"], f)
    BY <1>0, <1>13 DEF Dispatch
  <2>2. /\ f = q[1] /\ 1 \in DOMAIN q /\ f \in Frames
        /\ Len(wire'["host"]) = Len(q) - 1 /\ Len(q) \in Nat
        /\ \A k \in DOMAIN wire'["host"] :
             k + 1 \in DOMAIN q /\ wire'["host"][k] = q[k + 1] /\ k \in Nat \ {0}
    BY <1>0, <2>1, WireTake
  <2> HIDE DEF q, f
  <2>3. \A k \in DOMAIN wire'["host"] :
          IsData(wire'["host"][k])
            \/ (wire'["host"][k].flag = "close" /\ k = Len(wire'["host"]) /\ Spoken)
    BY <2>2 DEF ReadInv, q
  <2>4. NoData(q) => NoData(wire'["host"])
    BY <2>2 DEF NoData
  <2>5. pc["call"] \notin {"off", "start"}
    BY <2>1 DEF StartInv, q
  <2>6. Spoken' = Spoken /\ Reading' = Reading
    BY <2>1 DEF Spoken, Reading
  <2>7. CASE UNCHANGED <<recvCh, cancelled, open>>
    BY <2>1, <2>3, <2>4, <2>5, <2>6, <2>7 DEF ReadInv, q
  <2>8. CASE /\ cancelled'["host"] = TRUE /\ open'["host"] = FALSE /\ UNCHANGED recvCh
             /\ f.flag = "close"
    <3>1. Len(q) = 1 /\ Spoken
      BY <2>2, <2>8 DEF ReadInv, q, IsData
    <3>2. NoData(wire'["host"])
      <4>1. \A k \in DOMAIN wire'["host"] : k + 1 = 1
        BY <2>2, <3>1, <1>0 DEF q
      <4> QED
        BY <2>2, <4>1 DEF NoData
    <3> QED
      BY <2>1, <2>3, <2>5, <2>6, <2>8, <3>1, <3>2 DEF ReadInv
  <2>9. CASE /\ open["host"] /\ f.flag # "close" /\ UNCHANGED <<cancelled, open>>
             /\ recvCh'["host"] = Append(recvCh["host"], f)
    <3>1. IsData(f)
      BY <2>2, <2>9 DEF ReadInv, q
    <3>2. \A k \in DOMAIN recvCh'["host"] : IsData(recvCh'["host"][k])
      BY <1>0, <2>2, <2>9, <3>1, PutType DEF ReadInv
    <3> QED
      BY <2>1, <2>3, <2>4, <2>5, <2>6, <2>9, <3>2 DEF ReadInv, q
  <2> QED
    BY <2>1, <2>7, <2>8, <2>9
<1>14. CASE Dispatch("plugin")
  <2>1. /\ wire'["host"] = wire["host"] /\ recvCh'["host"] = recvCh["host"]
        /\ open'["host"] = open["host"] /\ cancelled'["host"] = cancelled["host"]
        /\ UNCHANGED <<pc, up>>
    BY <1>0, <1>14 DEF Dispatch
  <2> QED
    BY <1>1, <2>1 DEF ReadInv, Reading, Spoken
<1>15. CASE DispatchStart
  <2>1. /\ wire'["host"] = wire["host"] /\ recvCh'["host"] = recvCh["host"]
        /\ open'["host"] = open["host"] /\ cancelled'["host"] = cancelled["host"]
        /\ pc'["copier"] = pc["copier"] /\ pc'["call"] = pc["call"] /\ up' = up
    BY <1>0, <1>15, Names DEF DispatchStart
  <2>2. wire["plugin"] # <<>> /\ Head(wire["plugin"]).flag = "start"
    BY <1>15 DEF DispatchStart
  <2>3. 1 \in DOMAIN wire["plugin"] /\ wire["plugin"][1].flag = "start"
    BY <1>0, <2>2, TakeType DEF TypeInv, TypeOK
  <2>4. ~Spoken
    BY <2>3 DEF StartInv, Spoken
  <2> QED
    BY <1>1, <2>1, <2>4 DEF ReadInv, Reading
<1>16. CASE LoopFails
  <2>1. /\ ~up /\ wire["host"] = <<>> /\ open["host"] /\ cancelled'["host"] /\ ~open'["host"]
        /\ UNCHANGED <<wire, recvCh, pc, up>>
    BY <1>0, <1>16 DEF LoopFails
  <2>2. NoData(wire["host"])
    BY <2>1 DEF NoData
  <2> QED
    BY <2>1, <2>2 DEF ReadInv, Reading, Spoken, NoData
<1>17. CASE AppTakes \/ ContextEnds
  BY <1>1, <1>17 DEF AppTakes, ContextEnds, ReadInv, Reading, Spoken
<1>18. CASE Crash
  <2>1. /\ pc'["handler"] = "done" /\ pc'["call"] = pc["call"] /\ pc'["copier"] = pc["copier"]
        /\ ~up' /\ wire'["host"] = wire["host"]
        /\ UNCHANGED <<recvCh, open, cancelled>>
    BY <1>0, <1>18, Names DEF Crash, OfPlugin
  <2> QED
    BY <1>1, <2>1 DEF ReadInv, Reading, Spoken
<1> QED
  BY <1>3, <1>4, <1>5, <1>6, <1>7, <1>8, <1>9, <1>10, <1>11, <1>12, <1>13, <1>14,
     <1>15, <1>16, <1>17, <1>18, SingleNext

\* Payloads as the frames they travel in.
Payloads == 1 .. MaxPayloads
Data(n) == Frame("data", n)

LEMMA ItemsType ==
  ASSUME NEW q \in Seq(Payloads)
  PROVE  /\ Items(q) \in Seq(Frames) /\ DOMAIN Items(q) = DOMAIN q
         /\ \A k \in DOMAIN q : Items(q)[k] = Data(q[k]) /\ q[k] \in Payloads
         /\ \A n \in Payloads : /\ Items(Append(q, n)) = Append(Items(q), Data(n))
                                /\ Data(n) \in Frames /\ IsData(Data(n)) /\ Data(n).val = n
         /\ q # <<>> => /\ Items(q) # <<>> /\ Head(Items(q)) = Data(Head(q))
                        /\ Items(Tail(q)) = Tail(Items(q)) /\ Head(q) \in Payloads
                        /\ Tail(q) \in Seq(Payloads)
<1>1. Payloads \subseteq Nat
  BY DEF Payloads
<1>2. \A n \in Payloads : Data(n) \in Frames /\ IsData(Data(n)) /\ Data(n).val = n
  BY <1>1 DEF Data, Frame, Frames, Flags, IsData
<1>0. \A s : Items(s) = [k \in DOMAIN s |-> Data(s[k])]
  BY DEF Items, Data
<1> HIDE DEF Data
<1>3. Items(q) = [k \in 1 .. Len(q) |-> Data(q[k])] /\ Len(q) \in Nat
      /\ DOMAIN q = 1 .. Len(q) /\ \A k \in 1 .. Len(q) : q[k] \in Payloads
  BY <1>0
<1>4. Items(q) \in Seq(Frames) /\ Len(Items(q)) = Len(q) /\ DOMAIN Items(q) = DOMAIN q
      /\ \A k \in DOMAIN q : Items(q)[k] = Data(q[k])
  BY <1>2, <1>3
<1>5. ASSUME NEW s \in Seq(Payloads), NEW t \in Seq(Frames), DOMAIN s = DOMAIN t,
             \A k \in DOMAIN s : t[k] = Data(s[k])
      PROVE  Items(s) = t
  <2>1. t = [k \in DOMAIN t |-> t[k]] /\ Items(s) = [k \in DOMAIN s |-> Data(s[k])]
    BY <1>0
  <2> QED
    BY <1>5, <2>1
<1>6. ASSUME NEW n \in Payloads
      PROVE  Items(Append(q, n)) = Append(Items(q), Data(n))
  <2>1. /\ Append(q, n) \in Seq(Payloads)
        /\ DOMAIN Append(q, n) = 1 .. (Len(q) + 1)
        /\ \A k \in 1 .. Len(q) : Append(q, n)[k] = q[k]
        /\ Append(q, n)[Len(q) + 1] = n
    BY <1>3, PutType
  <2>2. /\ Append(Items(q), Data(n)) \in Seq(Frames)
        /\ DOMAIN Append(Items(q), Data(n)) = 1 .. (Len(q) + 1)
        /\ \A k \in 1 .. Len(q) : Append(Items(q), Data(n))[k] = Data(q[k])
        /\ Append(Items(q), Data(n))[Len(q) + 1] = Data(n)
    BY <1>2, <1>3, <1>4, PutType
  <2> DEFINE s == Append(q, n)
             t == Append(Items(q), Data(n))
  <2>3. s \in Seq(Payloads) /\ t \in Seq(Frames) /\ DOMAIN s = DOMAIN t
        /\ \A k \in DOMAIN s : t[k] = Data(s[k])
    BY <1>3, <2>1, <2>2
  <2> HIDE DEF s, t
  <2>4. Items(s) = t
    BY <1>5, <2>3
  <2> QED
    BY <2>4 DEF s, t
<1>7. ASSUME q # <<>>
      PROVE  /\ Items(q) # <<>> /\ Head(Items(q)) = Data(Head(q))
             /\ Items(Tail(q)) = Tail(Items(q)) /\ Head(q) \in Payloads
             /\ Tail(q) \in Seq(Payloads)
  <2>1. /\ Tail(q) \in Seq(Payloads) /\ DOMAIN Tail(q) = 1 .. (Len(q) - 1)
        /\ \A k \in DOMAIN Tail(q) : k + 1 \in DOMAIN q /\ Tail(q)[k] = q[k + 1]
        /\ 1 \in DOMAIN q /\ Head(q) = q[1] /\ Head(q) \in Payloads
    BY <1>7, TakeType
  <2>2. Items(q) # <<>>
    BY <1>4, <2>1
  <2>3. /\ DOMAIN Tail(Items(q)) = 1 .. (Len(q) - 1)
        /\ \A k \in DOMAIN Tail(Items(q)) : Tail(Items(q))[k] = Items(q)[k + 1]
        /\ Head(Items(q)) = Items(q)[1]
        /\ Tail(Items(q)) \in Seq(Frames)
    BY <1>4, <2>2, TakeType
  <2> DEFINE s == Tail(q)
             t == Tail(Items(q))
  <2>4. s \in Seq(Payloads) /\ t \in Seq(Frames) /\ DOMAIN s = DOMAIN t
        /\ \A k \in DOMAIN s : t[k] = Data(s[k])
    BY <1>4, <2>1, <2>3
  <2> HIDE DEF s, t
  <2>5. Items(s) = t
    BY <1>5, <2>4
  <2>6. Items(Tail(q)) = Tail(Items(q))
    BY <2>5 DEF s, t
  <2> QED
    BY <1>4, <2>1, <2>2, <2>3, <2>6
<1> QED
  BY <1>2, <1>3, <1>4, <1>6, <1>7

LEMMA ItemsPass ==
  ASSUME NEW q \in Seq(Payloads), NEW r \in Seq(Payloads), r # <<>>
  PROVE  /\ Items(r) # <<>> /\ Items(Tail(r)) = Tail(Items(r))
         /\ Items(Append(q, Head(r))) = Append(Items(q), Head(Items(r)))
         /\ Head(Items(r)) = Data(Head(r)) /\ Head(r) \in Payloads
<1>1. /\ Items(r) # <<>> /\ Items(Tail(r)) = Tail(Items(r))
      /\ Head(Items(r)) = Data(Head(r)) /\ Head(r) \in Payloads
  BY ItemsType
<1> DEFINE n == Head(r)
<1> HIDE DEF n
<1>2. n \in Payloads => Items(Append(q, n)) = Append(Items(q), Data(n))
  BY ItemsType
<1> QED
  BY <1>1, <1>2 DEF n

LEMMA HeldType ==
  /\ Held(0) = <<>> /\ Held(0) \in Seq(Frames)
  /\ \A n \in Payloads :
       /\ Held(n) \in Seq(Frames) /\ Held(n) # <<>> /\ Held(n) = Append(<<>>, Data(n))
       /\ Head(Held(n)) = Data(n) /\ Tail(Held(n)) = <<>>
       /\ Data(n) \in Frames /\ IsData(Data(n)) /\ Data(n).val = n /\ n # 0
<1>1. \A n \in Payloads : n # 0 /\ Data(n) \in Frames /\ IsData(Data(n)) /\ Data(n).val = n
  BY DEF Payloads, Data, Frame, Frames, Flags, IsData
<1>2. \A n \in Payloads : Held(n) = <<Data(n)>>
  BY <1>1 DEF Held, Data
<1> HIDE DEF Data
<1>3. \A f \in Frames : /\ <<f>> \in Seq(Frames) /\ <<f>> # <<>> /\ <<f>> = Append(<<>>, f)
                        /\ Head(<<f>>) = f /\ Tail(<<f>>) = <<>>
  OBVIOUS
<1>4. Held(0) = <<>> /\ Held(0) \in Seq(Frames)
  BY DEF Held
<1> QED
  BY <1>1, <1>2, <1>3, <1>4

LEMMA NoItems == Items(<<>>) = <<>> /\ Held(0) = <<>>
<1> DEFINE q == <<>>
<1>1. q \in Seq(Payloads) /\ DOMAIN q = {}
  OBVIOUS
<1> HIDE DEF q
<1>2. Items(q) \in Seq(Frames) /\ DOMAIN Items(q) = {}
  BY <1>1, ItemsType
<1> DEFINE t == Items(q)
<1> HIDE DEF t
<1>3. t \in Seq(Frames) /\ DOMAIN t = {} => t = <<>>
  OBVIOUS
<1> QED
  BY <1>2, <1>3, HeldType DEF t, q

\* The responses, from the application back to the handler.
Responses ==
  << Items(got), Items(queue["resp"]), Held(hand["pumpResp"]), Items(queue["rawResp"]),
     Held(hand["copier"]), IF Reading THEN recvCh["host"] ELSE <<>>,
     IF Reading THEN wire["host"] ELSE <<>> >>

LEMMA SevenPlaces ==
  ASSUME NEW a \in Seq(Frames), NEW b \in Seq(Frames), NEW c \in Seq(Frames),
         NEW d \in Seq(Frames), NEW e \in Seq(Frames), NEW f \in Seq(Frames),
         NEW g \in Seq(Frames)
  PROVE  <<a, b, c, d, e, f, g>> \in Lines(7)
<1> DEFINE t == <<a, b, c, d, e, f, g>>
<1>1. t = [k \in 1 .. 7 |-> t[k]]
  OBVIOUS
<1>2. t[1] = a /\ t[2] = b /\ t[3] = c /\ t[4] = d /\ t[5] = e /\ t[6] = f /\ t[7] = g
  OBVIOUS
<1> HIDE DEF t
<1>3. \A k \in 1 .. 7 : k = 1 \/ k = 2 \/ k = 3 \/ k = 4 \/ k = 5 \/ k = 6 \/ k = 7
  OBVIOUS
<1>4. \A k \in 1 .. 7 : t[k] \in Seq(Frames)
  BY <1>2, <1>3
<1> QED
  BY <1>1, <1>4 DEF Lines, t

LEMMA RespPlaces ==
  TypeInv =>
    /\ Responses \in Lines(7)
    /\ Responses[1] = Items(got) /\ Responses[2] = Items(queue["resp"])
    /\ Responses[3] = Held(hand["pumpResp"]) /\ Responses[4] = Items(queue["rawResp"])
    /\ Responses[5] = Held(hand["copier"])
    /\ Responses[6] = IF Reading THEN recvCh["host"] ELSE <<>>
    /\ Responses[7] = IF Reading THEN wire["host"] ELSE <<>>
    /\ got \in Seq(Payloads) /\ \A c \in Chans : queue[c] \in Seq(Payloads)
    /\ \A g \in Goroutines : hand[g] # 0 => hand[g] \in Payloads
    /\ wire["host"] \in Seq(Frames) /\ recvCh["host"] \in Seq(Frames)
<1> SUFFICES ASSUME TypeInv
             PROVE  /\ Responses \in Lines(7)
                    /\ Responses[1] = Items(got) /\ Responses[2] = Items(queue["resp"])
                    /\ Responses[3] = Held(hand["pumpResp"])
                    /\ Responses[4] = Items(queue["rawResp"])
                    /\ Responses[5] = Held(hand["copier"])
                    /\ Responses[6] = IF Reading THEN recvCh["host"] ELSE <<>>
                    /\ Responses[7] = IF Reading THEN wire["host"] ELSE <<>>
                    /\ got \in Seq(Payloads) /\ \A c \in Chans : queue[c] \in Seq(Payloads)
                    /\ \A g \in Goroutines : hand[g] # 0 => hand[g] \in Payloads
                    /\ wire["host"] \in Seq(Frames) /\ recvCh["host"] \in Seq(Frames)
  OBVIOUS
<1>1. /\ got \in Seq(Payloads) /\ \A c \in Chans : queue[c] \in Seq(Payloads)
      /\ \A g \in Goroutines : hand[g] # 0 => hand[g] \in Payloads
      /\ wire["host"] \in Seq(Frames) /\ recvCh["host"] \in Seq(Frames)
  <2>1. got \in Seq(Payloads) /\ \A c \in Chans : queue[c] \in Seq(Payloads)
    BY DEF TypeInv, TypeOK, Payloads
  <2>2. \A g \in Goroutines : hand[g] # 0 => hand[g] \in Payloads
    <3>1. hand \in [Goroutines -> 0 .. MaxPayloads] /\ MaxPayloads \in Nat
      BY CallsAssumption DEF TypeInv, TypeOK
    <3> QED
      BY <3>1 DEF Payloads
  <2>3. wire["host"] \in Seq(Frames) /\ recvCh["host"] \in Seq(Frames)
    BY Names DEF TypeInv, TypeOK
  <2> QED
    BY <2>1, <2>2, <2>3
<1>2. /\ Items(got) \in Seq(Frames) /\ Items(queue["resp"]) \in Seq(Frames)
      /\ Items(queue["rawResp"]) \in Seq(Frames)
  BY <1>1, ItemsType DEF Chans
<1>3. Held(hand["pumpResp"]) \in Seq(Frames) /\ Held(hand["copier"]) \in Seq(Frames)
  BY <1>1, HeldType, Names
<1> DEFINE r == IF Reading THEN recvCh["host"] ELSE <<>>
           w == IF Reading THEN wire["host"] ELSE <<>>
<1>4. r \in Seq(Frames) /\ w \in Seq(Frames)
  BY <1>1
<1> HIDE DEF r, w
<1>5. << Items(got), Items(queue["resp"]), Held(hand["pumpResp"]), Items(queue["rawResp"]),
         Held(hand["copier"]), r, w >> \in Lines(7)
  BY <1>2, <1>3, <1>4, SevenPlaces
<1>6. Responses = << Items(got), Items(queue["resp"]), Held(hand["pumpResp"]),
                     Items(queue["rawResp"]), Held(hand["copier"]), r, w >>
  BY DEF Responses, r, w
<1> QED
  BY <1>1, <1>5, <1>6 DEF r, w

\* What a step does to the responses.
RespMove ==
  \/ UNCHANGED <<Responses, sent>>
  \/ /\ UNCHANGED sent
     /\ \/ \E j \in 1 .. 6 : /\ Passes(Responses, Responses', j)
                             /\ j = 3 => Readable(Head(Responses[4]).val)
        \/ \E j \in 1 .. 7 : Drops(Responses, Responses', j)
        \/ \E f \in Frames : ~IsData(f) /\ Adds(Responses, Responses', 7, f)
        \/ Cuts(Responses, Responses', 6) /\ ~Reading'
  \/ /\ sent' = sent + 1
     /\ \/ Adds(Responses, Responses', 7, Frame("data", sent + 1)) /\ Reading
        \/ UNCHANGED Responses /\ (Reading => ~Readable(sent + 1))

LEMMA RespMoves ==
  ASSUME TypeInv, TypeInv', StartInv, ReadInv, Next, mode = "SingleMulti"
  PROVE  RespMove
<1> USE DEF envVars, streamVars, chanVars, appVars, PcOK
<1> DEFINE P == Responses
           Q == Responses'
<1>0. /\ "host" \in Ends /\ "plugin" \in Ends /\ Peer("host") = "plugin"
      /\ Peer("plugin") = "host" /\ 0 \in Nat /\ "data" \in Flags
      /\ PcOK /\ wire["host"] \in Seq(Frames) /\ recvCh["host"] \in Seq(Frames)
      /\ DOMAIN recvCh = Ends /\ DOMAIN wire = Ends /\ DOMAIN queue = Chans
      /\ {"resp", "rawResp"} \subseteq Chans /\ DOMAIN hand = Goroutines
  BY Names DEF Flags, TypeInv, TypeOK, PcOK, Chans
<1>1. /\ P \in Lines(7)
      /\ P[1] = Items(got) /\ P[2] = Items(queue["resp"])
      /\ P[3] = Held(hand["pumpResp"]) /\ P[4] = Items(queue["rawResp"])
      /\ P[5] = Held(hand["copier"])
      /\ P[6] = IF Reading THEN recvCh["host"] ELSE <<>>
      /\ P[7] = IF Reading THEN wire["host"] ELSE <<>>
      /\ got \in Seq(Payloads) /\ \A c \in Chans : queue[c] \in Seq(Payloads)
      /\ \A g \in Goroutines : hand[g] # 0 => hand[g] \in Payloads
  BY RespPlaces
<1>2. (TypeInv =>
         /\ Responses \in Lines(7)
         /\ Responses[1] = Items(got) /\ Responses[2] = Items(queue["resp"])
         /\ Responses[3] = Held(hand["pumpResp"]) /\ Responses[4] = Items(queue["rawResp"])
         /\ Responses[5] = Held(hand["copier"])
         /\ Responses[6] = IF Reading THEN recvCh["host"] ELSE <<>>
         /\ Responses[7] = IF Reading THEN wire["host"] ELSE <<>>)'
  BY RespPlaces, PTL
<1>3. /\ Q \in Lines(7)
      /\ Q[1] = Items(got') /\ Q[2] = Items(queue'["resp"])
      /\ Q[3] = Held(hand'["pumpResp"]) /\ Q[4] = Items(queue'["rawResp"])
      /\ Q[5] = Held(hand'["copier"])
      /\ Q[6] = IF Reading' THEN recvCh'["host"] ELSE <<>>
      /\ Q[7] = IF Reading' THEN wire'["host"] ELSE <<>>
  BY <1>2
<1>4. Reading' => Reading
  BY ReadNext
<1> HIDE DEF P, Q
<1>5. /\ DOMAIN P = 1 .. 7 /\ P = [k \in 1 .. 7 |-> P[k]] /\ Q = [k \in 1 .. 7 |-> Q[k]]
      /\ \A k \in 1 .. 7 : k = 1 \/ k = 2 \/ k = 3 \/ k = 4 \/ k = 5 \/ k = 6 \/ k = 7
  BY <1>1, <1>3 DEF Lines
<1>6. ASSUME UNCHANGED sent, got' = got, queue'["resp"] = queue["resp"],
             queue'["rawResp"] = queue["rawResp"], hand'["pumpResp"] = hand["pumpResp"],
             hand'["copier"] = hand["copier"], recvCh'["host"] = recvCh["host"],
             wire'["host"] = wire["host"]
      PROVE  RespMove
  <2>1. CASE Reading' = Reading
    <3>1. \A k \in 1 .. 7 : Q[k] = P[k]
      BY <1>1, <1>3, <1>5, <1>6, <2>1
    <3>2. Q = P
      BY <1>5, <3>1
    <3> QED
      BY <1>6, <3>2 DEF RespMove, P, Q
  <2>2. CASE ~Reading'
    <3>1. \A k \in 1 .. 7 : Q[k] = IF k < 6 THEN P[k] ELSE <<>>
      BY <1>1, <1>3, <1>5, <1>6, <2>2
    <3>2. Cuts(P, Q, 6)
      BY <1>5, <3>1 DEF Cuts
    <3> QED
      BY <1>6, <2>2, <3>2 DEF RespMove, P, Q
  <2> QED
    BY <1>4, <2>1, <2>2
<1>7. ASSUME NEW j \in 1 .. 6, Passes(P, Q, j), j = 3 => Readable(Head(P[4]).val),
             UNCHANGED sent
      PROVE  RespMove
  BY <1>7 DEF RespMove, P, Q
<1>8. ASSUME NEW j \in 1 .. 7, Drops(P, Q, j), UNCHANGED sent
      PROVE  RespMove
  BY <1>8 DEF RespMove, P, Q
<1>9. CASE AppTakes
  <2>1. /\ queue["resp"] # <<>> /\ got' = Append(got, Head(queue["resp"]))
        /\ queue'["resp"] = Tail(queue["resp"]) /\ queue'["rawResp"] = queue["rawResp"]
        /\ UNCHANGED <<hand, recvCh, wire, pc, sent>>
    BY <1>0, <1>9 DEF AppTakes, Get
  <2>2. Reading' = Reading
    BY <2>1 DEF Reading
  <2>3. P[2] # <<>> /\ Q[1] = Append(P[1], Head(P[2])) /\ Q[2] = Tail(P[2])
    <3>1. got \in Seq(Payloads) /\ queue["resp"] \in Seq(Payloads)
      BY <1>0, <1>1
    <3> QED
      BY <1>1, <1>3, <2>1, <3>1, ItemsPass
  <2>4. \A k \in DOMAIN P \ {1, 2} : Q[k] = P[k]
    BY <1>1, <1>3, <1>5, <2>1, <2>2
  <2> QED
    BY <1>7, <2>1, <2>3, <2>4 DEF Passes, Others
<1>10. CASE PumpPuts("pumpResp")
  <2>1. /\ hand["pumpResp"] # 0 /\ queue'["resp"] = Append(queue["resp"], hand["pumpResp"])
        /\ queue'["rawResp"] = queue["rawResp"]
        /\ hand'["pumpResp"] = 0 /\ hand'["copier"] = hand["copier"]
        /\ UNCHANGED <<got, recvCh, wire, pc, sent>>
    BY <1>0, <1>10, Names DEF PumpPuts, Put, To
  <2>2. Reading' = Reading
    BY <2>1 DEF Reading
  <2>3. hand["pumpResp"] \in Payloads
    BY <1>1, <2>1, Names
  <2>4. P[3] # <<>> /\ Head(P[3]) = Data(hand["pumpResp"]) /\ Q[3] = Tail(P[3])
    BY <1>1, <1>3, <2>1, <2>3, HeldType
  <2>5. Q[2] = Append(P[2], Head(P[3]))
    <3>1. queue["resp"] \in Seq(Payloads)
      BY <1>0, <1>1
    <3>2. Items(Append(queue["resp"], hand["pumpResp"]))
            = Append(Items(queue["resp"]), Data(hand["pumpResp"]))
      BY <2>3, <3>1, ItemsType
    <3> QED
      BY <1>1, <1>3, <2>1, <2>4, <3>2
  <2>6. \A k \in DOMAIN P \ {2, 3} : Q[k] = P[k]
    BY <1>1, <1>3, <1>5, <2>1, <2>2
  <2> QED
    BY <1>7, <2>1, <2>4, <2>5, <2>6 DEF Passes, Others
<1>11. CASE PumpTakes("pumpResp")
  <2> DEFINE n == Head(queue["rawResp"])
  <2>1. /\ hand["pumpResp"] = 0 /\ queue["rawResp"] # <<>>
        /\ queue'["rawResp"] = Tail(queue["rawResp"]) /\ queue'["resp"] = queue["resp"]
        /\ hand'["pumpResp"] = IF Readable(n) THEN n ELSE 0
        /\ hand'["copier"] = hand["copier"]
        /\ UNCHANGED <<got, recvCh, wire, pc, sent>>
    BY <1>0, <1>11, Names DEF PumpTakes, Converts, Get, From
  <2>2. Reading' = Reading
    BY <2>1 DEF Reading
  <2>3. /\ n \in Payloads /\ P[4] # <<>> /\ Head(P[4]) = Data(n) /\ Q[4] = Tail(P[4])
    <3>1. queue["rawResp"] \in Seq(Payloads)
      BY <1>0, <1>1
    <3> QED
      BY <1>1, <1>3, <2>1, <3>1, ItemsPass
  <2> HIDE DEF n
  <2>4. Data(n).val = n /\ P[3] = <<>>
    BY <1>1, <2>1, <2>3, HeldType
  <2>5. \A k \in DOMAIN P \ {3, 4} : Q[k] = P[k]
    BY <1>1, <1>3, <1>5, <2>1, <2>2
  <2>6. CASE Readable(n)
    <3>1. Q[3] = Append(P[3], Head(P[4]))
      BY <1>3, <2>1, <2>3, <2>4, <2>6, HeldType
    <3> QED
      <4>1. Passes(P, Q, 3)
        BY <2>3, <2>5, <3>1 DEF Passes, Others
      <4>2. Readable(Head(P[4]).val)
        BY <2>3, <2>4, <2>6
      <4> QED
        BY <1>7, <2>1, <4>1, <4>2
  <2>7. CASE ~Readable(n)
    <3>1. Q[3] = P[3]
      BY <1>3, <2>1, <2>4, <2>7, HeldType
    <3>2. Lost(Head(P[4])) /\ \A k \in DOMAIN P \ {4} : Q[k] = P[k]
      BY <2>3, <2>4, <2>5, <2>7, <3>1 DEF Lost
    <3> QED
      BY <1>8, <2>1, <2>3, <3>2 DEF Drops, Others
  <2> QED
    BY <2>6, <2>7
<1>12. CASE CopierPushes
  <2>1. /\ hand["copier"] # 0 /\ queue'["rawResp"] = Append(queue["rawResp"], hand["copier"])
        /\ queue'["resp"] = queue["resp"]
        /\ hand'["copier"] = 0 /\ hand'["pumpResp"] = hand["pumpResp"]
        /\ UNCHANGED <<got, recvCh, wire, sent>>
        /\ pc["copier"] = "push" /\ pc'["copier"] = "recv"
    BY <1>0, <1>12, Names DEF CopierPushes, PassesOn, Put, Moves, TypeInv, HandInv
  <2>2. Reading' /\ Reading
    BY <2>1 DEF Reading
  <2>3. hand["copier"] \in Payloads
    BY <1>1, <2>1, Names
  <2>4. P[5] # <<>> /\ Head(P[5]) = Data(hand["copier"]) /\ Q[5] = Tail(P[5])
    BY <1>1, <1>3, <2>1, <2>3, HeldType
  <2>5. Q[4] = Append(P[4], Head(P[5]))
    <3>1. queue["rawResp"] \in Seq(Payloads)
      BY <1>0, <1>1
    <3>2. Items(Append(queue["rawResp"], hand["copier"]))
            = Append(Items(queue["rawResp"]), Data(hand["copier"]))
      BY <2>3, <3>1, ItemsType
    <3> QED
      BY <1>1, <1>3, <2>1, <2>4, <3>2
  <2>6. \A k \in DOMAIN P \ {4, 5} : Q[k] = P[k]
    BY <1>1, <1>3, <1>5, <2>1, <2>2
  <2> QED
    BY <1>7, <2>1, <2>4, <2>5, <2>6 DEF Passes, Others
<1>13. CASE CopierRecvs
  <2> DEFINE f == Head(recvCh["host"])
  <2>1. /\ recvCh["host"] # <<>> /\ f.flag = "data"
        /\ recvCh'["host"] = Tail(recvCh["host"])
        /\ hand'["copier"] = f.val /\ hand'["pumpResp"] = hand["pumpResp"]
        /\ UNCHANGED <<got, queue, wire, sent>>
        /\ pc["copier"] = "recv" /\ pc'["copier"] = "push"
        /\ hand["copier"] = 0 /\ hand'["copier"] # 0
    <3>1. HandInv /\ HandInv'
      BY DEF TypeInv
    <3>2. /\ recvCh["host"] # <<>> /\ f.flag = "data"
          /\ recvCh'["host"] = Tail(recvCh["host"])
          /\ hand'["copier"] = f.val /\ hand'["pumpResp"] = hand["pumpResp"]
          /\ UNCHANGED <<got, queue, wire, sent>>
          /\ pc["copier"] = "recv" /\ pc'["copier"] = "push"
      <4>1. /\ recvCh["host"] # <<>> /\ f.flag = "data"
            /\ recvCh'["host"] = Tail(recvCh["host"]) /\ UNCHANGED <<got, queue, wire, sent>>
        BY <1>0, <1>13 DEF CopierRecvs, Recvs, Recv, Arrived
      <4>2. pc["copier"] = "recv" /\ pc' = [pc EXCEPT !["copier"] = "push"]
            /\ hand' = [hand EXCEPT !["copier"] = f.val]
        BY <1>13 DEF CopierRecvs, Recvs, Moves
      <4> HIDE DEF f
      <4>3. /\ hand'["copier"] = f.val /\ hand'["pumpResp"] = hand["pumpResp"]
            /\ pc'["copier"] = "push"
        BY <1>0, <4>2, Names
      <4> QED
        BY <4>1, <4>2, <4>3
    <3>3. pc["copier"] = "recv" => hand["copier"] = 0
      BY <3>1 DEF HandInv
    <3>4. pc'["copier"] = "push" => hand'["copier"] # 0
      BY <3>1 DEF HandInv
    <3> QED
      BY <3>2, <3>3, <3>4
  <2>2. Reading' /\ Reading
    BY <2>1 DEF Reading
  <2>3. f \in Frames /\ f.val \in Payloads
    <3>1. f \in Frames
      BY <1>0, <2>1, TakeType
    <3>2. (TypeInv => \A g \in Goroutines : hand[g] # 0 => hand[g] \in Payloads)'
      BY RespPlaces, PTL
    <3> QED
      BY <2>1, <3>1, <3>2, Names
  <2> HIDE DEF f
  <2>4. f = Data(f.val)
    <3>1. f = [flag |-> f.flag, val |-> f.val] /\ f.flag = "data"
      BY <2>1, <2>3 DEF Frames, f
    <3> QED
      BY <3>1 DEF Data, Frame
  <2>5. P[5] = <<>> /\ Q[5] = Append(P[5], f)
    <3>1. P[5] = <<>> /\ Q[5] = Held(f.val)
      BY <1>1, <1>3, <2>1, HeldType
    <3>2. Held(f.val) = Append(<<>>, Data(f.val))
      BY <2>3, HeldType
    <3> QED
      BY <2>4, <3>1, <3>2
  <2>6. P[6] # <<>> /\ Head(P[6]) = f /\ Q[6] = Tail(P[6])
    BY <1>1, <1>3, <2>1, <2>2 DEF f
  <2>7. \A k \in DOMAIN P \ {5, 6} : Q[k] = P[k]
    BY <1>1, <1>3, <1>5, <2>1, <2>2
  <2> QED
    <3>1. Passes(P, Q, 5)
      BY <2>5, <2>6, <2>7 DEF Passes, Others
    <3> QED
      BY <1>7, <2>1, <3>1
<1>14. CASE Dispatch("host")
  <2> DEFINE f == Head(wire["host"])
  <2>1. /\ wire["host"] # <<>> /\ wire'["host"] = Tail(wire["host"])
        /\ UNCHANGED <<got, queue, hand, sent, pc>>
        /\ \/ ~open["host"] /\ UNCHANGED recvCh
           \/ f.flag = "close" /\ UNCHANGED recvCh
           \/ cancelled["host"] /\ UNCHANGED recvCh
           \/ recvCh'["host"] = Append(recvCh["host"], f)
    BY <1>0, <1>14 DEF Dispatch
  <2>2. Reading' = Reading
    BY <2>1 DEF Reading
  <2>3. f \in Frames /\ 1 \in DOMAIN wire["host"] /\ wire["host"][1] = f
    BY <1>0, <2>1, TakeType
  <2> HIDE DEF f
  <2>4. CASE ~Reading
    <3>1. \A k \in 1 .. 7 : Q[k] = P[k]
      BY <1>1, <1>3, <1>5, <2>1, <2>2, <2>4
    <3>2. Q = P
      BY <1>5, <3>1
    <3> QED
      BY <2>1, <3>2 DEF RespMove, P, Q
  <2>5. CASE Reading /\ recvCh'["host"] = Append(recvCh["host"], f)
    <3>1. P[7] # <<>> /\ Head(P[7]) = f /\ Q[7] = Tail(P[7]) /\ Q[6] = Append(P[6], f)
      BY <1>1, <1>3, <2>1, <2>2, <2>5 DEF f
    <3>2. \A k \in DOMAIN P \ {6, 7} : Q[k] = P[k]
      BY <1>1, <1>3, <1>5, <2>1, <2>2
    <3> QED
      BY <1>7, <2>1, <3>1, <3>2 DEF Passes, Others
  <2>6. CASE /\ Reading /\ UNCHANGED recvCh
             /\ ~open["host"] \/ cancelled["host"] \/ f.flag = "close"
    <3>1. pc["call"] # "off"
      BY <2>1 DEF StartInv
    <3>2. ~IsData(f)
      BY <2>3, <2>6, <3>1 DEF ReadInv, NoData, IsData
    <3>3. P[7] # <<>> /\ Head(P[7]) = f /\ Q[7] = Tail(P[7])
      BY <1>1, <1>3, <2>1, <2>2, <2>6 DEF f
    <3>4. \A k \in DOMAIN P \ {7} : Q[k] = P[k]
      BY <1>1, <1>3, <1>5, <2>1, <2>2, <2>6
    <3> QED
      BY <1>8, <2>1, <3>2, <3>3, <3>4 DEF Drops, Others, Lost
  <2> QED
    BY <2>1, <2>4, <2>5, <2>6
<1>15. CASE HandlerSends
  <2>1. /\ wire'["host"] = Append(wire["host"], Frame("data", sent + 1)) /\ sent' = sent + 1
        /\ UNCHANGED <<got, queue, hand, recvCh>>
        /\ pc'["call"] = pc["call"] /\ pc'["copier"] = pc["copier"]
    BY <1>0, <1>15, Names DEF HandlerSends, Send, Write, Moves
  <2>2. Reading' = Reading
    BY <2>1 DEF Reading
  <2>3. CASE Reading
    <3>1. Q[7] = Append(P[7], Frame("data", sent + 1))
      BY <1>1, <1>3, <2>1, <2>2, <2>3
    <3>2. \A k \in DOMAIN P \ {7} : Q[k] = P[k]
      BY <1>1, <1>3, <1>5, <2>1, <2>2
    <3> QED
      BY <2>1, <2>3, <3>1, <3>2 DEF RespMove, Adds, Others, P, Q
  <2>4. CASE ~Reading
    <3>1. \A k \in 1 .. 7 : Q[k] = P[k]
      BY <1>1, <1>3, <1>5, <2>1, <2>2, <2>4
    <3>2. Q = P
      BY <1>5, <3>1
    <3> QED
      BY <2>1, <2>4, <3>2 DEF RespMove, P, Q
  <2> QED
    BY <2>3, <2>4
<1>16. CASE CloseEnd("handler", "plugin")
  <2>1. /\ UNCHANGED <<got, queue, hand, recvCh, sent>>
        /\ UNCHANGED wire \/ wire'["host"] = Append(wire["host"], Frame("close", 0))
        /\ pc'["call"] = pc["call"] /\ pc'["copier"] = pc["copier"]
    BY <1>0, <1>16, Names DEF CloseEnd, Moves
  <2>2. Reading' = Reading
    BY <2>1 DEF Reading
  <2>3. CASE UNCHANGED wire \/ ~Reading
    <3>1. \A k \in 1 .. 7 : Q[k] = P[k]
      BY <1>1, <1>3, <1>5, <2>1, <2>2, <2>3
    <3>2. Q = P
      BY <1>5, <3>1
    <3> QED
      BY <2>1, <3>2 DEF RespMove, P, Q
  <2>4. CASE Reading /\ wire'["host"] = Append(wire["host"], Frame("close", 0))
    <3> DEFINE f == Frame("close", 0)
    <3>1. f \in Frames /\ ~IsData(f)
      BY <1>0, FrameType DEF IsData, Flags
    <3> HIDE DEF f
    <3>2. Q[7] = Append(P[7], f)
      BY <1>1, <1>3, <2>2, <2>4 DEF f
    <3>3. \A k \in DOMAIN P \ {7} : Q[k] = P[k]
      BY <1>1, <1>3, <1>5, <2>1, <2>2
    <3>4. Adds(P, Q, 7, f)
      BY <3>2, <3>3 DEF Adds, Others
    <3> QED
      BY <2>1, <3>1, <3>4 DEF RespMove, P, Q
  <2> QED
    BY <2>1, <2>3, <2>4
<1>17. CASE \/ CallStart \/ CallWritesStart \/ CallStartFails \/ CallSendsRequest
            \/ CallEndsRequest \/ CallRequestFails \/ CloseEnd("call", "host")
  <2>1. /\ UNCHANGED <<got, queue, hand, sent, recvCh>> /\ wire'["host"] = wire["host"]
    BY <1>0, <1>17
    DEF CallStart, CallWritesStart, CallStartFails, CallSendsRequest, CallEndsRequest,
        CallRequestFails, CloseEnd, Cancel, Write, Send
  <2> QED
    BY <1>6, <2>1
<1>18. CASE \/ CopierEnds \/ CloseEnd("copier", "host")
            \/ HandlerRecvs \/ HandlerCalls \/ HandlerSendFails \/ HandlerStops
            \/ HandlerQuits
  <2>1. /\ UNCHANGED <<got, queue, hand, sent>> /\ wire'["host"] = wire["host"]
        /\ recvCh'["host"] = recvCh["host"]
    BY <1>0, <1>18
    DEF CopierEnds, CopierEndsIf, CloseChan, CloseEnd, Cancel, HandlerRecvs, Recv,
        HandlerCalls, HandlerSendFails, HandlerStops, HandlerQuits
  <2> QED
    BY <1>6, <2>1
<1>20. CASE HandlerSkips
  <2>1. /\ UNCHANGED <<got, queue, hand, wire, recvCh, pc>> /\ sent' = sent + 1
        /\ ~Readable(sent + 1)
    BY <1>20 DEF HandlerSkips, Readable
  <2>2. Q = P
    <3>1. Reading' = Reading
      BY <2>1 DEF Reading
    <3> QED
      <4>1. \A k \in 1 .. 7 : Q[k] = P[k]
        BY <1>1, <1>3, <1>5, <2>1, <3>1
      <4> QED
        BY <1>5, <4>1
  <2> QED
    BY <2>1, <2>2 DEF RespMove, P, Q
<1>19. CASE \/ PumpEnds("pumpResp") \/ Dispatch("plugin") \/ DispatchStart \/ LoopFails
            \/ ContextEnds \/ Crash
  <2>1. /\ UNCHANGED <<got, queue, hand, sent>> /\ wire'["host"] = wire["host"]
        /\ recvCh'["host"] = recvCh["host"]
    BY <1>0, <1>19
    DEF PumpEnds, CloseChan, Dispatch, DispatchStart, LoopFails, ContextEnds, Crash
  <2> QED
    BY <1>6, <2>1
<1> QED
  BY <1>9, <1>10, <1>11, <1>12, <1>13, <1>14, <1>15, <1>16, <1>17, <1>18, <1>19, <1>20,
     SingleNext DEF PumpSteps

\* The responses are in line, and every readable one while the caller receives.
RespOrder ==
  /\ Line(Responses, sent) /\ Filtered(Responses, 3)
  /\ Reading => Whole(Responses, sent)

LEMMA RespStep ==
  ASSUME TypeInv, TypeInv', RespMove, Reading' => Reading, RespOrder
  PROVE  /\ RespOrder'
         /\ Whole(Responses, sent) /\ sent' = sent => 
              Whole(Responses', sent') \/ Cuts(Responses, Responses', 6)
<1> DEFINE P == Responses
           Q == Responses'
<1>0. sent \in Nat
  BY CallsAssumption DEF TypeInv, TypeOK
<1>1. P \in Lines(7) /\ 7 \in Nat /\ 3 \in Nat
  BY RespPlaces
<1>2. (TypeInv => Responses \in Lines(7))'
  BY RespPlaces, PTL
<1>3. Q \in Lines(7)
  BY <1>2
<1>4. Line(P, sent) /\ Filtered(P, 3) /\ (Reading => Whole(P, sent))
  BY DEF RespOrder
<1>5. Line(Q, sent') /\ Filtered(Q, 3) /\ (Reading' => Whole(Q, sent')) => RespOrder'
  BY DEF RespOrder
<1>6. \/ Q = P /\ sent' = sent
      \/ /\ sent' = sent
         /\ \/ \E j \in 1 .. 6 : Passes(P, Q, j) /\ (j = 3 => Readable(Head(P[4]).val))
            \/ \E j \in 1 .. 7 : Drops(P, Q, j)
            \/ \E f \in Frames : ~IsData(f) /\ Adds(P, Q, 7, f)
            \/ Cuts(P, Q, 6) /\ ~Reading'
      \/ /\ sent' = sent + 1
         /\ \/ Adds(P, Q, 7, Frame("data", sent + 1)) /\ Reading
            \/ Q = P /\ (Reading => ~Readable(sent + 1))
  BY DEF RespMove
<1> HIDE DEF P, Q
<1>7. ASSUME \A n : Readable(n) /\ Has(P, n) => Has(Q, n), Whole(P, sent), sent' = sent
      PROVE  Whole(Q, sent')
  BY <1>7 DEF Whole
<1>8. CASE Q = P /\ sent' = sent
  BY <1>4, <1>5, <1>8 DEF P, Q
<1>9. ASSUME NEW j \in 1 .. 6, Passes(P, Q, j), j = 3 => Readable(Head(P[4]).val),
             sent' = sent
      PROVE  Line(Q, sent') /\ Filtered(Q, 3) /\ (Whole(P, sent) => Whole(Q, sent'))
  <2>1. j \in 1 .. 7 /\ j + 1 \in 1 .. 7 /\ (j = 3 => j + 1 = 4)
    OBVIOUS
  <2>2. /\ \A n : Has(Q, n) <=> Has(P, n)
        /\ \A hi : Line(P, hi) => Line(Q, hi)
        /\ \A x \in Nat :
             Filtered(P, x) /\ (j = x => Readable(Head(P[j + 1]).val)) => Filtered(Q, x)
    BY <1>1, <1>3, <1>9, <2>1, PassLine
  <2>3. j = 3 => Readable(Head(P[j + 1]).val)
    BY <1>9, <2>1
  <2> QED
    BY <1>1, <1>4, <1>7, <1>9, <2>2, <2>3
<1>10. ASSUME NEW j \in 1 .. 7, Drops(P, Q, j), sent' = sent
       PROVE  Line(Q, sent') /\ Filtered(Q, 3) /\ (Whole(P, sent) => Whole(Q, sent'))
  BY <1>1, <1>3, <1>4, <1>7, <1>10, DropLine
<1>11. ASSUME NEW f \in Frames, ~IsData(f), Adds(P, Q, 7, f), sent' = sent
       PROVE  Line(Q, sent') /\ Filtered(Q, 3) /\ (Whole(P, sent) => Whole(Q, sent'))
  <2>1. 7 \in 1 .. 7
    OBVIOUS
  <2> QED
    BY <1>1, <1>3, <1>4, <1>7, <1>11, <2>1, AddLine
<1>12. CASE Cuts(P, Q, 6) /\ ~Reading' /\ sent' = sent
  <2>1. 6 \in 1 .. 7
    OBVIOUS
  <2>2. Line(Q, sent') /\ Filtered(Q, 3)
    BY <1>1, <1>3, <1>4, <1>12, <2>1, CutLine
  <2> QED
    BY <1>5, <1>12, <2>2 DEF P, Q
<1>13. CASE Adds(P, Q, 7, Frame("data", sent + 1)) /\ Reading /\ sent' = sent + 1
  <2>1. 7 # 0 /\ 3 < 7 /\ sent' # sent
    BY <1>0, <1>13
  <2>2. Line(Q, sent') /\ Whole(Q, sent') /\ Filtered(Q, 3)
    BY <1>0, <1>1, <1>3, <1>4, <1>13, <2>1, EnterLine
  <2> QED
    BY <1>5, <2>1, <2>2
<1>14. CASE Q = P /\ (Reading => ~Readable(sent + 1)) /\ sent' = sent + 1
  <2>1. Line(Q, sent')
    BY <1>0, <1>4, <1>14 DEF Line, Within
  <2>2. Reading => Whole(Q, sent')
    BY <1>0, <1>4, <1>14 DEF Whole
  <2>3. sent' # sent
    BY <1>0, <1>14
  <2> QED
    BY <1>4, <1>5, <1>14, <2>1, <2>2, <2>3
<1>15. CASE /\ sent' = sent /\ Line(Q, sent') /\ Filtered(Q, 3)
            /\ Whole(P, sent) => Whole(Q, sent')
  BY <1>4, <1>5, <1>15 DEF P, Q
<1> QED
  BY <1>6, <1>8, <1>9, <1>10, <1>11, <1>12, <1>13, <1>14, <1>15


\* What a line says of its far end.
LEMMA FarEnd ==
  ASSUME NEW m \in Nat \ {0}, NEW P \in Lines(m), NEW hi \in Nat, NEW q \in Seq(Payloads),
         P[1] = Items(q), Line(P, hi), Filtered(P, 3)
  PROVE  /\ \E n \in 0 .. hi : ReadableUpTo(q, n)
         /\ Whole(P, hi) /\ (\A k, a, n : Stands(P, k, a, n) => k = 1) => ReadableUpTo(q, hi)
<1>1. DOMAIN P = 1 .. m /\ 1 \in 1 .. m
  BY DEF Lines
<1>2. /\ DOMAIN Items(q) = DOMAIN q
      /\ \A k \in DOMAIN q : Items(q)[k] = Data(q[k]) /\ q[k] \in Payloads
  BY ItemsType
<1>3. \A n \in Payloads : IsData(Data(n)) /\ Data(n).val = n
  BY HeldType
<1>4. \A a, n : Stands(P, 1, a, n) <=> a \in DOMAIN q /\ n = q[a]
  BY <1>1, <1>2, <1>3 DEF Stands
<1>5. DOMAIN q = 1 .. Len(q) /\ Len(q) \in Nat /\ \A k \in DOMAIN q : k \in Nat /\ q[k] \in Nat
  BY <1>2 DEF Payloads
<1>6. \A k \in DOMAIN q : q[k] \in 1 .. hi /\ Readable(q[k])
  <2> TAKE k \in DOMAIN q
  <2>1. Stands(P, 1, k, q[k]) /\ 1 <= 3
    BY <1>4
  <2> QED
    BY <2>1 DEF Line, Within, Filtered
<1>7. \A j, k \in DOMAIN q : j < k => q[j] < q[k]
  <2> SUFFICES ASSUME NEW j \in DOMAIN q, NEW k \in DOMAIN q, j < k PROVE q[j] < q[k]
    OBVIOUS
  <2>1. Stands(P, 1, j, q[j]) /\ Stands(P, 1, k, q[k]) /\ Earlier(1, j, 1, k)
    BY <1>4 DEF Earlier
  <2> QED
    BY <2>1 DEF Line, Climbs
<1>8. \E n \in 0 .. hi : ReadableUpTo(q, n)
  <2>1. CASE q = <<>>
    <3>1. DOMAIN q = {}
      BY <2>1
    <3>2. ReadableUpTo(q, 0)
      BY <3>1 DEF ReadableUpTo
    <3> QED
      BY <3>2
  <2>2. CASE q # <<>>
    <3> DEFINE L == Len(q)
               o == q[L]
    <3>1. L \in DOMAIN q /\ L \in Nat /\ \A k \in DOMAIN q : k = L \/ k < L
      BY <1>5, <2>2
    <3>2. o \in 1 .. hi /\ Stands(P, 1, L, o)
      BY <1>4, <1>6, <3>1
    <3>3. \A k \in DOMAIN q : q[k] \in 1 .. o /\ Readable(q[k])
      BY <1>5, <1>6, <1>7, <3>1
    <3> HIDE DEF L, o
    <3>4. ASSUME NEW n \in 1 .. o, Readable(n)
          PROVE  \E k \in DOMAIN q : q[k] = n
      <4>1. CASE n = o
        BY <1>4, <3>2, <4>1
      <4>2. CASE n # o
        <5>1. Has(P, n)
          <6>1. n \in 1 .. (o - 1)
            BY <3>2, <4>2
          <6> QED
            BY <3>2, <3>4, <6>1 DEF Line, NoGap, Has
        <5>2. PICK k, a : Stands(P, k, a, n)
          BY <5>1 DEF Has
        <5>3. k \in 1 .. m
          BY <1>1, <5>2 DEF Stands
        <5>4. ~(1 < k)
          <6> SUFFICES ASSUME 1 < k PROVE FALSE
            OBVIOUS
          <6>1. Earlier(1, L, k, a)
            BY DEF Earlier
          <6>2. o < n
            BY <3>2, <5>2, <6>1 DEF Line, Climbs
          <6> QED
            BY <3>2, <6>2
        <5> QED
          BY <1>4, <5>2, <5>3, <5>4
      <4> QED
        BY <4>1, <4>2
    <3>5. ReadableUpTo(q, o)
      BY <1>7, <3>3, <3>4 DEF ReadableUpTo
    <3> QED
      BY <3>2, <3>5
  <2> QED
    BY <2>1, <2>2
<1>9. ASSUME Whole(P, hi), \A k, a, n : Stands(P, k, a, n) => k = 1
      PROVE  ReadableUpTo(q, hi)
  <2>1. ASSUME NEW n \in 1 .. hi, Readable(n)
        PROVE  \E k \in DOMAIN q : q[k] = n
    <3>1. PICK k, a : Stands(P, k, a, n)
      BY <1>9, <2>1 DEF Whole, Has
    <3> QED
      BY <1>4, <1>9, <3>1
  <2> QED
    BY <1>6, <1>7, <2>1 DEF ReadableUpTo
<1> QED
  BY <1>8, <1>9

\* A closed channel of responses says that what fed it has ended, ...
RespPipe ==
  /\ closed["resp"] => pc["pumpResp"] = "done" /\ Over("rawResp")
  /\ pc["pumpResp"] = "done" => hand["pumpResp"] = 0
  /\ closed["rawResp"] => pc["copier"] \in {"closing", "done"}
  /\ closed["rawResp"] /\ ~ctxDone => hand["copier"] = 0
\* ... and the last of them only after the handler's Close.
RespWhole == closed["rawResp"] /\ ~ctxDone /\ up => Spoken /\ Whole(Responses, sent)

LEMMA RespPipeNext ==
  ASSUME TypeInv, RespPipe, Next, mode = "SingleMulti"
  PROVE  RespPipe'
<1> USE DEF envVars, streamVars, chanVars, appVars, PcOK
<1>0. /\ PcOK /\ HandInv /\ OrderInv /\ "host" \in Ends
      /\ DOMAIN queue = Chans /\ closed \in [Chans -> BOOLEAN] /\ DOMAIN hand = Goroutines
      /\ {"resp", "rawResp"} \subseteq Chans /\ {"pumpResp", "copier"} \subseteq Goroutines
      /\ "resp" # "rawResp" /\ To("pumpResp") = "resp" /\ From("pumpResp") = "rawResp"
  BY Names DEF TypeInv, TypeOK, Chans, To, From
<1>1. ASSUME closed' = closed, hand' = hand, queue' = queue, ctxDone => ctxDone',
             pc'["copier"] = pc["copier"], pc'["pumpResp"] = pc["pumpResp"]
      PROVE  RespPipe'
  BY <1>1 DEF RespPipe, Over
<1>2. CASE \/ CallStart \/ CallWritesStart \/ CallStartFails \/ CallSendsRequest
           \/ CallRequestFails \/ CloseEnd("call", "host")
  <2>1. /\ UNCHANGED <<closed, hand, queue, ctxDone>>
        /\ pc'["copier"] = pc["copier"] /\ pc'["pumpResp"] = pc["pumpResp"]
    BY <1>0, <1>2, Names
    DEF CallStart, CallWritesStart, CallStartFails, CallSendsRequest, CallRequestFails,
        CloseEnd, Moves
  <2> QED
    BY <1>1, <2>1
<1>3. CASE CallEndsRequest
  <2>1. pc["copier"] = "off"
    BY <1>0, <1>3 DEF OrderInv, CallEndsRequest
  <2>2. ~closed["rawResp"] /\ ~closed["resp"]
    BY <2>1 DEF RespPipe, Over
  <2>3. UNCHANGED <<closed, hand, queue, ctxDone>> /\ pc'["pumpResp"] = "run"
    BY <1>0, <1>3, Names DEF CallEndsRequest
  <2> QED
    BY <2>2, <2>3 DEF RespPipe, Over
<1>4. CASE CopierRecvs \/ CopierPushes
  <2>1. pc["copier"] \in {"recv", "push"}
    BY <1>4 DEF CopierRecvs, CopierPushes, Recvs, PassesOn, Moves
  <2>2. ~closed["rawResp"] /\ ~closed["resp"]
    BY <2>1 DEF RespPipe, Over
  <2>3. /\ UNCHANGED <<closed, ctxDone>>
        /\ \E x : pc' = [pc EXCEPT !["copier"] = x]
        /\ \E n : hand' = [hand EXCEPT !["copier"] = n]
    BY <1>4 DEF CopierRecvs, CopierPushes, Recvs, PassesOn, Moves
  <2>4. pc'["pumpResp"] = pc["pumpResp"] /\ hand'["pumpResp"] = hand["pumpResp"]
    BY <1>0, <2>3, Names
  <2> QED
    BY <2>2, <2>3, <2>4 DEF RespPipe, Over
<1>5. CASE CopierEnds
  <2>1. /\ pc["copier"] \in {"recv", "push"} /\ (pc["copier"] = "push" => ctxDone)
        /\ pc' = [pc EXCEPT !["copier"] = "closing"]
        /\ closed' = [closed EXCEPT !["rawResp"] = TRUE]
        /\ UNCHANGED <<hand, queue, ctxDone>>
    BY <1>5 DEF CopierEnds, CopierEndsIf, CloseChan, Moves
  <2>2. /\ pc'["copier"] = "closing" /\ pc'["pumpResp"] = pc["pumpResp"]
        /\ closed'["resp"] = closed["resp"]
    BY <1>0, <2>1, Names
  <2>3. pc["copier"] = "recv" => hand["copier"] = 0
    BY <1>0 DEF HandInv
  <2>4. ~closed["rawResp"] /\ ~closed["resp"]
    BY <2>1 DEF RespPipe, Over
  <2> QED
    BY <2>1, <2>2, <2>3, <2>4 DEF RespPipe, Over
<1>6. CASE CloseEnd("copier", "host")
  <2>1. /\ UNCHANGED <<closed, hand, queue, ctxDone>>
        /\ pc'["copier"] = "done" /\ pc'["pumpResp"] = pc["pumpResp"]
    BY <1>0, <1>6, Names DEF CloseEnd, Moves
  <2> QED
    BY <2>1 DEF RespPipe, Over
<1>7. CASE \/ HandlerRecvs \/ HandlerSends \/ HandlerStops \/ HandlerCalls
           \/ HandlerSendFails \/ HandlerSkips \/ HandlerQuits
           \/ CloseEnd("handler", "plugin")
  <2>1. /\ UNCHANGED <<closed, hand, queue, ctxDone>>
        /\ pc'["copier"] = pc["copier"] /\ pc'["pumpResp"] = pc["pumpResp"]
    BY <1>0, <1>7, Names
    DEF HandlerRecvs, HandlerSends, HandlerStops, HandlerCalls, HandlerSendFails,
        HandlerSkips, HandlerQuits, CloseEnd, Moves
  <2> QED
    BY <1>1, <2>1
<1>8. CASE PumpTakes("pumpResp")
  <2>1. /\ pc["pumpResp"] = "run" /\ queue["rawResp"] # <<>>
        /\ UNCHANGED <<closed, ctxDone, pc>>
        /\ \E n : hand' = [hand EXCEPT !["pumpResp"] = n]
    BY <1>0, <1>8 DEF PumpTakes, Get
  <2>2. hand'["copier"] = hand["copier"]
    BY <1>0, <2>1, Names
  <2> QED
    BY <2>1, <2>2 DEF RespPipe, Over
<1>9. CASE PumpPuts("pumpResp")
  <2>1. /\ pc["pumpResp"] = "run" /\ UNCHANGED <<closed, ctxDone, pc>>
        /\ hand' = [hand EXCEPT !["pumpResp"] = 0]
    BY <1>0, <1>9 DEF PumpPuts, Put
  <2>2. hand'["copier"] = hand["copier"]
    BY <1>0, <2>1, Names
  <2> QED
    BY <2>1, <2>2 DEF RespPipe, Over
<1>10. CASE PumpEnds("pumpResp")
  <2>1. /\ hand["pumpResp"] = 0 /\ Over("rawResp")
        /\ pc' = [pc EXCEPT !["pumpResp"] = "done"]
        /\ closed' = [closed EXCEPT !["resp"] = TRUE] /\ UNCHANGED <<queue, hand, ctxDone>>
    BY <1>0, <1>10 DEF PumpEnds, CloseChan, Moves
  <2>2. /\ pc'["pumpResp"] = "done" /\ pc'["copier"] = pc["copier"]
        /\ closed'["rawResp"] = closed["rawResp"]
    BY <1>0, <2>1, Names
  <2> QED
    BY <2>1, <2>2 DEF RespPipe, Over
<1>11. CASE Dispatch("host") \/ Dispatch("plugin") \/ LoopFails \/ ContextEnds
  BY <1>1, <1>11 DEF Dispatch, LoopFails, ContextEnds
<1>12. CASE DispatchStart \/ Crash
  <2>1. /\ UNCHANGED <<closed, hand, queue, ctxDone>>
        /\ pc'["copier"] = pc["copier"] /\ pc'["pumpResp"] = pc["pumpResp"]
    BY <1>0, <1>12, Names DEF DispatchStart, Crash, OfPlugin
  <2> QED
    BY <1>1, <2>1
<1>13. CASE AppTakes
  <2>1. UNCHANGED <<closed, hand, ctxDone, pc>> /\ queue'["rawResp"] = queue["rawResp"]
    BY <1>0, <1>13 DEF AppTakes, Get
  <2> QED
    BY <2>1 DEF RespPipe, Over
<1> QED
  BY <1>2, <1>3, <1>4, <1>5, <1>6, <1>7, <1>8, <1>9, <1>10, <1>11, <1>12, <1>13,
     SingleNext DEF PumpSteps

LEMMA RespWholeNext ==
  ASSUME TypeInv, TypeInv', StartInv, ReadInv, RespMove, RespOrder, RespPipe, RespWhole,
         Next, mode = "SingleMulti"
  PROVE  RespWhole'
<1> USE DEF envVars, streamVars, chanVars, appVars, PcOK
<1> DEFINE P == Responses
           Q == Responses'
<1>0. /\ PcOK /\ OrderInv /\ "host" \in Ends /\ "plugin" \in Ends
      /\ closed \in [Chans -> BOOLEAN] /\ "rawResp" \in Chans
      /\ wire["plugin"] \in Seq(Frames) /\ recvCh["host"] \in Seq(Frames)
  BY Names DEF TypeInv, TypeOK, Chans
<1>1. /\ P \in Lines(7)
      /\ P[6] = IF Reading THEN recvCh["host"] ELSE <<>>
      /\ P[7] = IF Reading THEN wire["host"] ELSE <<>>
  BY RespPlaces
<1>2. (TypeInv => Responses \in Lines(7))'
  BY RespPlaces, PTL
<1>3. Q \in Lines(7)
  BY <1>2
<1>4. Reading' => Reading
  BY ReadNext
<1>5. Whole(P, sent) /\ sent' = sent => Whole(Q, sent') \/ Cuts(P, Q, 6)
  BY <1>4, RespStep
<1> HIDE DEF P, Q
<1>6. ASSUME Whole(P, sent), sent' = sent, NoData(P[6]), NoData(P[7])
      PROVE  Whole(Q, sent')
  <2>1. ASSUME NEW k, NEW a, NEW n, Stands(P, k, a, n)
        PROVE  k < 6
    <3>1. k \in 1 .. 7 /\ k # 6 /\ k # 7
      BY <1>1, <1>6, <2>1 DEF Stands, Lines, NoData
    <3> QED
      BY <3>1
  <2>2. CASE Cuts(P, Q, 6)
    <3>1. \A n : Has(P, n) => Has(Q, n)
      <4>1. 6 \in 1 .. 7 /\ 7 \in Nat
        OBVIOUS
      <4> QED
        BY <1>1, <1>3, <2>1, <2>2, <4>1, CutLine
    <3> QED
      BY <1>6, <3>1 DEF Whole
  <2> QED
    BY <1>5, <1>6, <2>2
<1>7. DOMAIN <<>> = {}
  OBVIOUS
\* It was over before the step.
<1>8. ASSUME closed["rawResp"], ~ctxDone, up, closed'["rawResp"], up'
      PROVE  Spoken' /\ Whole(Q, sent')
  <2>1. Spoken /\ Whole(P, sent) /\ pc["copier"] \in {"closing", "done"}
    BY <1>8 DEF RespWhole, RespPipe, P
  <2>2. pc["call"] = "done"
    BY <1>0, <2>1 DEF OrderInv
  <2>3. NoData(P[6]) /\ NoData(P[7])
    BY <1>1, <1>7, <2>1, <2>2 DEF Reading, NoData
  <2>4. Spoken' /\ sent' = sent
    <3>1. CASE DispatchStart
      <4>1. 1 \in DOMAIN wire["plugin"] /\ wire["plugin"][1].flag = "start"
        BY <1>0, <3>1, TakeType DEF DispatchStart
      <4> QED
        BY <2>1, <4>1 DEF StartInv, Spoken
    <3>2. CASE \/ HandlerRecvs \/ HandlerSends \/ HandlerStops \/ HandlerCalls
               \/ HandlerSendFails \/ HandlerSkips \/ HandlerQuits
               \/ CloseEnd("handler", "plugin")
      BY <2>1, <3>2
      DEF Spoken, HandlerRecvs, HandlerSends, HandlerStops, HandlerCalls,
          HandlerSendFails, HandlerSkips, HandlerQuits,
         CloseEnd, Moves
    <3>3. CASE \/ CallStart \/ CallWritesStart \/ CallStartFails \/ CallSendsRequest
               \/ CallEndsRequest \/ CallRequestFails \/ CloseEnd("call", "host")
      BY <2>2, <3>3
      DEF CallStart, CallWritesStart, CallStartFails, CallSendsRequest, CallEndsRequest,
          CallRequestFails, CloseEnd, Moves
    <3>4. CASE \/ CopierRecvs \/ CopierPushes \/ CopierEnds
               \/ CloseEnd("copier", "host")
               \/ PumpSteps("pumpResp")
      BY <1>0, <2>1, <3>4, Names
      DEF CopierRecvs, CopierPushes, CopierEnds, CopierEndsIf, Recvs, PassesOn,
          CloseEnd,
          Moves, PumpSteps, PumpTakes, PumpPuts, PumpEnds, Spoken
    <3>5. CASE \/ Dispatch("host") \/ Dispatch("plugin") \/ LoopFails \/ AppTakes
               \/ ContextEnds
      BY <2>1, <3>5 DEF Dispatch, LoopFails, AppTakes, ContextEnds, Spoken
    <3>6. CASE Crash
      BY <1>8, <3>6 DEF Crash
    <3> QED
      BY <3>1, <3>2, <3>3, <3>4, <3>5, <3>6, SingleNext
  <2> QED
    BY <1>6, <2>1, <2>3, <2>4
\* The step closes the channel.
<1>9. ASSUME ~closed["rawResp"], closed'["rawResp"], ~ctxDone', up'
      PROVE  Spoken' /\ Whole(Q, sent')
  <2>1. CopierEnds
    <3>1. CASE \/ CallStart \/ CallWritesStart \/ CallStartFails \/ CallSendsRequest
               \/ CallEndsRequest \/ CallRequestFails \/ CloseEnd("call", "host")
      BY <1>9, <3>1
      DEF CallStart, CallWritesStart, CallStartFails, CallSendsRequest, CallEndsRequest,
          CallRequestFails, CloseEnd
    <3>2. CASE \/ CopierRecvs \/ CopierPushes \/ CloseEnd("copier", "host")
               \/ PumpTakes("pumpResp") \/ PumpPuts("pumpResp")
      BY <1>9, <3>2
      DEF CopierRecvs, CopierPushes, Recvs, PassesOn, CloseEnd, PumpTakes, PumpPuts
    <3>3. CASE PumpEnds("pumpResp")
      BY <1>0, <1>9, <3>3 DEF PumpEnds, CloseChan, To
    <3>4. CASE \/ HandlerRecvs \/ HandlerSends \/ HandlerStops \/ HandlerCalls
               \/ HandlerSendFails \/ HandlerSkips \/ HandlerQuits
               \/ CloseEnd("handler", "plugin")
      BY <1>9, <3>4
      DEF HandlerRecvs, HandlerSends, HandlerStops, HandlerCalls, HandlerSendFails,
          HandlerSkips, HandlerQuits, CloseEnd
    <3>5. CASE \/ Dispatch("host") \/ Dispatch("plugin") \/ DispatchStart \/ LoopFails
               \/ AppTakes \/ ContextEnds \/ Crash
      BY <1>9, <3>5 DEF Dispatch, DispatchStart, LoopFails, AppTakes, ContextEnds, Crash
    <3> QED
      BY <3>1, <3>2, <3>3, <3>4, <3>5, SingleNext DEF PumpSteps
  <2>2. /\ UNCHANGED <<ctxDone, up, sent>> /\ pc["copier"] = "recv" /\ AtEnd("host")
        /\ pc' = [pc EXCEPT !["copier"] = "closing"]
    <3>1. UNCHANGED <<ctxDone, up, sent>>
      BY <2>1 DEF CopierEnds, CopierEndsIf, Cancel
    <3>2. ~ctxDone
      BY <1>9, <3>1
    <3>3. pc["copier"] = "recv" /\ pc' = [pc EXCEPT !["copier"] = "closing"]
      BY <2>1, <3>2 DEF CopierEnds, CopierEndsIf, Moves
    <3>4. AtEnd("host")
      BY <2>1, <3>2 DEF CopierEnds, CopierEndsIf
    <3> QED
      BY <3>1, <3>3, <3>4
  <2>3. Reading /\ pc'["handler"] = pc["handler"]
    BY <1>0, <2>2, Names DEF Reading
  <2>4. recvCh["host"] = <<>> /\ cancelled["host"]
    <3>1. ASSUME recvCh["host"] # <<>>
          PROVE  FALSE
      <4>1. 1 \in DOMAIN recvCh["host"] /\ recvCh["host"][1].flag = "closewrite"
        BY <1>0, <2>2, <3>1, TakeType DEF AtEnd
      <4> QED
        BY <4>1 DEF ReadInv, IsData
    <3> QED
      BY <2>2, <3>1 DEF AtEnd
  <2>5. Spoken /\ NoData(wire["host"])
    BY <1>9, <2>2, <2>3, <2>4 DEF ReadInv
  <2>6. Whole(P, sent) /\ NoData(P[6]) /\ NoData(P[7])
    BY <1>1, <1>7, <2>3, <2>4, <2>5 DEF RespOrder, P, NoData
  <2> QED
    BY <1>6, <2>2, <2>3, <2>5, <2>6 DEF Spoken
<1>10. ASSUME ~ctxDone' PROVE ~ctxDone
  <2>1. CASE \/ CallStart \/ CallWritesStart \/ CallStartFails \/ CallSendsRequest
             \/ CallEndsRequest \/ CallRequestFails \/ CloseEnd("call", "host")
             \/ CopierRecvs \/ CopierPushes \/ CopierEnds \/ CloseEnd("copier", "host")
    BY <1>10, <2>1
    DEF CallStart, CallWritesStart, CallStartFails, CallSendsRequest, CallEndsRequest,
        CallRequestFails, CloseEnd, CopierRecvs, CopierPushes, CopierEnds, CopierEndsIf,
        Recvs, PassesOn
  <2>2. CASE \/ HandlerRecvs \/ HandlerSends \/ HandlerStops \/ HandlerCalls
             \/ HandlerSendFails \/ HandlerSkips \/ HandlerQuits
             \/ CloseEnd("handler", "plugin") \/ PumpSteps("pumpResp")
    BY <1>10, <2>2
    DEF HandlerRecvs, HandlerSends, HandlerStops, HandlerCalls, HandlerSendFails,
        HandlerSkips, HandlerQuits, CloseEnd, PumpSteps,
        PumpTakes, PumpPuts, PumpEnds
  <2>3. CASE \/ Dispatch("host") \/ Dispatch("plugin") \/ DispatchStart \/ LoopFails
             \/ AppTakes \/ ContextEnds \/ Crash
    BY <1>10, <2>3 DEF Dispatch, DispatchStart, LoopFails, AppTakes, ContextEnds, Crash
  <2> QED
    BY <2>1, <2>2, <2>3, SingleNext
<1>11. ASSUME up' PROVE up
  <2>1. CASE \/ CallStart \/ CallWritesStart \/ CallStartFails \/ CallSendsRequest
             \/ CallEndsRequest \/ CallRequestFails \/ CloseEnd("call", "host")
             \/ CopierRecvs \/ CopierPushes \/ CopierEnds \/ CloseEnd("copier", "host")
    BY <1>11, <2>1
    DEF CallStart, CallWritesStart, CallStartFails, CallSendsRequest, CallEndsRequest,
        CallRequestFails, CloseEnd, CopierRecvs, CopierPushes, CopierEnds, CopierEndsIf,
        Recvs, PassesOn
  <2>2. CASE \/ HandlerRecvs \/ HandlerSends \/ HandlerStops \/ HandlerCalls
             \/ HandlerSendFails \/ HandlerSkips \/ HandlerQuits
             \/ CloseEnd("handler", "plugin") \/ PumpSteps("pumpResp")
    BY <1>11, <2>2
    DEF HandlerRecvs, HandlerSends, HandlerStops, HandlerCalls, HandlerSendFails,
        HandlerSkips, HandlerQuits, CloseEnd, PumpSteps,
        PumpTakes, PumpPuts, PumpEnds
  <2>3. CASE \/ Dispatch("host") \/ Dispatch("plugin") \/ DispatchStart \/ LoopFails
             \/ AppTakes \/ ContextEnds \/ Crash
    BY <1>11, <2>3 DEF Dispatch, DispatchStart, LoopFails, AppTakes, ContextEnds, Crash
  <2> QED
    BY <2>1, <2>2, <2>3, SingleNext
<1>12. ASSUME closed'["rawResp"], ~ctxDone', up'
       PROVE  Spoken' /\ Whole(Q, sent')
  BY <1>8, <1>9, <1>10, <1>11, <1>12
<1>13. closed'["rawResp"] /\ ~ctxDone' /\ up' => Spoken' /\ Whole(Responses', sent')
  BY <1>12 DEF Q
<1> QED
  BY <1>13 DEF RespWhole

RespInv == mode = "SingleMulti" => ReadInv /\ RespOrder /\ RespPipe /\ RespWhole

LEMMA RespInit == Init => RespOrder /\ RespPipe /\ RespWhole
<1> SUFFICES ASSUME Init PROVE RespOrder /\ RespPipe /\ RespWhole
  OBVIOUS
<1> DEFINE P == Responses
<1>1. DOMAIN <<>> = {} /\ TypeInv
  BY TypeInit
<1>2. /\ got = <<>> /\ queue["resp"] = <<>> /\ hand["pumpResp"] = 0
      /\ queue["rawResp"] = <<>> /\ hand["copier"] = 0 /\ recvCh["host"] = <<>>
      /\ wire["host"] = <<>> /\ sent = 0 /\ ~closed["resp"] /\ ~closed["rawResp"]
      /\ pc["pumpResp"] = "off"
  BY Names DEF Init, Chans
<1>3. Items(<<>>) = <<>> /\ Held(0) = <<>>
  BY NoItems
<1>4. P \in Lines(7)
      /\ P[1] = <<>> /\ P[2] = <<>> /\ P[3] = <<>> /\ P[4] = <<>> /\ P[5] = <<>>
      /\ P[6] = <<>> /\ P[7] = <<>>
  BY <1>1, <1>2, <1>3, RespPlaces
<1> HIDE DEF P
<1>5. \A k, a, n : ~Stands(P, k, a, n)
  <2>1. DOMAIN P = 1 .. 7
    BY <1>4 DEF Lines
  <2>2. \A k \in 1 .. 7 : k = 1 \/ k = 2 \/ k = 3 \/ k = 4 \/ k = 5 \/ k = 6 \/ k = 7
    OBVIOUS
  <2>3. \A k \in DOMAIN P : P[k] = <<>>
    BY <1>4, <2>1, <2>2
  <2> QED
    BY <1>1, <2>3 DEF Stands
<1>6. Line(P, sent) /\ Filtered(P, 3) /\ Whole(P, sent)
  BY <1>2, <1>5 DEF Line, Within, Climbs, NoGap, Filtered, Whole, Has
<1> QED
  BY <1>2, <1>6 DEF RespOrder, RespPipe, RespWhole, P

LEMMA RespNext ==
  ASSUME CoreInv, CoreInv', RespInv, [Next]_vars
  PROVE  RespInv'
<1>1. TypeInv /\ TypeInv' /\ StartInv
  BY DEF CoreInv
<1>2. CASE UNCHANGED vars
  BY <1>2 DEF vars, envVars, streamVars, chanVars, appVars, RespInv, ReadInv, Reading,
     RespOrder, RespPipe, RespWhole, Spoken, Responses, Over
<1>3. CASE Next /\ mode = "SingleMulti"
  <2>1. ReadInv /\ RespOrder /\ RespPipe /\ RespWhole
    BY <1>3 DEF RespInv
  <2>2. ReadInv' /\ (Reading' => Reading)
    BY <1>1, <1>3, <2>1, ReadNext
  <2>3. RespMove
    BY <1>1, <1>3, <2>1, RespMoves
  <2>4. RespOrder'
    BY <1>1, <2>1, <2>2, <2>3, RespStep
  <2>5. RespPipe' /\ RespWhole'
    BY <1>1, <1>3, <2>1, <2>3, RespPipeNext, RespWholeNext
  <2> QED
    BY <2>2, <2>4, <2>5 DEF RespInv
<1>4. CASE Next /\ mode # "SingleMulti"
  <2>1. mode' = mode
    BY <1>1, <1>4, EnvNext
  <2> QED
    BY <1>4, <2>1 DEF RespInv
<1> QED
  BY <1>2, <1>3, <1>4

LEMMA RespHolds == Spec => [](CoreInv /\ RespInv)
<1>1. Init => RespInv
  BY ReadInit, RespInit DEF RespInv
<1>2. CoreInv /\ CoreInv' /\ RespInv /\ [Next]_vars => RespInv'
  BY RespNext
<1> QED
  BY CoreHolds, <1>1, <1>2, PTL DEF Spec

\* When the channel of responses is closed on a caller whose context has not
\* ended and whose plugin lives, the handler has ended and the caller has all
\* it sent, but for what does not unmarshal: Recv gives what has arrived before
\* it tells of the stream's end (conn.go), and each goroutine in between closes
\* its channel after it has passed on all it took (conn_routing.go, generic.go).
THEOREM CompleteResponses == Spec => []ResponsesComplete
<1>1. CoreInv /\ RespInv => ResponsesComplete
  <2> SUFFICES ASSUME CoreInv, RespInv, mode = "SingleMulti", Over("resp"), ~ctxDone, up
               PROVE  /\ pc["handler"] \in {"quit", "closing", "done"}
                      /\ ReadableUpTo(got, sent)
    BY DEF ResponsesComplete
  <2> DEFINE P == Responses
  <2>1. TypeInv /\ OrderInv /\ ReadInv /\ RespOrder /\ RespPipe /\ RespWhole
    BY DEF CoreInv, TypeInv, RespInv
  <2>2. /\ queue["resp"] = <<>> /\ hand["pumpResp"] = 0 /\ queue["rawResp"] = <<>>
        /\ closed["rawResp"] /\ hand["copier"] = 0 /\ pc["copier"] \in {"closing", "done"}
    BY <2>1 DEF RespPipe, Over
  <2>3. ~Reading /\ Spoken /\ Whole(P, sent)
    BY <2>1, <2>2 DEF OrderInv, Reading, RespWhole
  <2>4. sent \in Nat /\ got \in Seq(Payloads) /\ DOMAIN <<>> = {}
    BY <2>1, RespPlaces, CallsAssumption DEF TypeInv, TypeOK
  <2>5. /\ P \in Lines(7) /\ P[1] = Items(got) /\ P[2] = Items(queue["resp"])
        /\ P[3] = Held(0) /\ P[4] = Items(queue["rawResp"]) /\ P[5] = Held(0)
        /\ P[6] = <<>> /\ P[7] = <<>> /\ Line(P, sent) /\ Filtered(P, 3)
    BY <2>1, <2>2, <2>3, RespPlaces DEF RespOrder
  <2>6. DOMAIN Items(queue["resp"]) = {} /\ DOMAIN Items(queue["rawResp"]) = {}
    BY <2>2, <2>4 DEF Items
  <2> HIDE DEF P
  <2>7. ASSUME NEW k, NEW a, NEW n, Stands(P, k, a, n)
        PROVE  k = 1
    <3>1. k \in 1 .. 7 /\ a \in DOMAIN P[k]
      BY <2>5, <2>7 DEF Stands, Lines
    <3>2. k = 1 \/ k = 2 \/ k = 3 \/ k = 4 \/ k = 5 \/ k = 6 \/ k = 7
      BY <3>1
    <3> QED
      BY <2>4, <2>5, <2>6, <3>1, <3>2, HeldType
  <2>8. 7 \in Nat \ {0}
    OBVIOUS
  <2>9. ReadableUpTo(got, sent)
    BY <2>3, <2>4, <2>5, <2>7, <2>8, FarEnd
  <2> QED
    BY <2>3, <2>9 DEF Spoken
<1> QED
  BY RespHolds, <1>1, PTL


-----------------------------------------------------------------------------
(* The requests of MultiSingle.                                            *)
\* The stream of a handler that takes requests ends when its caller has closed
\* it.
ReqFlags ==
  /\ \A k \in DOMAIN wire["plugin"] :
       wire["plugin"][k].flag = "close" => cancelled["host"]
  /\ Taking /\ cancelled["plugin"] => cancelled["host"]
  /\ \A g \in {"call", "feeder"} : pc[g] = "closing" => cancelled["host"]

LEMMA ReqFlagsInit == Init => ReqFlags
<1>1. DOMAIN <<>> = {}
  OBVIOUS
<1> QED
  BY <1>1, Names DEF Init, ReqFlags

LEMMA ReqFlagsNext ==
  ASSUME TypeInv, StartInv, ReqFlags, Next, mode = "MultiSingle"
  PROVE  ReqFlags' /\ (Taking' => Taking) /\ (cancelled["host"] => cancelled'["host"])
<1> USE DEF envVars, streamVars, chanVars, appVars, PcOK
<1>0. /\ "host" \in Ends /\ "plugin" \in Ends /\ Peer("host") = "plugin"
      /\ Peer("plugin") = "host" /\ 0 \in Nat /\ "host" # "plugin"
      /\ {"start", "data", "closewrite", "close"} = Flags
      /\ PcOK /\ wire["plugin"] \in Seq(Frames)
      /\ cancelled \in [Ends -> BOOLEAN] /\ hand \in [Goroutines -> Nat]
      /\ DOMAIN wire = Ends
  <2>1. hand \in [Goroutines -> 0 .. MaxPayloads] /\ 0 .. MaxPayloads \subseteq Nat
    BY CallsAssumption DEF TypeInv, TypeOK
  <2>2. hand \in [Goroutines -> Nat]
    BY <2>1
  <2> QED
    BY <2>2, Names DEF Flags, TypeInv, TypeOK
<1>1. ASSUME cancelled["host"] => cancelled'["host"], Taking' => Taking,
             Taking' => cancelled'["plugin"] = cancelled["plugin"],
             \A g \in {"call", "feeder"} : pc'[g] = "closing" => pc[g] = "closing" \/ cancelled'["host"],
             \A k \in DOMAIN wire'["plugin"] :
               wire'["plugin"][k].flag = "close" => cancelled'["host"]
      PROVE  ReqFlags' /\ (Taking' => Taking) /\ (cancelled["host"] => cancelled'["host"])
  BY <1>1 DEF ReqFlags
<1>2. ASSUME wire'["plugin"] = wire["plugin"], cancelled["host"] => cancelled'["host"]
      PROVE  \A k \in DOMAIN wire'["plugin"] :
               wire'["plugin"][k].flag = "close" => cancelled'["host"]
  BY <1>2 DEF ReqFlags
<1>3. ASSUME NEW x \in Flags, NEW n \in Nat, Write("host", Frame(x, n)),
             x = "close" => cancelled["host"]
      PROVE  /\ UNCHANGED cancelled
             /\ \A k \in DOMAIN wire'["plugin"] :
                  wire'["plugin"][k].flag = "close" => cancelled'["host"]
  <2>1. /\ UNCHANGED cancelled /\ Frame(x, n).flag = x
        /\ \A k \in DOMAIN wire'["plugin"] :
             \/ k \in DOMAIN wire["plugin"] /\ wire'["plugin"][k] = wire["plugin"][k]
             \/ wire'["plugin"][k] = Frame(x, n)
    BY <1>0, <1>3, WireWrite
  <2> QED
    BY <1>3, <2>1 DEF ReqFlags
<1>4. ASSUME NEW g \in Goroutines, NEW x, pc' = [pc EXCEPT ![g] = x]
      PROVE  /\ g = "handler" \/ (Taking' <=> Taking)
             /\ \A h \in {"call", "feeder"} : pc'[h] = IF h = g THEN x ELSE pc[h]
  BY <1>0, <1>4, Names DEF Taking
<1>4a. ASSUME NEW g \in Goroutines, NEW x, pc' = [pc EXCEPT ![g] = x],
              x = "closing" => g \notin {"call", "feeder"} \/ cancelled'["host"],
              g = "handler" => ~Taking' \/ Taking,
              wire'["plugin"] = wire["plugin"], cancelled["host"] => cancelled'["host"],
              Taking' => cancelled'["plugin"] = cancelled["plugin"]
       PROVE  ReqFlags' /\ (Taking' => Taking) /\ (cancelled["host"] => cancelled'["host"])
  <2>1. Taking' => Taking
    BY <1>4, <1>4a
  <2>2. \A h \in {"call", "feeder"} : pc'[h] = "closing" => pc[h] = "closing" \/ cancelled'["host"]
    BY <1>4, <1>4a
  <2>3. \A k \in DOMAIN wire'["plugin"] :
          wire'["plugin"][k].flag = "close" => cancelled'["host"]
    BY <1>2, <1>4a
  <2> QED
    BY <1>1, <1>4a, <2>1, <2>2, <2>3
<1>5. CASE CallStart
  <2>1. UNCHANGED <<wire, cancelled>> /\ pc["call"] = "off"
        /\ pc' = [pc EXCEPT !["call"] = "start", !["pumpReqs"] = "run"]
    BY <1>5 DEF CallStart
  <2>2. /\ pc'["call"] = "start" /\ pc'["feeder"] = pc["feeder"]
        /\ pc'["handler"] = pc["handler"]
    BY <1>0, <2>1, Names
  <2> QED
    BY <1>1, <1>2, <2>1, <2>2 DEF Taking
<1>6. CASE CallWritesStart
  <2>1. Write("host", Frame("start", 0))
        /\ pc' = [pc EXCEPT !["call"] = "recv", !["feeder"] = "run"]
    BY <1>6 DEF CallWritesStart
  <2>2. /\ pc'["call"] = "recv" /\ pc'["feeder"] = "run"
        /\ pc'["handler"] = pc["handler"]
    BY <1>0, <2>1, Names
  <2>3. "start" \in Flags /\ 0 \in Nat
    BY <1>0
  <2>4. /\ UNCHANGED cancelled
        /\ \A k \in DOMAIN wire'["plugin"] :
             wire'["plugin"][k].flag = "close" => cancelled'["host"]
    BY <1>3, <2>1, <2>3
  <2>5. Taking' <=> Taking
    BY <2>2 DEF Taking
  <2> QED
    BY <1>1, <2>2, <2>4, <2>5
<1>7. CASE CallStartFails
  <2>1. UNCHANGED <<wire, cancelled>> /\ pc' = [pc EXCEPT !["call"] = "done"]
    BY <1>7 DEF CallStartFails, Moves
  <2> QED
    BY <1>4a, <2>1, Names
<1>8. CASE CallRecvs
  <2>1. UNCHANGED wire /\ pc' = [pc EXCEPT !["call"] = "closing"]
        /\ cancelled' = [cancelled EXCEPT !["host"] = TRUE]
    BY <1>8 DEF CallRecvs, CallReturns
  <2>2. cancelled'["host"] /\ cancelled'["plugin"] = cancelled["plugin"]
    BY <1>0, <2>1
  <2> QED
    BY <1>4a, <2>1, <2>2, Names
<1>9. CASE CloseEnd("call", "host") \/ CloseEnd("feeder", "host")
  <2>1. /\ \E g \in {"call", "feeder"} : pc[g] = "closing" /\ pc' = [pc EXCEPT ![g] = "done"]
        /\ UNCHANGED cancelled
        /\ UNCHANGED wire \/ wire' = [wire EXCEPT !["plugin"] = Append(@, Frame("close", 0))]
    BY <1>0, <1>9 DEF CloseEnd, Moves
  <2>2. cancelled["host"]
    BY <2>1 DEF ReqFlags
  <2>3. PICK g \in {"call", "feeder"} : pc' = [pc EXCEPT ![g] = "done"]
    BY <2>1
  <2>4. (Taking' <=> Taking) /\ \A h \in {"call", "feeder"} : pc'[h] = IF h = g THEN "done" ELSE pc[h]
    BY <1>4, <2>3, Names
  <2> QED
    BY <1>1, <2>1, <2>2, <2>4
<1>10. CASE FeederTakes \/ FeederEnds \/ FeederSends
  <2>1. /\ \E x \in {"send", "done", "run"} : pc' = [pc EXCEPT !["feeder"] = x]
        /\ \/ UNCHANGED <<wire, cancelled>>
           \/ Write("host", Frame("closewrite", 0))
           \/ Write("host", Frame("data", hand["feeder"]))
    BY <1>10 DEF FeederTakes, FeederEnds, FeederSends, Send, Moves
  <2>2. /\ (Taking' <=> Taking)
        /\ \A h \in {"call", "feeder"} : pc'[h] = "closing" => pc[h] = "closing"
    BY <1>4, <2>1, Names
  <2>3. "closewrite" \in Flags /\ "data" \in Flags /\ hand["feeder"] \in Nat
    BY <1>0, Names
  <2>4. UNCHANGED cancelled
    BY <2>1 DEF Write
  <2>5. \A k \in DOMAIN wire'["plugin"] :
          wire'["plugin"][k].flag = "close" => cancelled'["host"]
    BY <1>0, <1>2, <1>3, <2>1, <2>3
  <2> QED
    BY <1>1, <2>2, <2>4, <2>5
<1>11. CASE FeederFails
  <2>1. UNCHANGED wire /\ pc' = [pc EXCEPT !["feeder"] = "closing"]
        /\ cancelled' = [cancelled EXCEPT !["host"] = TRUE]
    BY <1>11 DEF FeederFails, Cancel, Moves
  <2>2. cancelled'["host"] /\ cancelled'["plugin"] = cancelled["plugin"]
    BY <1>0, <2>1
  <2> QED
    BY <1>4a, <2>1, <2>2, Names
<1>12. CASE HandlerStarts
  <2>1. UNCHANGED <<wire, cancelled>> /\ pc["handler"] = "recv"
        /\ pc' = [pc EXCEPT !["handler"] = "range", !["taker"] = "recv", !["pumpTaken"] = "run"]
    BY <1>12 DEF HandlerStarts
  <2>2. /\ pc'["call"] = pc["call"] /\ pc'["feeder"] = pc["feeder"]
    BY <1>0, <2>1, Names
  <2> QED
    BY <1>1, <1>2, <2>1, <2>2 DEF Taking
<1>13. CASE HandlerTakes \/ AppGives \/ AppCloses \/ ContextEnds
  <2>1. UNCHANGED <<wire, cancelled, pc>>
    BY <1>13 DEF HandlerTakes, AppGives, AppCloses, ContextEnds
  <2> QED
    BY <1>1, <1>2, <2>1 DEF Taking
<1>14. CASE HandlerResponds \/ HandlerStopsEarly \/ HandlerGivesUp
  <2>1. UNCHANGED <<wire, cancelled>> /\ pc["handler"] = "range"
        /\ \E x \in {"respond", "quit"} : pc' = [pc EXCEPT !["handler"] = x]
    BY <1>14
    DEF HandlerResponds, HandlerStopsEarly, HandlerRespondsIf, HandlerGivesUp, Moves
  <2> QED
    BY <1>4a, <2>1, Names DEF Taking
<1>15. CASE \/ HandlerSendsResponse \/ HandlerEndsResponse \/ HandlerQuits
            \/ CloseEnd("handler", "plugin")
  <2>1. /\ wire'["plugin"] = wire["plugin"] /\ cancelled'["host"] = cancelled["host"]
        /\ \E x \in {"end", "quit", "closing", "done"} : pc' = [pc EXCEPT !["handler"] = x]
    BY <1>0, <1>15
    DEF HandlerSendsResponse, HandlerEndsResponse, HandlerQuits, CloseEnd,
       Send, Write, Cancel, Moves
  <2>2. ~Taking'
    BY <1>0, <2>1, Names DEF Taking
  <2> QED
    BY <1>4a, <2>1, <2>2, Names
<1>16. CASE TakerRecvs \/ TakerPushes \/ TakerEnds
  <2>1. UNCHANGED <<wire, cancelled>> /\ \E x : pc' = [pc EXCEPT !["taker"] = x]
    BY <1>16 DEF TakerRecvs, TakerPushes, TakerEnds, Recvs, Recv, PassesOn, Moves
  <2> QED
    BY <1>4a, <2>1, Names
<1>17. CASE PumpSteps("pumpReqs") \/ PumpSteps("pumpTaken")
  <2>1. /\ UNCHANGED <<wire, cancelled>>
        /\ \/ UNCHANGED pc
           \/ \E g \in {"pumpReqs", "pumpTaken"} : pc' = [pc EXCEPT ![g] = "done"]
    BY <1>17 DEF PumpSteps, PumpTakes, PumpPuts, PumpEnds, Moves
  <2>2. (Taking' <=> Taking) /\ \A h \in {"call", "feeder"} : pc'[h] = pc[h]
    BY <1>0, <2>1, Names DEF Taking
  <2> QED
    BY <1>1, <1>2, <2>1, <2>2
<1>18. CASE Dispatch("host") \/ LoopFails
  <2>1. /\ wire'["plugin"] = wire["plugin"] /\ UNCHANGED pc
        /\ cancelled' = cancelled \/ cancelled' = [cancelled EXCEPT !["host"] = TRUE]
    BY <1>0, <1>18 DEF Dispatch, LoopFails
  <2>2. cancelled'["plugin"] = cancelled["plugin"] /\ (cancelled["host"] => cancelled'["host"])
    BY <1>0, <2>1
  <2> QED
    BY <1>1, <1>2, <2>1, <2>2 DEF Taking
<1>19. CASE Dispatch("plugin")
  <2>1. /\ wire["plugin"] # <<>> /\ wire' = [wire EXCEPT !["plugin"] = Tail(@)]
        /\ UNCHANGED pc
        /\ \/ cancelled' = cancelled
           \/ /\ Head(wire["plugin"]).flag = "close"
              /\ cancelled' = [cancelled EXCEPT !["plugin"] = TRUE]
    BY <1>19 DEF Dispatch
  <2>2. /\ Head(wire["plugin"]) = wire["plugin"][1] /\ 1 \in DOMAIN wire["plugin"]
        /\ \A k \in DOMAIN wire'["plugin"] :
             k + 1 \in DOMAIN wire["plugin"] /\ wire'["plugin"][k] = wire["plugin"][k + 1]
    BY <1>0, <2>1, WireTake
  <2>3. cancelled'["host"] = cancelled["host"]
    BY <1>0, <2>1
  <2>4. cancelled'["plugin"] => cancelled["plugin"] \/ cancelled["host"]
    BY <1>0, <2>1, <2>2 DEF ReqFlags
  <2> QED
    BY <2>1, <2>2, <2>3, <2>4 DEF ReqFlags, Taking
<1>20. CASE DispatchStart
  <2>1. /\ wire["plugin"] # <<>> /\ wire' = [wire EXCEPT !["plugin"] = Tail(@)]
        /\ UNCHANGED cancelled /\ Head(wire["plugin"]).flag = "start"
        /\ \E x : pc' = [pc EXCEPT !["handler"] = x]
    BY <1>20 DEF DispatchStart
  <2>2. /\ Head(wire["plugin"]) = wire["plugin"][1] /\ 1 \in DOMAIN wire["plugin"]
        /\ \A k \in DOMAIN wire'["plugin"] :
             k + 1 \in DOMAIN wire["plugin"] /\ wire'["plugin"][k] = wire["plugin"][k + 1]
    BY <1>0, <2>1, WireTake
  <2>3. pc["handler"] = "off" /\ Taking
    BY <2>1, <2>2 DEF StartInv, Taking
  <2>4. \A h \in {"call", "feeder"} : pc'[h] = pc[h]
    BY <1>4, <2>1, Names
  <2> QED
    BY <1>1, <2>1, <2>2, <2>3, <2>4 DEF ReqFlags
<1>21. CASE Crash
  <2>1. /\ pc'["handler"] = "done" /\ pc'["call"] = pc["call"] /\ pc'["feeder"] = pc["feeder"]
        /\ UNCHANGED cancelled /\ wire'["plugin"] = <<>> /\ DOMAIN <<>> = {}
    BY <1>0, <1>21, Names DEF Crash, OfPlugin
  <2> QED
    BY <1>1, <2>1 DEF Taking
<1> QED
  BY <1>5, <1>6, <1>7, <1>8, <1>9, <1>10, <1>11, <1>12, <1>13, <1>14, <1>15, <1>16,
     <1>17, <1>18, <1>19, <1>20, <1>21, MultiNext


\* The requests, from the handler back to the application.  Those that are
\* behind a handler that takes no more of them do not count, nor those that are
\* behind a stream that has been closed.
Feeding == Taking /\ ~cancelled["host"]
Requests ==
  << Items(got),
     IF Taking THEN Items(queue["taken"]) ELSE <<>>,
     IF Taking THEN Held(hand["pumpTaken"]) ELSE <<>>,
     IF Taking THEN Items(queue["rawTaken"]) ELSE <<>>,
     IF Taking THEN Held(hand["taker"]) ELSE <<>>,
     IF Taking THEN recvCh["plugin"] ELSE <<>>,
     IF Taking /\ ~cancelled["plugin"] THEN wire["plugin"] ELSE <<>>,
     IF Feeding /\ pc["feeder"] = "send" THEN Held(hand["feeder"]) ELSE <<>>,
     IF Feeding THEN Items(queue["rawReqs"]) ELSE <<>>,
     IF Feeding THEN Held(hand["pumpReqs"]) ELSE <<>>,
     IF Feeding THEN Items(queue["reqs"]) ELSE <<>> >>

LEMMA Eleven == \A k \in 1 .. 11 : \/ k = 1 \/ k = 2 \/ k = 3 \/ k = 4 \/ k = 5 \/ k = 6
                                   \/ k = 7 \/ k = 8 \/ k = 9 \/ k = 10 \/ k = 11
  OBVIOUS

LEMMA ElevenPlaces ==
  ASSUME NEW a \in Seq(Frames), NEW b \in Seq(Frames), NEW c \in Seq(Frames),
         NEW d \in Seq(Frames), NEW e \in Seq(Frames), NEW f \in Seq(Frames),
         NEW g \in Seq(Frames), NEW h \in Seq(Frames), NEW i \in Seq(Frames),
         NEW j \in Seq(Frames), NEW l \in Seq(Frames)
  PROVE  <<a, b, c, d, e, f, g, h, i, j, l>> \in Lines(11)
<1> DEFINE t == <<a, b, c, d, e, f, g, h, i, j, l>>
<1>1. t = [k \in 1 .. 11 |-> t[k]]
  OBVIOUS
<1>2. /\ t[1] = a /\ t[2] = b /\ t[3] = c /\ t[4] = d /\ t[5] = e /\ t[6] = f /\ t[7] = g
      /\ t[8] = h /\ t[9] = i /\ t[10] = j /\ t[11] = l
  OBVIOUS
<1> HIDE DEF t
<1>3. \A k \in 1 .. 11 : t[k] \in Seq(Frames)
  BY <1>2, Eleven
<1> QED
  BY <1>1, <1>3 DEF Lines, t

LEMMA ReqPlaces ==
  TypeInv =>
    /\ Requests \in Lines(11)
    /\ Requests[1] = Items(got)
    /\ Requests[2] = IF Taking THEN Items(queue["taken"]) ELSE <<>>
    /\ Requests[3] = IF Taking THEN Held(hand["pumpTaken"]) ELSE <<>>
    /\ Requests[4] = IF Taking THEN Items(queue["rawTaken"]) ELSE <<>>
    /\ Requests[5] = IF Taking THEN Held(hand["taker"]) ELSE <<>>
    /\ Requests[6] = IF Taking THEN recvCh["plugin"] ELSE <<>>
    /\ Requests[7] = IF Taking /\ ~cancelled["plugin"] THEN wire["plugin"] ELSE <<>>
    /\ Requests[8] = IF Feeding /\ pc["feeder"] = "send" THEN Held(hand["feeder"]) ELSE <<>>
    /\ Requests[9] = IF Feeding THEN Items(queue["rawReqs"]) ELSE <<>>
    /\ Requests[10] = IF Feeding THEN Held(hand["pumpReqs"]) ELSE <<>>
    /\ Requests[11] = IF Feeding THEN Items(queue["reqs"]) ELSE <<>>
<1> SUFFICES ASSUME TypeInv
             PROVE  /\ Requests \in Lines(11)
                    /\ Requests[1] = Items(got)
                    /\ Requests[2] = IF Taking THEN Items(queue["taken"]) ELSE <<>>
                    /\ Requests[3] = IF Taking THEN Held(hand["pumpTaken"]) ELSE <<>>
                    /\ Requests[4] = IF Taking THEN Items(queue["rawTaken"]) ELSE <<>>
                    /\ Requests[5] = IF Taking THEN Held(hand["taker"]) ELSE <<>>
                    /\ Requests[6] = IF Taking THEN recvCh["plugin"] ELSE <<>>
                    /\ Requests[7] = IF Taking /\ ~cancelled["plugin"] THEN wire["plugin"] ELSE <<>>
                    /\ Requests[8] = IF Feeding /\ pc["feeder"] = "send"
                                       THEN Held(hand["feeder"]) ELSE <<>>
                    /\ Requests[9] = IF Feeding THEN Items(queue["rawReqs"]) ELSE <<>>
                    /\ Requests[10] = IF Feeding THEN Held(hand["pumpReqs"]) ELSE <<>>
                    /\ Requests[11] = IF Feeding THEN Items(queue["reqs"]) ELSE <<>>
  OBVIOUS
<1>1. /\ got \in Seq(Payloads) /\ \A c \in Chans : queue[c] \in Seq(Payloads)
      /\ \A g \in Goroutines : hand[g] # 0 => hand[g] \in Payloads
      /\ wire["plugin"] \in Seq(Frames) /\ recvCh["plugin"] \in Seq(Frames)
  BY Names, RespPlaces DEF TypeInv, TypeOK
<1>2. /\ Items(got) \in Seq(Frames) /\ \A c \in Chans : Items(queue[c]) \in Seq(Frames)
      /\ \A g \in Goroutines : Held(hand[g]) \in Seq(Frames) /\ <<>> \in Seq(Frames)
  BY <1>1, ItemsType, HeldType
<1> DEFINE b == IF Taking THEN Items(queue["taken"]) ELSE <<>>
           c == IF Taking THEN Held(hand["pumpTaken"]) ELSE <<>>
           d == IF Taking THEN Items(queue["rawTaken"]) ELSE <<>>
           e == IF Taking THEN Held(hand["taker"]) ELSE <<>>
           f == IF Taking THEN recvCh["plugin"] ELSE <<>>
           g == IF Taking /\ ~cancelled["plugin"] THEN wire["plugin"] ELSE <<>>
           h == IF Feeding /\ pc["feeder"] = "send" THEN Held(hand["feeder"]) ELSE <<>>
           i == IF Feeding THEN Items(queue["rawReqs"]) ELSE <<>>
           j == IF Feeding THEN Held(hand["pumpReqs"]) ELSE <<>>
           l == IF Feeding THEN Items(queue["reqs"]) ELSE <<>>
<1>3. /\ b \in Seq(Frames) /\ c \in Seq(Frames) /\ d \in Seq(Frames) /\ e \in Seq(Frames)
      /\ f \in Seq(Frames) /\ g \in Seq(Frames) /\ h \in Seq(Frames) /\ i \in Seq(Frames)
      /\ j \in Seq(Frames) /\ l \in Seq(Frames)
  BY <1>1, <1>2, Names DEF Chans
<1> DEFINE a == Items(got)
<1>4. a \in Seq(Frames) /\ Requests = <<a, b, c, d, e, f, g, h, i, j, l>>
  BY <1>2 DEF Requests
<1> HIDE DEF a, b, c, d, e, f, g, h, i, j, l
<1>5. Requests \in Lines(11)
  BY <1>3, <1>4, ElevenPlaces
<1>6. /\ Requests[1] = a /\ Requests[2] = b /\ Requests[3] = c /\ Requests[4] = d
      /\ Requests[5] = e /\ Requests[6] = f /\ Requests[7] = g /\ Requests[8] = h
      /\ Requests[9] = i /\ Requests[10] = j /\ Requests[11] = l
  BY <1>4
<1> QED
  BY <1>5, <1>6 DEF a, b, c, d, e, f, g, h, i, j, l

\* What a step does to the requests.
ReqMove ==
  \/ UNCHANGED <<Requests, given>>
  \/ /\ UNCHANGED given
     /\ \/ \E j \in 1 .. 10 : /\ Passes(Requests, Requests', j)
                              /\ j = 3 => Readable(Head(Requests[4]).val)
        \/ \E j \in 1 .. 11 : Drops(Requests, Requests', j)
        \/ \E f \in Frames : ~IsData(f) /\ Adds(Requests, Requests', 7, f)
        \/ \E j \in {2, 7, 8} : /\ Cuts(Requests, Requests', j) /\ ~Feeding'
                                /\ j = 2 => ~Taking'
                                /\ j = 7 => cancelled'["plugin"]
  \/ /\ given' = given + 1 /\ ~closed["reqs"]
     /\ \/ Adds(Requests, Requests', 11, Frame("data", given + 1)) /\ Feeding
        \/ UNCHANGED Requests /\ ~Feeding


LEMMA ReqMoves ==
  ASSUME TypeInv, TypeInv', StartInv, ReqFlags, Next, mode = "MultiSingle"
  PROVE  ReqMove
<1> USE DEF envVars, streamVars, chanVars, appVars, PcOK
<1> DEFINE P == Requests
           Q == Requests'
<1>0. /\ "host" \in Ends /\ "plugin" \in Ends /\ Peer("host") = "plugin"
      /\ Peer("plugin") = "host" /\ 0 \in Nat /\ "host" # "plugin"
      /\ {"start", "data", "closewrite", "close"} = Flags
      /\ PcOK /\ wire["plugin"] \in Seq(Frames) /\ recvCh["plugin"] \in Seq(Frames)
      /\ DOMAIN recvCh = Ends /\ DOMAIN wire = Ends /\ DOMAIN queue = Chans
      /\ cancelled \in [Ends -> BOOLEAN]
      /\ {"taken", "rawTaken", "rawReqs", "reqs"} \subseteq Chans /\ DOMAIN hand = Goroutines
      /\ To("pumpTaken") = "taken" /\ From("pumpTaken") = "rawTaken"
      /\ To("pumpReqs") = "rawReqs" /\ From("pumpReqs") = "reqs"
  BY Names DEF Flags, TypeInv, TypeOK, Chans, To, From
<1>1. /\ P \in Lines(11)
      /\ P[1] = Items(got)
      /\ P[2] = IF Taking THEN Items(queue["taken"]) ELSE <<>>
      /\ P[3] = IF Taking THEN Held(hand["pumpTaken"]) ELSE <<>>
      /\ P[4] = IF Taking THEN Items(queue["rawTaken"]) ELSE <<>>
      /\ P[5] = IF Taking THEN Held(hand["taker"]) ELSE <<>>
      /\ P[6] = IF Taking THEN recvCh["plugin"] ELSE <<>>
      /\ P[7] = IF Taking /\ ~cancelled["plugin"] THEN wire["plugin"] ELSE <<>>
      /\ P[8] = IF Feeding /\ pc["feeder"] = "send" THEN Held(hand["feeder"]) ELSE <<>>
      /\ P[9] = IF Feeding THEN Items(queue["rawReqs"]) ELSE <<>>
      /\ P[10] = IF Feeding THEN Held(hand["pumpReqs"]) ELSE <<>>
      /\ P[11] = IF Feeding THEN Items(queue["reqs"]) ELSE <<>>
  BY ReqPlaces
<1>2. (TypeInv =>
         /\ Requests \in Lines(11)
         /\ Requests[1] = Items(got)
         /\ Requests[2] = IF Taking THEN Items(queue["taken"]) ELSE <<>>
         /\ Requests[3] = IF Taking THEN Held(hand["pumpTaken"]) ELSE <<>>
         /\ Requests[4] = IF Taking THEN Items(queue["rawTaken"]) ELSE <<>>
         /\ Requests[5] = IF Taking THEN Held(hand["taker"]) ELSE <<>>
         /\ Requests[6] = IF Taking THEN recvCh["plugin"] ELSE <<>>
         /\ Requests[7] = IF Taking /\ ~cancelled["plugin"] THEN wire["plugin"] ELSE <<>>
         /\ Requests[8] = IF Feeding /\ pc["feeder"] = "send" THEN Held(hand["feeder"]) ELSE <<>>
         /\ Requests[9] = IF Feeding THEN Items(queue["rawReqs"]) ELSE <<>>
         /\ Requests[10] = IF Feeding THEN Held(hand["pumpReqs"]) ELSE <<>>
         /\ Requests[11] = IF Feeding THEN Items(queue["reqs"]) ELSE <<>>)'
  BY ReqPlaces, PTL
<1>3. /\ Q \in Lines(11)
      /\ Q[1] = Items(got')
      /\ Q[2] = IF Taking' THEN Items(queue'["taken"]) ELSE <<>>
      /\ Q[3] = IF Taking' THEN Held(hand'["pumpTaken"]) ELSE <<>>
      /\ Q[4] = IF Taking' THEN Items(queue'["rawTaken"]) ELSE <<>>
      /\ Q[5] = IF Taking' THEN Held(hand'["taker"]) ELSE <<>>
      /\ Q[6] = IF Taking' THEN recvCh'["plugin"] ELSE <<>>
      /\ Q[7] = IF Taking' /\ ~cancelled'["plugin"] THEN wire'["plugin"] ELSE <<>>
      /\ Q[8] = IF Feeding' /\ pc'["feeder"] = "send" THEN Held(hand'["feeder"]) ELSE <<>>
      /\ Q[9] = IF Feeding' THEN Items(queue'["rawReqs"]) ELSE <<>>
      /\ Q[10] = IF Feeding' THEN Held(hand'["pumpReqs"]) ELSE <<>>
      /\ Q[11] = IF Feeding' THEN Items(queue'["reqs"]) ELSE <<>>
  BY <1>2
<1>4. /\ got \in Seq(Payloads) /\ \A c \in Chans : queue[c] \in Seq(Payloads)
      /\ \A g \in Goroutines : hand[g] # 0 => hand[g] \in Payloads
  BY RespPlaces
<1>5. (Taking' => Taking) /\ (cancelled["host"] => cancelled'["host"])
  BY ReqFlagsNext
<1>6. /\ Feeding' => Taking' /\ ~cancelled'["host"]
      /\ Feeding <=> Taking /\ ~cancelled["host"]
      /\ Taking' /\ ~cancelled'["host"] => Feeding'
  BY DEF Feeding
<1> HIDE DEF P, Q
<1>7. DOMAIN P = 1 .. 11 /\ P = [k \in 1 .. 11 |-> P[k]] /\ Q = [k \in 1 .. 11 |-> Q[k]]
  BY <1>1, <1>3 DEF Lines
\* The moves.
<1>8. ASSUME \A k \in DOMAIN P : Q[k] = P[k], UNCHANGED given
      PROVE  ReqMove
  <2>1. Q = P
    BY <1>7, <1>8
  <2> QED
    BY <1>8, <2>1 DEF ReqMove, P, Q
<1>9. ASSUME NEW j \in 1 .. 10, Passes(P, Q, j), j = 3 => Readable(Head(P[4]).val),
             UNCHANGED given
      PROVE  ReqMove
  BY <1>9 DEF ReqMove, P, Q
<1>10. ASSUME NEW j \in 1 .. 11, Drops(P, Q, j), UNCHANGED given
       PROVE  ReqMove
  BY <1>10 DEF ReqMove, P, Q
<1>11. ASSUME NEW f \in Frames, ~IsData(f), Adds(P, Q, 7, f), UNCHANGED given
       PROVE  ReqMove
  BY <1>11 DEF ReqMove, P, Q
<1>12. ASSUME NEW j \in {2, 7, 8}, Cuts(P, Q, j), ~Feeding', UNCHANGED given,
              j = 2 => ~Taking', j = 7 => cancelled'["plugin"]
       PROVE  ReqMove
  BY <1>12 DEF ReqMove, P, Q
\* The handler takes no more of them, ...
<1>13. ASSUME UNCHANGED given, got' = got, ~Taking'
       PROVE  ReqMove
  <2>1. \A k \in 1 .. 11 : Q[k] = IF k < 2 THEN P[k] ELSE <<>>
    BY <1>1, <1>3, <1>6, <1>13, Eleven
  <2>2. Cuts(P, Q, 2)
    BY <1>7, <2>1 DEF Cuts
  <2> QED
    BY <1>6, <1>12, <1>13, <2>2
\* ... the stream is closed behind what is on it, ...
<1>14. ASSUME UNCHANGED given, got' = got, Taking', ~Feeding',
              queue'["taken"] = queue["taken"], queue'["rawTaken"] = queue["rawTaken"],
              hand'["pumpTaken"] = hand["pumpTaken"], hand'["taker"] = hand["taker"],
              recvCh'["plugin"] = recvCh["plugin"], wire'["plugin"] = wire["plugin"],
              cancelled'["plugin"] = cancelled["plugin"]
       PROVE  ReqMove
  <2>1. \A k \in 1 .. 11 : Q[k] = IF k < 8 THEN P[k] ELSE <<>>
    BY <1>1, <1>3, <1>5, <1>14, Eleven
  <2>2. Cuts(P, Q, 8)
    BY <1>7, <2>1 DEF Cuts
  <2> QED
    BY <1>12, <1>14, <2>2
\* ... or the step has nothing to do with them.
<1>15. ASSUME UNCHANGED given, got' = got,
              queue'["taken"] = queue["taken"], queue'["rawTaken"] = queue["rawTaken"],
              hand'["pumpTaken"] = hand["pumpTaken"], hand'["taker"] = hand["taker"],
              recvCh'["plugin"] = recvCh["plugin"], wire'["plugin"] = wire["plugin"],
              Taking' => cancelled'["plugin"] = cancelled["plugin"],
              queue'["rawReqs"] = queue["rawReqs"], queue'["reqs"] = queue["reqs"],
              hand'["pumpReqs"] = hand["pumpReqs"],
              Feeding' => /\ hand'["feeder"] = hand["feeder"]
                          /\ pc'["feeder"] = "send" <=> pc["feeder"] = "send"
       PROVE  ReqMove
  <2>1. CASE ~Taking'
    BY <1>13, <1>15, <2>1
  <2>2. CASE Taking' /\ ~Feeding'
    BY <1>14, <1>15, <2>2
  <2>3. CASE Taking' /\ Feeding'
    <3>1. Taking /\ Feeding
      BY <1>5, <1>6, <2>3
    <3>2. \A k \in DOMAIN P : Q[k] = P[k]
      BY <1>1, <1>3, <1>7, <1>15, <2>3, <3>1, Eleven
    <3> QED
      BY <1>8, <1>15, <3>2
  <2> QED
    BY <2>1, <2>2, <2>3
<1>16. CASE HandlerTakes
  <2>1. /\ queue["taken"] # <<>> /\ got' = Append(got, Head(queue["taken"]))
        /\ queue' = [queue EXCEPT !["taken"] = Tail(@)] /\ pc["handler"] = "range"
        /\ UNCHANGED <<hand, recvCh, wire, cancelled, pc, given>>
    BY <1>16 DEF HandlerTakes, Get
  <2>2. /\ queue'["taken"] = Tail(queue["taken"]) /\ queue'["rawTaken"] = queue["rawTaken"]
        /\ queue'["rawReqs"] = queue["rawReqs"] /\ queue'["reqs"] = queue["reqs"]
        /\ Taking /\ Taking' /\ (Feeding' <=> Feeding)
    BY <1>0, <1>6, <2>1 DEF Taking
  <2>3. P[2] # <<>> /\ Q[1] = Append(P[1], Head(P[2])) /\ Q[2] = Tail(P[2])
    <3>1. got \in Seq(Payloads) /\ queue["taken"] \in Seq(Payloads)
      BY <1>0, <1>4
    <3>2. /\ P[1] = Items(got) /\ P[2] = Items(queue["taken"])
          /\ Q[1] = Items(Append(got, Head(queue["taken"])))
          /\ Q[2] = Items(Tail(queue["taken"]))
      BY <1>1, <1>3, <2>1, <2>2
    <3> QED
      BY <2>1, <3>1, <3>2, ItemsPass
  <2>4. \A k \in DOMAIN P \ {1, 2} : Q[k] = P[k]
    BY <1>1, <1>3, <1>7, <2>1, <2>2, Eleven
  <2> QED
    BY <1>9, <2>1, <2>3, <2>4 DEF Passes, Others
<1>17. CASE PumpPuts("pumpTaken")
  <2>1. /\ hand["pumpTaken"] # 0
        /\ queue' = [queue EXCEPT !["taken"] = Append(@, hand["pumpTaken"])]
        /\ hand' = [hand EXCEPT !["pumpTaken"] = 0]
        /\ UNCHANGED <<got, recvCh, wire, cancelled, pc, given>>
    BY <1>0, <1>17 DEF PumpPuts, Put
  <2>2. /\ queue'["taken"] = Append(queue["taken"], hand["pumpTaken"])
        /\ queue'["rawTaken"] = queue["rawTaken"]
        /\ queue'["rawReqs"] = queue["rawReqs"] /\ queue'["reqs"] = queue["reqs"]
        /\ hand'["pumpTaken"] = 0 /\ hand'["taker"] = hand["taker"]
        /\ hand'["feeder"] = hand["feeder"] /\ hand'["pumpReqs"] = hand["pumpReqs"]
        /\ (Taking' <=> Taking) /\ (Feeding' <=> Feeding)
    BY <1>0, <1>6, <2>1, Names DEF Taking
  <2>3. CASE Taking
    <3>1. hand["pumpTaken"] \in Payloads /\ queue["taken"] \in Seq(Payloads)
      BY <1>0, <1>4, <2>1, Names
    <3>2. P[3] # <<>> /\ Head(P[3]) = Data(hand["pumpTaken"]) /\ Q[3] = Tail(P[3])
      <4>1. P[3] = Held(hand["pumpTaken"]) /\ Q[3] = Held(0)
        BY <1>1, <1>3, <2>2, <2>3
      <4> QED
        BY <3>1, <4>1, HeldType
    <3>3. Q[2] = Append(P[2], Head(P[3]))
      <4>1. Items(Append(queue["taken"], hand["pumpTaken"]))
              = Append(Items(queue["taken"]), Data(hand["pumpTaken"]))
        BY <3>1, ItemsType
      <4> QED
        BY <1>1, <1>3, <2>2, <2>3, <3>2, <4>1
    <3>4. \A k \in DOMAIN P \ {2, 3} : Q[k] = P[k]
      BY <1>1, <1>3, <1>7, <2>1, <2>2, Eleven
    <3> QED
      BY <1>9, <2>1, <3>2, <3>3, <3>4 DEF Passes, Others
  <2> QED
    BY <1>13, <2>1, <2>2, <2>3
<1>18. CASE PumpTakes("pumpTaken")
  <2> DEFINE n == Head(queue["rawTaken"])
  <2>1. /\ hand["pumpTaken"] = 0 /\ queue["rawTaken"] # <<>>
        /\ queue' = [queue EXCEPT !["rawTaken"] = Tail(@)]
        /\ hand' = [hand EXCEPT !["pumpTaken"] = IF Readable(n) THEN n ELSE 0]
        /\ UNCHANGED <<got, recvCh, wire, cancelled, pc, given>>
    BY <1>0, <1>18 DEF PumpTakes, Converts, Get
  <2>2. /\ queue'["rawTaken"] = Tail(queue["rawTaken"]) /\ queue'["taken"] = queue["taken"]
        /\ queue'["rawReqs"] = queue["rawReqs"] /\ queue'["reqs"] = queue["reqs"]
        /\ hand'["pumpTaken"] = (IF Readable(n) THEN n ELSE 0)
        /\ hand'["taker"] = hand["taker"]
        /\ hand'["feeder"] = hand["feeder"] /\ hand'["pumpReqs"] = hand["pumpReqs"]
        /\ (Taking' <=> Taking) /\ (Feeding' <=> Feeding)
    BY <1>0, <1>6, <2>1, Names DEF Taking
  <2>3. CASE Taking
    <3>1. /\ n \in Payloads /\ P[4] # <<>> /\ Head(P[4]) = Data(n) /\ Q[4] = Tail(P[4])
      <4>1. queue["rawTaken"] \in Seq(Payloads)
        BY <1>0, <1>4
      <4> QED
        BY <1>1, <1>3, <2>1, <2>2, <2>3, <4>1, ItemsPass
    <3> HIDE DEF n
    <3>2. Data(n).val = n /\ P[3] = <<>>
      BY <1>1, <2>1, <2>3, <3>1, HeldType
    <3>3. \A k \in DOMAIN P \ {3, 4} : Q[k] = P[k]
      BY <1>1, <1>3, <1>7, <2>1, <2>2, Eleven
    <3>4. CASE Readable(n)
      <4>1. Q[3] = Append(P[3], Head(P[4]))
        BY <1>3, <2>2, <2>3, <3>1, <3>2, <3>4, HeldType
      <4>2. Passes(P, Q, 3)
        BY <3>1, <3>3, <4>1 DEF Passes, Others
      <4>3. Readable(Head(P[4]).val)
        BY <3>1, <3>2, <3>4
      <4> QED
        BY <1>9, <2>1, <4>2, <4>3
    <3>5. CASE ~Readable(n)
      <4>1. Q[3] = P[3]
        BY <1>3, <2>2, <2>3, <3>2, <3>5, HeldType
      <4>2. Lost(Head(P[4])) /\ \A k \in DOMAIN P \ {4} : Q[k] = P[k]
        BY <3>1, <3>2, <3>3, <3>5, <4>1 DEF Lost
      <4> QED
        BY <1>10, <2>1, <3>1, <4>2 DEF Drops, Others
    <3> QED
      BY <3>4, <3>5
  <2> QED
    BY <1>13, <2>1, <2>2, <2>3
<1>19. CASE TakerPushes
  <2>1. /\ hand["taker"] # 0
        /\ queue' = [queue EXCEPT !["rawTaken"] = Append(@, hand["taker"])]
        /\ hand' = [hand EXCEPT !["taker"] = 0]
        /\ \E x : pc' = [pc EXCEPT !["taker"] = x]
        /\ UNCHANGED <<got, recvCh, wire, cancelled, given>>
    BY <1>0, <1>19 DEF TakerPushes, PassesOn, Put, Moves, TypeInv, HandInv
  <2>2. /\ queue'["rawTaken"] = Append(queue["rawTaken"], hand["taker"])
        /\ queue'["taken"] = queue["taken"]
        /\ queue'["rawReqs"] = queue["rawReqs"] /\ queue'["reqs"] = queue["reqs"]
        /\ hand'["taker"] = 0 /\ hand'["pumpTaken"] = hand["pumpTaken"]
        /\ hand'["feeder"] = hand["feeder"] /\ hand'["pumpReqs"] = hand["pumpReqs"]
        /\ pc'["feeder"] = pc["feeder"] /\ pc'["handler"] = pc["handler"]
    BY <1>0, <2>1, Names
  <2>3. (Taking' <=> Taking) /\ (Feeding' <=> Feeding)
    BY <1>6, <2>1, <2>2 DEF Taking
  <2>4. CASE Taking
    <3>1. hand["taker"] \in Payloads /\ queue["rawTaken"] \in Seq(Payloads)
      BY <1>0, <1>4, <2>1, Names
    <3>2. P[5] # <<>> /\ Head(P[5]) = Data(hand["taker"]) /\ Q[5] = Tail(P[5])
      <4>1. P[5] = Held(hand["taker"]) /\ Q[5] = Held(0)
        BY <1>1, <1>3, <2>2, <2>3, <2>4
      <4> QED
        BY <3>1, <4>1, HeldType
    <3>3. Q[4] = Append(P[4], Head(P[5]))
      <4>1. Items(Append(queue["rawTaken"], hand["taker"]))
              = Append(Items(queue["rawTaken"]), Data(hand["taker"]))
        BY <3>1, ItemsType
      <4> QED
        BY <1>1, <1>3, <2>2, <2>3, <2>4, <3>2, <4>1
    <3>4. \A k \in DOMAIN P \ {4, 5} : Q[k] = P[k]
      BY <1>1, <1>3, <1>7, <2>1, <2>2, <2>3, Eleven
    <3> QED
      BY <1>9, <2>1, <3>2, <3>3, <3>4 DEF Passes, Others
  <2> QED
    BY <1>13, <2>1, <2>3, <2>4
<1>20. CASE TakerRecvs
  <2> DEFINE f == Head(recvCh["plugin"])
  <2>1. /\ recvCh["plugin"] # <<>> /\ f.flag = "data"
        /\ recvCh'["plugin"] = Tail(recvCh["plugin"])
        /\ hand' = [hand EXCEPT !["taker"] = f.val]
        /\ pc["taker"] = "recv" /\ pc' = [pc EXCEPT !["taker"] = "push"]
        /\ UNCHANGED <<got, queue, wire, cancelled, given>>
    BY <1>0, <1>20 DEF TakerRecvs, Recvs, Recv, Arrived, Moves
  <2>2. /\ hand'["taker"] = f.val /\ hand'["pumpTaken"] = hand["pumpTaken"]
        /\ hand'["feeder"] = hand["feeder"] /\ hand'["pumpReqs"] = hand["pumpReqs"]
        /\ pc'["feeder"] = pc["feeder"] /\ pc'["handler"] = pc["handler"]
        /\ pc'["taker"] = "push"
    BY <1>0, <2>1, Names
  <2>3. (Taking' <=> Taking) /\ (Feeding' <=> Feeding)
    BY <1>6, <2>1, <2>2 DEF Taking
  <2>4. hand["taker"] = 0 /\ hand'["taker"] # 0
    <3>1. HandInv /\ HandInv'
      BY DEF TypeInv
    <3>2. pc["taker"] = "recv" => hand["taker"] = 0
      BY <3>1 DEF HandInv
    <3>3. pc'["taker"] = "push" => hand'["taker"] # 0
      BY <3>1 DEF HandInv
    <3> QED
      BY <2>1, <2>2, <3>2, <3>3
  <2>5. CASE Taking
    <3>1. f \in Frames /\ f.val \in Payloads
      <4>1. f \in Frames
        BY <1>0, <2>1, TakeType
      <4>2. (TypeInv => \A g \in Goroutines : hand[g] # 0 => hand[g] \in Payloads)'
        BY RespPlaces, PTL
      <4> QED
        BY <2>2, <2>4, <4>1, <4>2, Names
    <3>2. f = Data(f.val)
      <4>1. f = [flag |-> f.flag, val |-> f.val] /\ f.flag = "data"
        BY <2>1, <3>1 DEF Frames
      <4> QED
        BY <4>1 DEF Data, Frame
    <3>3. P[6] # <<>> /\ Head(P[6]) = f /\ Q[6] = Tail(P[6])
      BY <1>1, <1>3, <2>1, <2>3, <2>5
    <3> HIDE DEF f
    <3>4. P[5] = <<>> /\ Q[5] = Append(P[5], f)
      <4>1. P[5] = <<>> /\ Q[5] = Held(f.val)
        BY <1>1, <1>3, <2>2, <2>3, <2>4, <2>5, HeldType
      <4>2. Held(f.val) = Append(<<>>, Data(f.val))
        BY <3>1, HeldType
      <4> QED
        BY <3>2, <4>1, <4>2
    <3>5. \A k \in DOMAIN P \ {5, 6} : Q[k] = P[k]
      BY <1>1, <1>3, <1>7, <2>1, <2>2, <2>3, Eleven
    <3>6. Passes(P, Q, 5)
      BY <3>3, <3>4, <3>5 DEF Passes, Others
    <3> QED
      BY <1>9, <2>1, <3>6
  <2> QED
    BY <1>13, <2>1, <2>3, <2>5
<1>21. CASE Dispatch("plugin")
  <2> DEFINE f == Head(wire["plugin"])
  <2>1. /\ wire["plugin"] # <<>> /\ f.flag # "start"
        /\ wire'["plugin"] = Tail(wire["plugin"])
        /\ UNCHANGED <<got, queue, hand, pc, given>>
        /\ \/ ~open["plugin"] /\ UNCHANGED <<recvCh, cancelled>>
           \/ /\ open["plugin"] /\ f.flag = "close" /\ UNCHANGED recvCh
              /\ cancelled' = [cancelled EXCEPT !["plugin"] = TRUE]
           \/ /\ open["plugin"] /\ f.flag # "close" /\ UNCHANGED cancelled
              /\ recvCh'["plugin"] = Append(recvCh["plugin"], f)
           \/ open["plugin"] /\ cancelled["plugin"]
    BY <1>0, <1>21 DEF Dispatch
  <2>2. f \in Frames /\ 1 \in DOMAIN wire["plugin"] /\ wire["plugin"][1] = f
    BY <1>0, <2>1, TakeType
  <2>3. pc["handler"] # "off"
    BY <2>1, <2>2 DEF StartInv
  <2>4. Taking => /\ open["plugin"] \/ cancelled["plugin"]
                  /\ cancelled["plugin"] => ~open["plugin"]
    BY <2>3 DEF StartInv
  <2>5. Taking' <=> Taking
    BY <2>1 DEF Taking
  <2>6. CASE Taking /\ ~open["plugin"] /\ UNCHANGED <<recvCh, cancelled>>
    <3>1. Feeding' <=> Feeding
      BY <1>6, <2>5, <2>6
    <3>2. \A k \in DOMAIN P : Q[k] = P[k]
      BY <1>1, <1>3, <1>7, <2>1, <2>4, <2>5, <2>6, <3>1, Eleven
    <3> QED
      BY <1>8, <2>1, <3>2
  <2>7. CASE /\ Taking /\ f.flag = "close" /\ UNCHANGED recvCh
             /\ cancelled' = [cancelled EXCEPT !["plugin"] = TRUE]
    <3>1. cancelled["host"] /\ cancelled'["host"] /\ cancelled'["plugin"]
      BY <1>0, <2>2, <2>7 DEF ReqFlags
    <3>2. ~Feeding /\ ~Feeding'
      BY <1>6, <3>1
    <3>3. \A k \in 1 .. 11 : Q[k] = IF k < 7 THEN P[k] ELSE <<>>
      BY <1>1, <1>3, <2>1, <2>5, <2>7, <3>1, <3>2, Eleven
    <3>4. Cuts(P, Q, 7)
      BY <1>7, <3>3 DEF Cuts
    <3> QED
      <4>1. /\ 7 \in {2, 7, 8} /\ (7 = 2 => ~Taking') /\ (7 = 7 => cancelled'["plugin"])
            /\ UNCHANGED given
        BY <2>1, <3>1
      <4> QED
        BY <1>12, <3>2, <3>4, <4>1
  <2>8. CASE /\ Taking /\ open["plugin"] /\ UNCHANGED cancelled
             /\ recvCh'["plugin"] = Append(recvCh["plugin"], f)
    <3>1. ~cancelled["plugin"] /\ ~cancelled'["plugin"] /\ (Feeding' <=> Feeding)
      BY <1>6, <2>4, <2>5, <2>8
    <3>2. P[7] # <<>> /\ Head(P[7]) = f /\ Q[7] = Tail(P[7]) /\ Q[6] = Append(P[6], f)
      BY <1>1, <1>3, <2>1, <2>5, <2>8, <3>1
    <3>3. \A k \in DOMAIN P \ {6, 7} : Q[k] = P[k]
      BY <1>1, <1>3, <1>7, <2>1, <2>5, <2>8, <3>1, Eleven
    <3>4. Passes(P, Q, 6)
      BY <3>2, <3>3 DEF Passes, Others
    <3> QED
      BY <1>9, <2>1, <3>4
  <2> QED
    BY <1>13, <2>1, <2>4, <2>5, <2>6, <2>7, <2>8
<1>22. CASE DispatchStart
  <2> DEFINE f == Head(wire["plugin"])
  <2>1. /\ wire["plugin"] # <<>> /\ f.flag = "start"
        /\ wire'["plugin"] = Tail(wire["plugin"])
        /\ pc' = [pc EXCEPT !["handler"] = IF served THEN "recv" ELSE "parked"]
        /\ UNCHANGED <<got, queue, hand, recvCh, cancelled, given>>
    BY <1>0, <1>22 DEF DispatchStart
  <2>2. f \in Frames /\ 1 \in DOMAIN wire["plugin"] /\ wire["plugin"][1] = f
    BY <1>0, <2>1, TakeType
  <2>3. pc["handler"] = "off" /\ Taking
    BY <2>1, <2>2 DEF StartInv, Taking
  <2>4. ~cancelled["plugin"] /\ pc'["feeder"] = pc["feeder"]
    BY <1>0, <2>1, <2>3, Names DEF StartInv
  <2>5. CASE Taking'
    <3>1. Feeding' <=> Feeding
      BY <1>6, <2>1, <2>3, <2>5
    <3>2. P[7] # <<>> /\ Head(P[7]) = f /\ Q[7] = Tail(P[7]) /\ Lost(f)
      BY <1>1, <1>3, <2>1, <2>3, <2>4, <2>5 DEF Lost, IsData
    <3>3. \A k \in DOMAIN P \ {7} : Q[k] = P[k]
      BY <1>1, <1>3, <1>7, <2>1, <2>3, <2>4, <2>5, <3>1, Eleven
    <3> QED
      BY <1>10, <2>1, <3>2, <3>3 DEF Drops, Others
  <2> QED
    BY <1>13, <2>1, <2>5
<1>23. CASE FeederSends
  <2>1. /\ wire'["plugin"] = Append(wire["plugin"], Frame("data", hand["feeder"]))
        /\ ~cancelled["host"] /\ pc["feeder"] = "send"
        /\ pc' = [pc EXCEPT !["feeder"] = "run"]
        /\ UNCHANGED <<got, queue, hand, recvCh, cancelled, given>>
    BY <1>0, <1>23 DEF FeederSends, Send, Write, Moves
  <2>2. pc'["feeder"] = "run" /\ (Taking' <=> Taking)
    BY <1>0, <2>1, Names DEF Taking
  <2>3. CASE Taking
    <3>1. ~cancelled["plugin"] /\ Feeding /\ Feeding' /\ hand["feeder"] # 0
      BY <1>6, <2>1, <2>2, <2>3 DEF ReqFlags, TypeInv, HandInv
    <3>2. hand["feeder"] \in Payloads
      BY <1>4, <3>1, Names
    <3>3. P[8] # <<>> /\ Head(P[8]) = Data(hand["feeder"]) /\ Q[8] = Tail(P[8])
      <4>1. P[8] = Held(hand["feeder"]) /\ Q[8] = <<>>
        BY <1>1, <1>3, <2>1, <2>2, <3>1
      <4> QED
        BY <3>2, <4>1, HeldType
    <3>4. Q[7] = Append(P[7], Head(P[8]))
      <4>1. Data(hand["feeder"]) = Frame("data", hand["feeder"])
        BY DEF Data
      <4> QED
        BY <1>1, <1>3, <2>1, <2>2, <2>3, <3>1, <3>3, <4>1
    <3>5. \A k \in DOMAIN P \ {7, 8} : Q[k] = P[k]
      BY <1>1, <1>3, <1>7, <2>1, <2>2, <2>3, <3>1, Eleven
    <3> QED
      BY <1>9, <2>1, <3>3, <3>4, <3>5 DEF Passes, Others
  <2> QED
    BY <1>13, <2>1, <2>2, <2>3
<1>24. CASE FeederTakes
  <2> DEFINE n == Head(queue["rawReqs"])
  <2>1. /\ queue["rawReqs"] # <<>> /\ pc["feeder"] = "run"
        /\ queue' = [queue EXCEPT !["rawReqs"] = Tail(@)]
        /\ hand' = [hand EXCEPT !["feeder"] = n]
        /\ pc' = [pc EXCEPT !["feeder"] = "send"]
        /\ UNCHANGED <<got, wire, recvCh, cancelled, given>>
    BY <1>0, <1>24 DEF FeederTakes, Get, Moves
  <2>2. /\ queue'["rawReqs"] = Tail(queue["rawReqs"]) /\ queue'["reqs"] = queue["reqs"]
        /\ queue'["rawTaken"] = queue["rawTaken"] /\ queue'["taken"] = queue["taken"]
        /\ hand'["feeder"] = n /\ hand'["pumpReqs"] = hand["pumpReqs"]
        /\ hand'["taker"] = hand["taker"] /\ hand'["pumpTaken"] = hand["pumpTaken"]
        /\ pc'["feeder"] = "send" /\ pc'["handler"] = pc["handler"]
    BY <1>0, <2>1, Names
  <2>3. (Taking' <=> Taking) /\ (Feeding' <=> Feeding)
    BY <1>6, <2>1, <2>2 DEF Taking
  <2>4. CASE Feeding
    <3>1. /\ n \in Payloads /\ P[9] # <<>> /\ Head(P[9]) = Data(n) /\ Q[9] = Tail(P[9])
      <4>1. queue["rawReqs"] \in Seq(Payloads)
        BY <1>0, <1>4
      <4>2. P[9] = Items(queue["rawReqs"]) /\ Q[9] = Items(Tail(queue["rawReqs"]))
        BY <1>1, <1>3, <2>2, <2>3, <2>4
      <4> QED
        BY <2>1, <4>1, <4>2, ItemsPass
    <3> HIDE DEF n
    <3>2. Q[8] = Append(P[8], Head(P[9]))
      <4>1. P[8] = <<>> /\ Q[8] = Held(n)
        BY <1>1, <1>3, <2>1, <2>2, <2>3, <2>4
      <4> QED
        BY <3>1, <4>1, HeldType
    <3>3. \A k \in DOMAIN P \ {8, 9} : Q[k] = P[k]
      BY <1>1, <1>3, <1>7, <2>1, <2>2, <2>3, Eleven
    <3> QED
      BY <1>9, <2>1, <3>1, <3>2, <3>3 DEF Passes, Others
  <2> QED
    BY <1>15, <2>1, <2>2, <2>3, <2>4, <1>13, <1>14, <1>6
<1>25. CASE PumpPuts("pumpReqs")
  <2>1. /\ hand["pumpReqs"] # 0
        /\ queue' = [queue EXCEPT !["rawReqs"] = Append(@, hand["pumpReqs"])]
        /\ hand' = [hand EXCEPT !["pumpReqs"] = 0]
        /\ UNCHANGED <<got, recvCh, wire, cancelled, pc, given>>
    BY <1>0, <1>25 DEF PumpPuts, Put
  <2>2. /\ queue'["rawReqs"] = Append(queue["rawReqs"], hand["pumpReqs"])
        /\ queue'["reqs"] = queue["reqs"]
        /\ queue'["rawTaken"] = queue["rawTaken"] /\ queue'["taken"] = queue["taken"]
        /\ hand'["pumpReqs"] = 0 /\ hand'["feeder"] = hand["feeder"]
        /\ hand'["taker"] = hand["taker"] /\ hand'["pumpTaken"] = hand["pumpTaken"]
        /\ (Taking' <=> Taking) /\ (Feeding' <=> Feeding)
    BY <1>0, <1>6, <2>1, Names DEF Taking
  <2>3. CASE Feeding
    <3>1. hand["pumpReqs"] \in Payloads /\ queue["rawReqs"] \in Seq(Payloads)
      BY <1>0, <1>4, <2>1, Names
    <3>2. P[10] # <<>> /\ Head(P[10]) = Data(hand["pumpReqs"]) /\ Q[10] = Tail(P[10])
      <4>1. P[10] = Held(hand["pumpReqs"]) /\ Q[10] = Held(0)
        BY <1>1, <1>3, <2>2, <2>3
      <4> QED
        BY <3>1, <4>1, HeldType
    <3>3. Q[9] = Append(P[9], Head(P[10]))
      <4>1. Items(Append(queue["rawReqs"], hand["pumpReqs"]))
              = Append(Items(queue["rawReqs"]), Data(hand["pumpReqs"]))
        BY <3>1, ItemsType
      <4> QED
        BY <1>1, <1>3, <2>2, <2>3, <3>2, <4>1
    <3>4. \A k \in DOMAIN P \ {9, 10} : Q[k] = P[k]
      BY <1>1, <1>3, <1>7, <2>1, <2>2, Eleven
    <3> QED
      BY <1>9, <2>1, <3>2, <3>3, <3>4 DEF Passes, Others
  <2> QED
    BY <1>6, <1>13, <1>14, <2>1, <2>2, <2>3
<1>26. CASE PumpTakes("pumpReqs")
  <2> DEFINE n == Head(queue["reqs"])
  <2>1. /\ hand["pumpReqs"] = 0 /\ queue["reqs"] # <<>>
        /\ queue' = [queue EXCEPT !["reqs"] = Tail(@)]
        /\ hand' = [hand EXCEPT !["pumpReqs"] = IF n \notin Unencodable THEN n ELSE 0]
        /\ UNCHANGED <<got, recvCh, wire, cancelled, pc, given>>
    BY <1>0, <1>26 DEF PumpTakes, Converts, Get
  <2>2. /\ queue'["reqs"] = Tail(queue["reqs"]) /\ queue'["rawReqs"] = queue["rawReqs"]
        /\ queue'["rawTaken"] = queue["rawTaken"] /\ queue'["taken"] = queue["taken"]
        /\ hand'["pumpReqs"] = (IF n \notin Unencodable THEN n ELSE 0)
        /\ hand'["feeder"] = hand["feeder"]
        /\ hand'["taker"] = hand["taker"] /\ hand'["pumpTaken"] = hand["pumpTaken"]
        /\ (Taking' <=> Taking) /\ (Feeding' <=> Feeding)
    BY <1>0, <1>6, <2>1, Names DEF Taking
  <2>3. CASE Feeding
    <3>1. /\ n \in Payloads /\ P[11] # <<>> /\ Head(P[11]) = Data(n) /\ Q[11] = Tail(P[11])
      <4>1. queue["reqs"] \in Seq(Payloads)
        BY <1>0, <1>4
      <4>2. P[11] = Items(queue["reqs"]) /\ Q[11] = Items(Tail(queue["reqs"]))
        BY <1>1, <1>3, <2>2, <2>3
      <4> QED
        BY <2>1, <4>1, <4>2, ItemsPass
    <3> HIDE DEF n
    <3>2. Data(n).val = n /\ P[10] = <<>>
      BY <1>1, <2>1, <2>3, <3>1, HeldType
    <3>3. \A k \in DOMAIN P \ {10, 11} : Q[k] = P[k]
      BY <1>1, <1>3, <1>7, <2>1, <2>2, Eleven
    <3>4. CASE n \notin Unencodable
      <4>1. Q[10] = Append(P[10], Head(P[11]))
        BY <1>3, <2>2, <2>3, <3>1, <3>2, <3>4, HeldType
      <4>2. Passes(P, Q, 10)
        BY <3>1, <3>3, <4>1 DEF Passes, Others
      <4> QED
        BY <1>9, <2>1, <4>2
    <3>5. CASE n \in Unencodable
      <4>1. Q[10] = P[10]
        BY <1>3, <2>2, <2>3, <3>2, <3>5, HeldType
      <4>2. Lost(Head(P[11])) /\ \A k \in DOMAIN P \ {11} : Q[k] = P[k]
        BY <3>1, <3>2, <3>3, <3>5, <4>1 DEF Lost, Readable
      <4> QED
        BY <1>10, <2>1, <3>1, <4>2 DEF Drops, Others
    <3> QED
      BY <3>4, <3>5
  <2> QED
    BY <1>6, <1>13, <1>14, <2>1, <2>2, <2>3
<1>27. CASE AppGives
  <2>1. /\ queue' = [queue EXCEPT !["reqs"] = Append(@, given + 1)] /\ given' = given + 1
        /\ given + 1 \in Payloads /\ ~closed["reqs"]
        /\ UNCHANGED <<got, recvCh, wire, cancelled, pc, hand>>
    BY <1>27, CallsAssumption DEF AppGives, Put, Payloads, TypeInv, TypeOK
  <2>2. /\ queue'["reqs"] = Append(queue["reqs"], given + 1)
        /\ queue'["rawReqs"] = queue["rawReqs"]
        /\ queue'["rawTaken"] = queue["rawTaken"] /\ queue'["taken"] = queue["taken"]
        /\ (Taking' <=> Taking) /\ (Feeding' <=> Feeding)
    BY <1>0, <1>6, <2>1 DEF Taking
  <2>3. CASE Feeding
    <3>1. Q[11] = Append(P[11], Frame("data", given + 1))
      <4>1. queue["reqs"] \in Seq(Payloads)
        BY <1>0, <1>4
      <4> DEFINE n == given + 1
      <4>2. n \in Payloads /\ Data(n) = Frame("data", given + 1)
        BY <2>1 DEF Data
      <4>3. P[11] = Items(queue["reqs"]) /\ Q[11] = Items(Append(queue["reqs"], n))
        BY <1>1, <1>3, <2>2, <2>3
      <4> HIDE DEF n
      <4> QED
        BY <4>1, <4>2, <4>3, ItemsType
    <3>2. \A k \in DOMAIN P \ {11} : Q[k] = P[k]
      BY <1>1, <1>3, <1>7, <2>1, <2>2, Eleven
    <3> QED
      BY <2>1, <2>3, <3>1, <3>2 DEF ReqMove, Adds, Others, P, Q
  <2>4. CASE ~Feeding
    <3>1. \A k \in DOMAIN P : Q[k] = P[k]
      BY <1>1, <1>3, <1>7, <2>1, <2>2, <2>4, Eleven
    <3>2. Q = P
      BY <1>7, <3>1
    <3> QED
      BY <2>1, <2>4, <3>2 DEF ReqMove, P, Q
  <2> QED
    BY <2>3, <2>4
<1>28. ASSUME NEW f \in Frames, ~IsData(f), wire'["plugin"] = Append(wire["plugin"], f),
              UNCHANGED <<got, queue, hand, recvCh, cancelled, given>>,
              Taking' <=> Taking, pc'["feeder"] = "send" <=> pc["feeder"] = "send"
       PROVE  ReqMove
  <2>1. Feeding' <=> Feeding
    BY <1>6, <1>28
  <2>2. CASE Taking /\ ~cancelled["plugin"]
    <3>1. Q[7] = Append(P[7], f)
      BY <1>1, <1>3, <1>28, <2>2
    <3>2. \A k \in DOMAIN P \ {7} : Q[k] = P[k]
      BY <1>1, <1>3, <1>7, <1>28, <2>1, Eleven
    <3> QED
      BY <1>11, <1>28, <3>1, <3>2 DEF Adds, Others
  <2>3. CASE ~(Taking /\ ~cancelled["plugin"])
    <3>1. \A k \in DOMAIN P : Q[k] = P[k]
      BY <1>1, <1>3, <1>7, <1>28, <2>1, <2>3, Eleven
    <3> QED
      BY <1>8, <1>28, <3>1
  <2> QED
    BY <2>2, <2>3
<1>29. \A x \in {"start", "closewrite", "close"} : Frame(x, 0) \in Frames /\ ~IsData(Frame(x, 0))
  BY <1>0 DEF Frame, Frames, IsData
<1>30. CASE CallWritesStart
  <2>1. /\ wire'["plugin"] = Append(wire["plugin"], Frame("start", 0))
        /\ pc' = [pc EXCEPT !["call"] = "recv", !["feeder"] = "run"] /\ pc["call"] = "start"
        /\ UNCHANGED <<got, queue, hand, recvCh, cancelled, given>>
    BY <1>0, <1>30 DEF CallWritesStart, Write
  <2>2. /\ pc["feeder"] = "off" /\ pc'["feeder"] = "run"
        /\ pc'["handler"] = pc["handler"]
    BY <1>0, <2>1, Names DEF StartInv
  <2> DEFINE f == Frame("start", 0)
  <2>3. f \in Frames /\ ~IsData(f) /\ wire'["plugin"] = Append(wire["plugin"], f)
    BY <1>29, <2>1
  <2> HIDE DEF f
  <2>4. Taking' <=> Taking
    BY <2>2 DEF Taking
  <2> QED
    BY <1>28, <2>1, <2>2, <2>3, <2>4
<1>31. CASE FeederEnds \/ CloseEnd("call", "host") \/ CloseEnd("feeder", "host")
  <2>1. /\ \E x \in {"closewrite", "close"} :
             UNCHANGED wire \/ wire'["plugin"] = Append(wire["plugin"], Frame(x, 0))
        /\ \/ pc' = [pc EXCEPT !["call"] = "done"]
           \/ pc["feeder"] # "send" /\ pc' = [pc EXCEPT !["feeder"] = "done"]
        /\ UNCHANGED <<got, queue, hand, recvCh, cancelled, given>>
    BY <1>0, <1>31 DEF FeederEnds, CloseEnd, Write, Moves
  <2>2. /\ pc'["feeder"] = "send" <=> pc["feeder"] = "send"
        /\ pc'["handler"] = pc["handler"]
    BY <1>0, <2>1, Names
  <2>3. Taking' <=> Taking
    BY <2>2 DEF Taking
  <2>4. CASE UNCHANGED wire
    BY <1>15, <2>1, <2>2, <2>4
  <2>5. ASSUME NEW x \in {"closewrite", "close"},
               wire'["plugin"] = Append(wire["plugin"], Frame(x, 0))
        PROVE  ReqMove
    <3> DEFINE f == Frame(x, 0)
    <3>1. f \in Frames /\ ~IsData(f) /\ wire'["plugin"] = Append(wire["plugin"], f)
      BY <1>29, <2>5
    <3> HIDE DEF f
    <3> QED
      BY <1>28, <2>1, <2>2, <2>3, <3>1
  <2> QED
    BY <2>1, <2>4, <2>5
<1>32. CASE CallStart \/ CallStartFails \/ CallRecvs
  <2>1. /\ UNCHANGED <<got, queue, hand, wire, given>> /\ recvCh'["plugin"] = recvCh["plugin"]
        /\ cancelled'["plugin"] = cancelled["plugin"] /\ pc'["feeder"] = pc["feeder"]
    BY <1>0, <1>32, Names DEF CallStart, CallStartFails, CallRecvs, CallReturns, Moves
  <2> QED
    BY <1>15, <2>1
<1>33. CASE FeederFails
  <2>1. /\ UNCHANGED <<got, queue, hand, wire, recvCh, given>>
        /\ cancelled'["plugin"] = cancelled["plugin"] /\ cancelled'["host"]
    BY <1>0, <1>33 DEF FeederFails, Cancel
  <2>2. ~Feeding'
    BY <1>6, <2>1
  <2> QED
    BY <1>15, <2>1, <2>2
<1>34. CASE \/ HandlerStarts \/ HandlerResponds \/ HandlerStopsEarly \/ HandlerGivesUp
            \/ TakerEnds
  <2>1. /\ UNCHANGED <<got, queue, hand, wire, recvCh, cancelled, given>>
        /\ pc'["feeder"] = pc["feeder"]
    BY <1>0, <1>34, Names
    DEF HandlerStarts, HandlerResponds, HandlerStopsEarly, HandlerRespondsIf,
        HandlerGivesUp, TakerEnds, CloseChan, Moves
  <2> QED
    BY <1>15, <2>1
<1>35. CASE \/ HandlerSendsResponse \/ HandlerEndsResponse \/ HandlerQuits
            \/ CloseEnd("handler", "plugin")
  <2>1. /\ \E x \in {"end", "quit", "closing", "done"} : pc' = [pc EXCEPT !["handler"] = x]
        /\ UNCHANGED <<got, given>>
    BY <1>35
    DEF HandlerSendsResponse, HandlerEndsResponse, HandlerQuits, CloseEnd, Moves
  <2>2. ~Taking'
    BY <1>0, <2>1, Names DEF Taking
  <2> QED
    BY <1>13, <2>1, <2>2
<1>36. CASE PumpEnds("pumpReqs") \/ PumpEnds("pumpTaken")
  <2>1. /\ UNCHANGED <<got, queue, hand, wire, recvCh, cancelled, given>>
        /\ \E g \in {"pumpReqs", "pumpTaken"} : pc' = [pc EXCEPT ![g] = "done"]
    BY <1>36 DEF PumpEnds, CloseChan, Moves
  <2>2. pc'["feeder"] = pc["feeder"]
    BY <1>0, <2>1, Names
  <2> QED
    BY <1>15, <2>1, <2>2
<1>37. CASE Dispatch("host") \/ LoopFails
  <2>1. /\ UNCHANGED <<got, queue, hand, pc, given>> /\ wire'["plugin"] = wire["plugin"]
        /\ recvCh'["plugin"] = recvCh["plugin"] /\ cancelled'["plugin"] = cancelled["plugin"]
    BY <1>0, <1>37 DEF Dispatch, LoopFails
  <2> QED
    BY <1>15, <2>1
<1>38. CASE AppCloses \/ ContextEnds
  <2>1. UNCHANGED <<got, queue, hand, pc, wire, recvCh, cancelled, given>>
    BY <1>38 DEF AppCloses, CloseChan, ContextEnds
  <2> QED
    BY <1>15, <2>1
<1>39. CASE Crash
  <2>1. UNCHANGED <<got, given>> /\ pc'["handler"] = "done"
    BY <1>39, Names DEF Crash, OfPlugin
  <2>2. ~Taking'
    BY <2>1 DEF Taking
  <2> QED
    BY <1>13, <2>1, <2>2
<1> QED
  BY <1>16, <1>17, <1>18, <1>19, <1>20, <1>21, <1>22, <1>23, <1>24, <1>25, <1>26, <1>27,
     <1>30, <1>31, <1>32, <1>33, <1>34, <1>35, <1>36, <1>37, <1>38, <1>39, MultiNext
  DEF PumpSteps

\* The requests are in line, and every readable one while they are passed on.
ReqOrder ==
  /\ Line(Requests, given) /\ Filtered(Requests, 3)
  /\ Feeding => Whole(Requests, given)

LEMMA ReqStep ==
  ASSUME TypeInv, TypeInv', ReqMove, Feeding' => Feeding, ReqOrder
  PROVE  ReqOrder'
<1> DEFINE P == Requests
           Q == Requests'
<1>0. given \in Nat
  BY CallsAssumption DEF TypeInv, TypeOK
<1>1. P \in Lines(11) /\ 11 \in Nat /\ 3 \in Nat
  BY ReqPlaces
<1>2. (TypeInv => Requests \in Lines(11))'
  BY ReqPlaces, PTL
<1>3. Q \in Lines(11)
  BY <1>2
<1>4. Line(P, given) /\ Filtered(P, 3) /\ (Feeding => Whole(P, given))
  BY DEF ReqOrder
<1>5. Line(Q, given') /\ Filtered(Q, 3) /\ (Feeding' => Whole(Q, given')) => ReqOrder'
  BY DEF ReqOrder
<1>6. \/ Q = P /\ given' = given
      \/ /\ given' = given
         /\ \/ \E j \in 1 .. 10 : Passes(P, Q, j) /\ (j = 3 => Readable(Head(P[4]).val))
            \/ \E j \in 1 .. 11 : Drops(P, Q, j)
            \/ \E f \in Frames : ~IsData(f) /\ Adds(P, Q, 7, f)
            \/ \E j \in {2, 7, 8} : Cuts(P, Q, j) /\ ~Feeding'
      \/ /\ given' = given + 1
         /\ \/ Adds(P, Q, 11, Frame("data", given + 1)) /\ Feeding
            \/ Q = P /\ ~Feeding
  BY DEF ReqMove
<1> HIDE DEF P, Q
<1>7. ASSUME \A n : Readable(n) /\ Has(P, n) => Has(Q, n), Whole(P, given), given' = given
      PROVE  Whole(Q, given')
  BY <1>7 DEF Whole
<1>8. CASE Q = P /\ given' = given
  BY <1>4, <1>5, <1>8
<1>9. ASSUME NEW j \in 1 .. 10, Passes(P, Q, j), j = 3 => Readable(Head(P[4]).val),
             given' = given
      PROVE  Line(Q, given') /\ Filtered(Q, 3) /\ (Whole(P, given) => Whole(Q, given'))
  <2>1. j \in 1 .. 11 /\ j + 1 \in 1 .. 11 /\ (j = 3 => j + 1 = 4)
    OBVIOUS
  <2>2. /\ \A n : Has(Q, n) <=> Has(P, n)
        /\ \A hi : Line(P, hi) => Line(Q, hi)
        /\ \A x \in Nat :
             Filtered(P, x) /\ (j = x => Readable(Head(P[j + 1]).val)) => Filtered(Q, x)
    BY <1>1, <1>3, <1>9, <2>1, PassLine
  <2>3. j = 3 => Readable(Head(P[j + 1]).val)
    BY <1>9, <2>1
  <2> QED
    BY <1>1, <1>4, <1>7, <1>9, <2>2, <2>3
<1>10. ASSUME NEW j \in 1 .. 11, Drops(P, Q, j), given' = given
       PROVE  Line(Q, given') /\ Filtered(Q, 3) /\ (Whole(P, given) => Whole(Q, given'))
  BY <1>1, <1>3, <1>4, <1>7, <1>10, DropLine
<1>11. ASSUME NEW f \in Frames, ~IsData(f), Adds(P, Q, 7, f), given' = given
       PROVE  Line(Q, given') /\ Filtered(Q, 3) /\ (Whole(P, given) => Whole(Q, given'))
  <2>1. 7 \in 1 .. 11
    OBVIOUS
  <2> QED
    BY <1>1, <1>3, <1>4, <1>7, <1>11, <2>1, AddLine
<1>12. ASSUME NEW j \in {2, 7, 8}, Cuts(P, Q, j), ~Feeding', given' = given
       PROVE  ReqOrder'
  <2>1. j \in 1 .. 11
    OBVIOUS
  <2>2. Line(Q, given') /\ Filtered(Q, 3)
    BY <1>1, <1>3, <1>4, <1>12, <2>1, CutLine
  <2> QED
    BY <1>5, <1>12, <2>2
<1>13. CASE Adds(P, Q, 11, Frame("data", given + 1)) /\ Feeding /\ given' = given + 1
  <2>1. 11 # 0 /\ 3 < 11
    OBVIOUS
  <2>2. Line(Q, given') /\ Whole(Q, given') /\ Filtered(Q, 3)
    BY <1>0, <1>1, <1>3, <1>4, <1>13, <2>1, EnterLine
  <2> QED
    BY <1>5, <2>2
<1>14. CASE Q = P /\ ~Feeding /\ given' = given + 1
  <2>1. Line(Q, given')
    BY <1>0, <1>4, <1>14 DEF Line, Within
  <2> QED
    BY <1>4, <1>5, <1>14, <2>1
<1>15. CASE /\ given' = given /\ Line(Q, given') /\ Filtered(Q, 3)
            /\ Whole(P, given) => Whole(Q, given')
  BY <1>4, <1>5, <1>15
<1> QED
  BY <1>6, <1>8, <1>9, <1>10, <1>11, <1>12, <1>13, <1>14, <1>15


ReqInv == mode = "MultiSingle" => ReqFlags /\ ReqOrder

LEMMA ReqInit == Init => ReqOrder
<1> SUFFICES ASSUME Init PROVE ReqOrder
  OBVIOUS
<1> DEFINE P == Requests
<1>1. DOMAIN <<>> = {} /\ TypeInv
  BY TypeInit
<1>2. /\ got = <<>> /\ recvCh["plugin"] = <<>> /\ wire["plugin"] = <<>> /\ given = 0
      /\ \A c \in Chans : queue[c] = <<>>
      /\ \A g \in Goroutines : hand[g] = 0
  BY Names DEF Init
<1>3. Items(<<>>) = <<>> /\ Held(0) = <<>>
  BY NoItems
<1>4. P \in Lines(11) /\ \A k \in 1 .. 11 : P[k] = <<>>
  BY <1>1, <1>2, <1>3, ReqPlaces, Eleven, Names DEF Chans
<1> HIDE DEF P
<1>5. \A k, a, n : ~Stands(P, k, a, n)
  <2>1. DOMAIN P = 1 .. 11
    BY <1>4 DEF Lines
  <2> QED
    BY <1>1, <1>4, <2>1 DEF Stands
<1>6. Line(P, given) /\ Filtered(P, 3) /\ Whole(P, given)
  BY <1>2, <1>5 DEF Line, Within, Climbs, NoGap, Filtered, Whole, Has
<1> QED
  BY <1>6 DEF ReqOrder, P

LEMMA ReqNext ==
  ASSUME CoreInv, CoreInv', ReqInv, [Next]_vars
  PROVE  ReqInv'
<1>1. TypeInv /\ TypeInv' /\ StartInv
  BY DEF CoreInv
<1>2. CASE UNCHANGED vars
  BY <1>2 DEF vars, envVars, streamVars, chanVars, appVars, ReqInv, ReqFlags, Taking,
     Feeding, ReqOrder, Requests
<1>3. CASE Next /\ mode = "MultiSingle"
  <2>1. ReqFlags /\ ReqOrder
    BY <1>3 DEF ReqInv
  <2>2. ReqFlags' /\ (Taking' => Taking) /\ (cancelled["host"] => cancelled'["host"])
    BY <1>1, <1>3, <2>1, ReqFlagsNext
  <2>3. Feeding' => Feeding
    BY <2>2 DEF Feeding
  <2>4. ReqMove
    BY <1>1, <1>3, <2>1, ReqMoves
  <2>5. ReqOrder'
    BY <1>1, <2>1, <2>3, <2>4, ReqStep
  <2> QED
    BY <2>2, <2>5 DEF ReqInv
<1>4. CASE Next /\ mode # "MultiSingle"
  <2>1. mode' = mode
    BY <1>1, <1>4, EnvNext
  <2> QED
    BY <1>4, <2>1 DEF ReqInv
<1> QED
  BY <1>2, <1>3, <1>4

LEMMA ReqHolds == Spec => [](CoreInv /\ ReqInv)
<1>1. Init => ReqInv
  BY ReqFlagsInit, ReqInit DEF ReqInv
<1>2. CoreInv /\ CoreInv' /\ ReqInv /\ [Next]_vars => ReqInv'
  BY ReqNext
<1> QED
  BY CoreHolds, <1>1, <1>2, PTL DEF Spec

\* What has arrived at the far end of the chain is what was put in at the near
\* end, up to some payload, in its order and without a gap but for what does not
\* unmarshal: no goroutine of the chain overtakes another, and what is lost when
\* the call is cancelled, the handler gives up or the plugin ends is lost behind
\* all that gets through (conn_routing.go, generic.go, the stream of conn.go).
THEOREM ArrivalInOrder == Spec => []ArrivesInOrder
<1>1. CoreInv /\ RespInv /\ ReqInv => ArrivesInOrder
  <2> SUFFICES ASSUME CoreInv, RespInv, ReqInv PROVE ArrivesInOrder
    OBVIOUS
  <2>1. /\ TypeInv /\ mode \in {"SingleMulti", "MultiSingle"}
        /\ sent \in Nat /\ given \in Nat /\ got \in Seq(Payloads)
    <3>1. TypeInv
      BY DEF CoreInv
    <3>2. mode \in {"SingleMulti", "MultiSingle"} /\ sent \in Nat /\ given \in Nat
      BY <3>1, CallsAssumption DEF TypeInv, TypeOK
    <3> QED
      BY <3>1, <3>2, RespPlaces
  <2>2. CASE mode = "SingleMulti"
    <3> DEFINE P == Responses
    <3>1. P \in Lines(7) /\ P[1] = Items(got) /\ Line(P, sent) /\ Filtered(P, 3)
          /\ 7 \in Nat \ {0}
      BY <2>1, <2>2, RespPlaces DEF RespInv, RespOrder
    <3> HIDE DEF P
    <3>2. \E n \in 0 .. sent : ReadableUpTo(got, n)
      BY <2>1, <3>1, FarEnd
    <3> QED
      BY <2>2, <3>2 DEF ArrivesInOrder
  <2>3. CASE mode = "MultiSingle"
    <3> DEFINE P == Requests
    <3>1. P \in Lines(11) /\ P[1] = Items(got) /\ Line(P, given) /\ Filtered(P, 3)
          /\ 11 \in Nat \ {0}
      BY <2>1, <2>3, ReqPlaces DEF ReqInv, ReqOrder
    <3> HIDE DEF P
    <3>2. \E n \in 0 .. given : ReadableUpTo(got, n)
      BY <2>1, <3>1, FarEnd
    <3> QED
      BY <2>3, <3>2 DEF ArrivesInOrder
  <2> QED
    BY <2>1, <2>2, <2>3
<1> QED
  BY RespHolds, ReqHolds, <1>1, PTL


-----------------------------------------------------------------------------
(* The response of MultiSingle.                                            *)
\* A closed channel of requests says that what fed it has ended.
ReqPipe ==
  /\ closed["rawReqs"] => pc["pumpReqs"] = "done" /\ Over("reqs")
  /\ pc["call"] = "off" => pc["pumpReqs"] = "off"
  /\ pc["pumpReqs"] = "done" => hand["pumpReqs"] = 0
  /\ closed["taken"] => pc["pumpTaken"] = "done" /\ hand["pumpTaken"] = 0 /\ Over("rawTaken")
  /\ closed["rawTaken"] => pc["taker"] = "done" /\ hand["taker"] = 0

LEMMA MultiTypes ==
  ASSUME TypeInv
  PROVE  /\ "host" \in Ends /\ "plugin" \in Ends /\ "host" # "plugin"
         /\ Peer("host") = "plugin" /\ Peer("plugin") = "host" /\ 0 \in Nat
         /\ {"start", "data", "closewrite", "close"} = Flags
         /\ PcOK /\ RoleInv /\ HandInv /\ OrderInv /\ DOMAIN hand = Goroutines
         /\ hand \in [Goroutines -> Nat]
         /\ wire \in [Ends -> Seq(Frames)] /\ recvCh \in [Ends -> Seq(Frames)]
         /\ cancelled \in [Ends -> BOOLEAN] /\ open \in [Ends -> BOOLEAN]
         /\ DOMAIN queue = Chans /\ closed \in [Chans -> BOOLEAN]
         /\ {"taken", "rawTaken", "rawReqs", "reqs"} \subseteq Chans
         /\ To("pumpTaken") = "taken" /\ From("pumpTaken") = "rawTaken"
         /\ To("pumpReqs") = "rawReqs" /\ From("pumpReqs") = "reqs"
<1>1. hand \in [Goroutines -> 0 .. MaxPayloads] /\ 0 .. MaxPayloads \subseteq Nat
  BY CallsAssumption DEF TypeInv, TypeOK
<1>2. hand \in [Goroutines -> Nat]
  BY <1>1
<1> QED
  BY <1>2, Names DEF Flags, TypeInv, TypeOK, PcOK, Chans, To, From

LEMMA ReqPipeNext ==
  ASSUME TypeInv, ReqPipe, Next, mode = "MultiSingle"
  PROVE  ReqPipe'
<1> USE DEF envVars, streamVars, chanVars, appVars, PcOK
<1>0. /\ PcOK /\ HandInv /\ OrderInv /\ DOMAIN hand = Goroutines
      /\ DOMAIN queue = Chans /\ closed \in [Chans -> BOOLEAN]
      /\ {"taken", "rawTaken", "rawReqs", "reqs"} \subseteq Chans
      /\ To("pumpTaken") = "taken" /\ From("pumpTaken") = "rawTaken"
      /\ To("pumpReqs") = "rawReqs" /\ From("pumpReqs") = "reqs"
  BY MultiTypes
<1>1. ASSUME closed' = closed, hand' = hand, queue'["reqs"] = queue["reqs"],
             queue'["rawTaken"] = queue["rawTaken"],
             pc'["pumpReqs"] = pc["pumpReqs"], pc'["pumpTaken"] = pc["pumpTaken"],
             pc'["taker"] = pc["taker"], pc'["call"] = "off" => pc["call"] = "off"
      PROVE  ReqPipe'
  BY <1>1 DEF ReqPipe, Over
<1>2. CASE CallStart
  <2>1. /\ UNCHANGED <<closed, hand, queue>> /\ pc["call"] = "off"
        /\ pc' = [pc EXCEPT !["call"] = "start", !["pumpReqs"] = "run"]
    BY <1>2 DEF CallStart
  <2>2. /\ pc'["call"] = "start" /\ pc'["pumpReqs"] = "run"
        /\ pc'["pumpTaken"] = pc["pumpTaken"] /\ pc'["taker"] = pc["taker"]
    BY <1>0, <2>1, Names
  <2>3. ~closed["rawReqs"]
    BY <2>1 DEF ReqPipe
  <2> QED
    BY <2>1, <2>2, <2>3 DEF ReqPipe, Over
<1>3. CASE \/ CallWritesStart \/ CallStartFails \/ CallRecvs
           \/ CloseEnd("call", "host") \/ CloseEnd("feeder", "host")
           \/ FeederFails \/ FeederEnds \/ FeederSends
  <2>1. /\ UNCHANGED <<closed, hand, queue>>
        /\ pc["call"] # "off" \/ \E x : pc' = [pc EXCEPT !["feeder"] = x]
        /\ \/ \E x \in {"done", "closing"} : pc' = [pc EXCEPT !["call"] = x]
           \/ \E x : pc' = [pc EXCEPT !["feeder"] = x]
           \/ pc' = [pc EXCEPT !["call"] = "recv", !["feeder"] = "run"]
    BY <1>3
    DEF CallWritesStart, CallStartFails, CallRecvs, CallReturns, CloseEnd, FeederFails,
        FeederEnds, FeederSends, Moves
  <2>2. /\ pc'["pumpReqs"] = pc["pumpReqs"] /\ pc'["pumpTaken"] = pc["pumpTaken"]
        /\ pc'["taker"] = pc["taker"] /\ (pc'["call"] = "off" => pc["call"] = "off")
    BY <1>0, <2>1, Names
  <2> QED
    BY <1>1, <2>1, <2>2
<1>4. CASE FeederTakes
  <2>1. /\ UNCHANGED closed /\ queue' = [queue EXCEPT !["rawReqs"] = Tail(@)]
        /\ \E n : hand' = [hand EXCEPT !["feeder"] = n]
        /\ pc' = [pc EXCEPT !["feeder"] = "send"]
    BY <1>4 DEF FeederTakes, Get, Moves
  <2>2. /\ queue'["reqs"] = queue["reqs"] /\ queue'["rawTaken"] = queue["rawTaken"]
        /\ \A g \in {"pumpReqs", "pumpTaken", "taker"} : hand'[g] = hand[g] /\ pc'[g] = pc[g]
        /\ pc'["call"] = pc["call"]
    BY <1>0, <2>1, Names
  <2> QED
    BY <2>1, <2>2 DEF ReqPipe, Over
<1>5. CASE HandlerStarts
  <2>1. /\ UNCHANGED <<closed, hand, queue>> /\ pc["taker"] = "off" /\ pc["pumpTaken"] = "off"
        /\ pc' = [pc EXCEPT !["handler"] = "range", !["taker"] = "recv", !["pumpTaken"] = "run"]
    BY <1>0, <1>5 DEF HandlerStarts, OrderInv
  <2>2. /\ pc'["call"] = pc["call"] /\ pc'["pumpReqs"] = pc["pumpReqs"]
        /\ ~closed["rawTaken"] /\ ~closed["taken"]
    BY <1>0, <2>1, Names DEF ReqPipe
  <2> QED
    BY <2>1, <2>2 DEF ReqPipe, Over
<1>6. CASE \/ HandlerTakes \/ HandlerResponds \/ HandlerStopsEarly \/ HandlerGivesUp
           \/ HandlerSendsResponse \/ HandlerEndsResponse \/ HandlerQuits
           \/ CloseEnd("handler", "plugin") \/ DispatchStart
  <2>1. /\ UNCHANGED <<closed, hand>>
        /\ UNCHANGED queue \/ queue' = [queue EXCEPT !["taken"] = Tail(@)]
        /\ UNCHANGED pc \/ \E x : pc' = [pc EXCEPT !["handler"] = x]
    BY <1>6
    DEF HandlerTakes, HandlerResponds, HandlerStopsEarly, HandlerRespondsIf,
        HandlerGivesUp, HandlerSendsResponse, HandlerEndsResponse, HandlerQuits,
        CloseEnd,
        DispatchStart, Get, Moves
  <2>2. /\ queue'["reqs"] = queue["reqs"] /\ queue'["rawTaken"] = queue["rawTaken"]
        /\ \A g \in {"pumpReqs", "pumpTaken", "taker", "call"} : pc'[g] = pc[g]
    BY <1>0, <2>1, Names
  <2> QED
    BY <1>1, <2>1, <2>2
<1>7. CASE TakerRecvs \/ TakerPushes
  <2>1. /\ pc["taker"] \in {"recv", "push"} /\ UNCHANGED closed
        /\ UNCHANGED queue \/ \E n : queue' = [queue EXCEPT !["rawTaken"] = Append(@, n)]
        /\ \E n : hand' = [hand EXCEPT !["taker"] = n]
        /\ \E x : pc' = [pc EXCEPT !["taker"] = x]
    BY <1>7 DEF TakerRecvs, TakerPushes, Recvs, PassesOn, Put, Moves
  <2>2. /\ ~closed["rawTaken"] /\ ~closed["taken"]
        /\ \A g \in {"pumpReqs", "pumpTaken"} : hand'[g] = hand[g] /\ pc'[g] = pc[g]
        /\ pc'["call"] = pc["call"] /\ queue'["reqs"] = queue["reqs"]
    BY <1>0, <2>1, Names DEF ReqPipe, Over
  <2> QED
    BY <2>1, <2>2 DEF ReqPipe, Over
<1>8. CASE TakerEnds
  <2>1. /\ pc["taker"] = "recv" /\ UNCHANGED <<hand, queue>>
        /\ pc' = [pc EXCEPT !["taker"] = "done"]
        /\ closed' = [closed EXCEPT !["rawTaken"] = TRUE]
    BY <1>8 DEF TakerEnds, CloseChan, Moves
  <2>2. /\ ~closed["rawTaken"] /\ ~closed["taken"] /\ hand["taker"] = 0
        /\ \A g \in {"pumpReqs", "pumpTaken", "call"} : pc'[g] = pc[g]
        /\ pc'["taker"] = "done"
    BY <1>0, <2>1, Names DEF ReqPipe, Over, HandInv
  <2>3. \A c \in {"reqs", "rawReqs", "taken"} : closed'[c] = closed[c]
    BY <1>0, <2>1
  <2> QED
    BY <2>1, <2>2, <2>3 DEF ReqPipe, Over
<1>9. CASE PumpTakes("pumpReqs") \/ PumpPuts("pumpReqs")
  <2>1. /\ pc["pumpReqs"] = "run" /\ UNCHANGED <<closed, pc>>
        /\ \E n : hand' = [hand EXCEPT !["pumpReqs"] = n]
        /\ \/ queue' = [queue EXCEPT !["reqs"] = Tail(@)]
           \/ \E n : queue' = [queue EXCEPT !["rawReqs"] = Append(@, n)]
    BY <1>0, <1>9 DEF PumpTakes, PumpPuts, Get, Put
  <2>2. /\ ~closed["rawReqs"] /\ queue'["rawTaken"] = queue["rawTaken"]
        /\ hand'["pumpTaken"] = hand["pumpTaken"] /\ hand'["taker"] = hand["taker"]
    BY <1>0, <2>1, Names DEF ReqPipe
  <2> QED
    BY <2>1, <2>2 DEF ReqPipe, Over
<1>10. CASE PumpTakes("pumpTaken") \/ PumpPuts("pumpTaken")
  <2>1. /\ pc["pumpTaken"] = "run" /\ UNCHANGED <<closed, pc>>
        /\ \E n : hand' = [hand EXCEPT !["pumpTaken"] = n]
        /\ \/ queue' = [queue EXCEPT !["rawTaken"] = Tail(@)]
           \/ \E n : queue' = [queue EXCEPT !["taken"] = Append(@, n)]
    BY <1>0, <1>10 DEF PumpTakes, PumpPuts, Get, Put
  <2>2. /\ ~closed["taken"] /\ queue'["reqs"] = queue["reqs"]
        /\ hand'["pumpReqs"] = hand["pumpReqs"] /\ hand'["taker"] = hand["taker"]
    BY <1>0, <2>1, Names DEF ReqPipe
  <2> QED
    BY <2>1, <2>2 DEF ReqPipe, Over
<1>11. CASE PumpEnds("pumpReqs")
  <2>1. /\ hand["pumpReqs"] = 0 /\ Over("reqs") /\ pc["pumpReqs"] = "run"
        /\ pc' = [pc EXCEPT !["pumpReqs"] = "done"]
        /\ closed' = [closed EXCEPT !["rawReqs"] = TRUE] /\ UNCHANGED <<queue, hand>>
    BY <1>0, <1>11 DEF PumpEnds, CloseChan, Moves
  <2>2. /\ pc'["pumpReqs"] = "done" /\ pc["call"] # "off"
        /\ \A g \in {"pumpTaken", "taker", "call"} : pc'[g] = pc[g]
        /\ \A c \in {"reqs", "rawTaken", "taken"} : closed'[c] = closed[c]
    BY <1>0, <2>1, Names DEF ReqPipe
  <2> QED
    BY <2>1, <2>2 DEF ReqPipe, Over
<1>12. CASE PumpEnds("pumpTaken")
  <2>1. /\ hand["pumpTaken"] = 0 /\ Over("rawTaken") /\ pc["pumpTaken"] = "run"
        /\ pc' = [pc EXCEPT !["pumpTaken"] = "done"]
        /\ closed' = [closed EXCEPT !["taken"] = TRUE] /\ UNCHANGED <<queue, hand>>
    BY <1>0, <1>12 DEF PumpEnds, CloseChan, Moves
  <2>2. /\ pc'["pumpTaken"] = "done"
        /\ \A g \in {"pumpReqs", "taker", "call"} : pc'[g] = pc[g]
        /\ \A c \in {"reqs", "rawReqs", "rawTaken"} : closed'[c] = closed[c]
    BY <1>0, <2>1, Names
  <2> QED
    BY <2>1, <2>2 DEF ReqPipe, Over
<1>13. CASE Dispatch("host") \/ Dispatch("plugin") \/ LoopFails \/ ContextEnds
  BY <1>1, <1>13 DEF Dispatch, LoopFails, ContextEnds
<1>14. CASE AppGives
  <2>1. /\ ~closed["reqs"] /\ UNCHANGED <<closed, hand, pc>>
        /\ \E n : queue' = [queue EXCEPT !["reqs"] = Append(@, n)]
    BY <1>14 DEF AppGives, Put
  <2>2. ~closed["rawReqs"] /\ queue'["rawTaken"] = queue["rawTaken"]
    BY <1>0, <2>1 DEF ReqPipe, Over
  <2> QED
    BY <2>1, <2>2 DEF ReqPipe, Over
<1>15. CASE AppCloses
  <2>1. UNCHANGED <<queue, hand, pc>> /\ closed' = [closed EXCEPT !["reqs"] = TRUE]
    BY <1>15 DEF AppCloses, CloseChan
  <2>2. /\ closed'["reqs"]
        /\ \A c \in {"rawReqs", "rawTaken", "taken"} : closed'[c] = closed[c]
    BY <1>0, <2>1
  <2> QED
    BY <2>1, <2>2 DEF ReqPipe, Over
<1>16. CASE Crash
  <2>1. /\ UNCHANGED <<closed, hand, queue>> /\ pc'["taker"] = "done"
        /\ pc'["pumpTaken"] = "done" /\ pc'["pumpReqs"] = pc["pumpReqs"]
        /\ pc'["call"] = pc["call"]
    BY <1>16, Names DEF Crash, OfPlugin
  <2> QED
    BY <2>1 DEF ReqPipe, Over
<1> QED
  BY <1>2, <1>3, <1>4, <1>5, <1>6, <1>7, <1>8, <1>9, <1>10, <1>11, <1>12, <1>13, <1>14,
     <1>15, <1>16, MultiNext DEF PumpSteps


\* A CloseWrite frame ends what the handler is given.
Ended(q) == \E k \in DOMAIN q : q[k].flag = "closewrite"
Shut(q) == \E k \in DOMAIN q : q[k].flag = "close"
EndsData(q) == \A j, k \in DOMAIN q : j < k /\ q[j].flag = "closewrite" => ~IsData(q[k])

LEMMA EndPut ==
  ASSUME NEW q \in Seq(Frames), NEW f \in Frames
  PROVE  /\ NoData(Append(q, f)) <=> NoData(q) /\ ~IsData(f)
         /\ Ended(Append(q, f)) <=> Ended(q) \/ f.flag = "closewrite"
         /\ Shut(Append(q, f)) <=> Shut(q) \/ f.flag = "close"
         /\ EndsData(q) /\ (IsData(f) => ~Ended(q)) => EndsData(Append(q, f))
<1> DEFINE r == Append(q, f)
           n == Len(q) + 1
<1>1. /\ \A k \in DOMAIN q : k \in DOMAIN r /\ r[k] = q[k] /\ k \in Nat /\ k < n
      /\ n \in DOMAIN r /\ n \in Nat /\ r[n] = f
      /\ \A k \in DOMAIN r : k \in DOMAIN q \/ k = n
  <2>1. /\ DOMAIN q = 1 .. Len(q) /\ DOMAIN r = 1 .. (Len(q) + 1) /\ Len(q) \in Nat
        /\ \A k \in DOMAIN q : r[k] = q[k]
        /\ r[Len(q) + 1] = f
    BY PutType
  <2> QED
    BY <2>1
<1> HIDE DEF r, n
<1>2. NoData(r) <=> NoData(q) /\ ~IsData(f)
  BY <1>1 DEF NoData
<1>3. /\ Ended(r) <=> Ended(q) \/ f.flag = "closewrite"
      /\ Shut(r) <=> Shut(q) \/ f.flag = "close"
  BY <1>1 DEF Ended, Shut
<1>4. ASSUME EndsData(q), IsData(f) => ~Ended(q)
      PROVE  EndsData(r)
  <2> SUFFICES ASSUME NEW j \in DOMAIN r, NEW k \in DOMAIN r, j < k,
                      r[j].flag = "closewrite"
               PROVE  ~IsData(r[k])
    BY DEF EndsData
  <2>1. CASE k \in DOMAIN q /\ j \in DOMAIN q
    BY <1>1, <1>4, <2>1 DEF EndsData
  <2>2. CASE k = n /\ j \in DOMAIN q
    BY <1>1, <1>4, <2>2 DEF Ended
  <2>3. ~(j = n)
    BY <1>1
  <2> QED
    BY <1>1, <2>1, <2>2, <2>3
<1> QED
  BY <1>2, <1>3, <1>4 DEF r

LEMMA EndTake ==
  ASSUME NEW q \in Seq(Frames), q # <<>>
  PROVE  /\ NoData(q) <=> NoData(Tail(q)) /\ ~IsData(Head(q))
         /\ Ended(q) <=> Ended(Tail(q)) \/ Head(q).flag = "closewrite"
         /\ Shut(q) <=> Shut(Tail(q)) \/ Head(q).flag = "close"
         /\ EndsData(q) => /\ EndsData(Tail(q))
                           /\ Head(q).flag = "closewrite" => NoData(q)
<1> DEFINE r == Tail(q)
           f == Head(q)
<1>1. /\ f = q[1] /\ 1 \in DOMAIN q
      /\ \A k \in DOMAIN r : k \in Nat /\ k # 0 /\ k + 1 \in DOMAIN q /\ r[k] = q[k + 1]
      /\ \A k \in DOMAIN q : k = 1 \/ (k - 1 \in DOMAIN r /\ r[k - 1] = q[k] /\ 1 < k)
  <2>1. /\ f = q[1] /\ DOMAIN q = 1 .. Len(q) /\ Len(q) \in Nat \ {0}
        /\ DOMAIN r = 1 .. (Len(q) - 1)
        /\ \A k \in DOMAIN r : k + 1 \in DOMAIN q /\ r[k] = q[k + 1]
    BY TakeType
  <2>2. \A k \in DOMAIN q : k = 1 \/ (k - 1 \in DOMAIN r /\ (k - 1) + 1 = k /\ 1 < k)
    BY <2>1
  <2> HIDE DEF r, f
  <2> QED
    BY <2>1, <2>2
<1> HIDE DEF r, f
<1>2. NoData(q) <=> NoData(r) /\ ~IsData(f)
  BY <1>1 DEF NoData
<1>3. /\ Ended(q) <=> Ended(r) \/ f.flag = "closewrite"
      /\ Shut(q) <=> Shut(r) \/ f.flag = "close"
  BY <1>1 DEF Ended, Shut
<1>4. ASSUME EndsData(q)
      PROVE  EndsData(r) /\ (f.flag = "closewrite" => NoData(q))
  <2>1. ASSUME NEW j \in DOMAIN r, NEW k \in DOMAIN r, j < k, r[j].flag = "closewrite"
        PROVE  ~IsData(r[k])
    <3>1. j + 1 < k + 1 /\ j + 1 \in DOMAIN q /\ k + 1 \in DOMAIN q
      BY <1>1, <2>1
    <3> QED
      BY <1>1, <1>4, <2>1, <3>1 DEF EndsData
  <2>2. ASSUME f.flag = "closewrite", NEW k \in DOMAIN q
        PROVE  ~IsData(q[k])
    <3>1. CASE k = 1
      BY <1>1, <2>2, <3>1 DEF IsData
    <3>2. CASE 1 < k
      BY <1>1, <1>4, <2>2, <3>2 DEF EndsData
    <3> QED
      BY <1>1, <3>1, <3>2
  <2> QED
    BY <2>1, <2>2 DEF EndsData, NoData
<1> QED
  BY <1>2, <1>3, <1>4 DEF r, f


Sealed ==
  /\ EndsData(recvCh["plugin"]) /\ EndsData(wire["plugin"])
  /\ Ended(recvCh["plugin"]) => NoData(wire["plugin"])
  /\ Ended(recvCh["plugin"]) \/ Ended(wire["plugin"]) => pc["feeder"] = "done"

LEMMA SealedNext ==
  ASSUME TypeInv, StartInv, Sealed, Next, mode = "MultiSingle"
  PROVE  Sealed'
<1> USE DEF envVars, streamVars, chanVars, appVars, PcOK
<1> DEFINE w == wire["plugin"]
           r == recvCh["plugin"]
<1>0. /\ "host" \in Ends /\ "plugin" \in Ends /\ "host" # "plugin"
      /\ Peer("host") = "plugin" /\ Peer("plugin") = "host" /\ 0 \in Nat
      /\ {"start", "data", "closewrite", "close"} = Flags
      /\ PcOK /\ hand \in [Goroutines -> Nat]
      /\ wire \in [Ends -> Seq(Frames)] /\ recvCh \in [Ends -> Seq(Frames)]
      /\ w \in Seq(Frames) /\ r \in Seq(Frames)
  BY MultiTypes
<1>1. ASSUME wire'["plugin"] = w, recvCh'["plugin"] = r,
             pc["feeder"] = "done" => pc'["feeder"] = "done"
      PROVE  Sealed'
  BY <1>1 DEF Sealed
\* A frame that is written, ...
<1>2. ASSUME NEW f \in Frames, wire'["plugin"] = Append(w, f), recvCh'["plugin"] = r,
             IsData(f) => pc["feeder"] # "done",
             pc["feeder"] = "done" \/ f.flag = "closewrite" => pc'["feeder"] = "done"
      PROVE  Sealed'
  <2>1. /\ NoData(Append(w, f)) <=> NoData(w) /\ ~IsData(f)
        /\ Ended(Append(w, f)) <=> Ended(w) \/ f.flag = "closewrite"
        /\ EndsData(w) /\ (IsData(f) => ~Ended(w)) => EndsData(Append(w, f))
    BY <1>0, EndPut
  <2>2. IsData(f) => ~Ended(w) /\ ~Ended(r)
    BY <1>2 DEF Sealed
  <2> HIDE DEF w, r
  <2>3. EndsData(wire'["plugin"]) /\ (Ended(r) => NoData(wire'["plugin"]))
    BY <1>2, <2>1, <2>2 DEF Sealed, w, r
  <2>4. Ended(wire'["plugin"]) <=> Ended(w) \/ f.flag = "closewrite"
    BY <1>2, <2>1
  <2> QED
    BY <1>2, <2>3, <2>4 DEF Sealed, w, r
\* ... and one that is taken from the wire and may go to recvCh.
<1>3. ASSUME w # <<>>, wire'["plugin"] = Tail(w), pc'["feeder"] = pc["feeder"],
             recvCh'["plugin"] = r \/ recvCh'["plugin"] = Append(r, Head(w))
      PROVE  Sealed'
  <2> DEFINE f == Head(w)
  <2>1. /\ NoData(w) <=> NoData(Tail(w)) /\ ~IsData(f)
        /\ Ended(w) <=> Ended(Tail(w)) \/ f.flag = "closewrite"
        /\ EndsData(w) => EndsData(Tail(w)) /\ (f.flag = "closewrite" => NoData(w))
        /\ f \in Frames
    BY <1>0, <1>3, EndTake, TakeType
  <2> HIDE DEF f
  <2>2. /\ Ended(Append(r, f)) <=> Ended(r) \/ f.flag = "closewrite"
        /\ EndsData(r) /\ (IsData(f) => ~Ended(r)) => EndsData(Append(r, f))
    BY <1>0, <2>1, EndPut
  <2>3. /\ EndsData(r) /\ EndsData(w) /\ (Ended(r) => NoData(w))
        /\ Ended(r) \/ Ended(w) => pc["feeder"] = "done"
    BY DEF Sealed
  <2>4. recvCh'["plugin"] = r \/ recvCh'["plugin"] = Append(r, f)
    BY <1>3 DEF f
  <2> HIDE DEF w, r
  <2>5. EndsData(recvCh'["plugin"]) /\ EndsData(wire'["plugin"])
    BY <1>3, <2>1, <2>2, <2>3, <2>4
  <2>6. Ended(recvCh'["plugin"]) => NoData(wire'["plugin"])
    BY <1>3, <2>1, <2>2, <2>3, <2>4
  <2>7. Ended(recvCh'["plugin"]) \/ Ended(wire'["plugin"]) => pc'["feeder"] = "done"
    BY <1>3, <2>1, <2>2, <2>3, <2>4
  <2> QED
    BY <2>5, <2>6, <2>7 DEF Sealed
<1>4. CASE \/ CallStart \/ CallStartFails \/ CallRecvs \/ FeederTakes \/ FeederFails
           \/ HandlerStarts \/ HandlerTakes \/ HandlerResponds \/ HandlerStopsEarly
           \/ HandlerGivesUp
  <2>1. /\ UNCHANGED wire /\ recvCh'["plugin"] = r
        /\ \/ UNCHANGED pc
           \/ pc' = [pc EXCEPT !["call"] = "start", !["pumpReqs"] = "run"]
           \/ \E x : pc' = [pc EXCEPT !["call"] = x]
           \/ pc["feeder"] # "done"
           \/ \E x : pc' = [pc EXCEPT !["handler"] = x]
           \/ pc' = [pc EXCEPT !["handler"] = "range", !["taker"] = "recv", !["pumpTaken"] = "run"]
    BY <1>0, <1>4
    DEF CallStart, CallStartFails, CallRecvs, CallReturns, FeederTakes, FeederFails,
        Cancel,
        HandlerStarts, HandlerTakes, HandlerResponds, HandlerStopsEarly,
        HandlerRespondsIf,
        HandlerGivesUp, Moves
  <2>2. pc["feeder"] = "done" => pc'["feeder"] = "done"
    BY <1>0, <2>1, Names
  <2> QED
    BY <1>1, <2>1, <2>2
<1>5. CASE CallWritesStart
  <2>1. /\ pc["call"] = "start" /\ Write("host", Frame("start", 0)) /\ UNCHANGED recvCh
        /\ wire'["plugin"] = Append(w, Frame("start", 0))
    BY <1>0, <1>5 DEF CallWritesStart, Write
  <2>2. pc["feeder"] # "done"
    BY <2>1 DEF StartInv
  <2>3. Frame("start", 0) \in Frames /\ Frame("start", 0).flag = "start"
    BY <1>0, FrameType
  <2> QED
    BY <1>2, <2>1, <2>2, <2>3 DEF IsData
<1>6. CASE CloseEnd("call", "host") \/ CloseEnd("feeder", "host")
  <2>1. /\ UNCHANGED recvCh
        /\ UNCHANGED wire \/ wire'["plugin"] = Append(w, Frame("close", 0))
        /\ \E g \in {"call", "feeder"} : pc' = [pc EXCEPT ![g] = "done"]
    BY <1>0, <1>6 DEF CloseEnd, Moves
  <2>2. pc["feeder"] = "done" => pc'["feeder"] = "done"
    BY <1>0, <2>1, Names
  <2>3. Frame("close", 0) \in Frames /\ Frame("close", 0).flag = "close"
    BY <1>0, FrameType
  <2> QED
    BY <1>1, <1>2, <2>1, <2>2, <2>3 DEF IsData
<1>7. CASE FeederSends
  <2>1. /\ UNCHANGED recvCh /\ pc["feeder"] = "send"
        /\ wire'["plugin"] = Append(w, Frame("data", hand["feeder"]))
    BY <1>0, <1>7 DEF FeederSends, Send, Write, Moves
  <2>2. /\ Frame("data", hand["feeder"]) \in Frames
        /\ Frame("data", hand["feeder"]).flag = "data"
    <3>1. hand["feeder"] \in Nat
      BY <1>0, Names
    <3>2. /\ Frame("data", hand["feeder"]) \in Frames
          /\ Frame("data", hand["feeder"]).flag = "data"
      BY <3>1, FrameType DEF Flags
    <3>3. Frame("closewrite", 0) \in Frames /\ Frame("closewrite", 0).flag = "closewrite"
      BY FrameType DEF Flags
    <3> QED
      BY <3>2, <3>3
  <2> QED
    BY <1>2, <2>1, <2>2
<1>8. CASE FeederEnds
  <2>1. /\ UNCHANGED recvCh /\ pc' = [pc EXCEPT !["feeder"] = "done"]
        /\ UNCHANGED wire \/ wire'["plugin"] = Append(w, Frame("closewrite", 0))
    BY <1>0, <1>8 DEF FeederEnds, Write, Moves
  <2>2. pc'["feeder"] = "done"
    BY <1>0, <2>1, Names
  <2>3. Frame("closewrite", 0) \in Frames /\ Frame("closewrite", 0).flag = "closewrite"
    BY <1>0, FrameType
  <2> QED
    BY <1>1, <1>2, <2>1, <2>2, <2>3 DEF IsData
<1>9. CASE \/ HandlerSendsResponse \/ HandlerEndsResponse \/ HandlerQuits
           \/ CloseEnd("handler", "plugin")
  <2>1. /\ wire'["plugin"] = w /\ UNCHANGED recvCh
        /\ \E x : pc' = [pc EXCEPT !["handler"] = x]
    BY <1>0, <1>9 DEF HandlerSendsResponse, HandlerEndsResponse, HandlerQuits, CloseEnd,
       Send, Write, Cancel, Moves
  <2>2. pc'["feeder"] = pc["feeder"]
    BY <1>0, <2>1, Names
  <2> QED
    BY <1>1, <2>1, <2>2
<1>10. CASE TakerPushes \/ TakerEnds \/ PumpSteps("pumpReqs") \/ PumpSteps("pumpTaken")
  <2>1. /\ UNCHANGED <<wire, recvCh>>
        /\ \/ UNCHANGED pc
           \/ \E g \in {"taker", "pumpReqs", "pumpTaken"} : \E x : pc' = [pc EXCEPT ![g] = x]
    BY <1>10
    DEF TakerPushes, PassesOn, TakerEnds, PumpSteps, PumpTakes, PumpPuts, PumpEnds,
       Moves
  <2>2. pc'["feeder"] = pc["feeder"]
    BY <1>0, <2>1, Names
  <2> QED
    BY <1>1, <2>1, <2>2
<1>11. CASE TakerRecvs
  <2>1. /\ UNCHANGED wire /\ r # <<>> /\ recvCh'["plugin"] = Tail(r)
        /\ pc' = [pc EXCEPT !["taker"] = "push"]
    BY <1>0, <1>11 DEF TakerRecvs, Recvs, Recv, Arrived, Moves
  <2>2. pc'["feeder"] = pc["feeder"]
    BY <1>0, <2>1, Names
  <2>3. (Ended(Tail(r)) => Ended(r)) /\ (EndsData(r) => EndsData(Tail(r)))
    BY <1>0, <2>1, EndTake
  <2> HIDE DEF r
  <2> QED
    BY <2>1, <2>2, <2>3 DEF Sealed, r
<1>12. CASE Dispatch("host") \/ LoopFails \/ AppGives \/ AppCloses \/ ContextEnds
  <2>1. wire'["plugin"] = w /\ recvCh'["plugin"] = r /\ UNCHANGED pc
    BY <1>0, <1>12 DEF Dispatch, LoopFails, AppGives, AppCloses, ContextEnds
  <2> QED
    BY <1>1, <2>1
<1>13. CASE Dispatch("plugin")
  <2>1. /\ w # <<>> /\ wire'["plugin"] = Tail(w) /\ UNCHANGED pc
        /\ recvCh'["plugin"] = r \/ recvCh'["plugin"] = Append(r, Head(w))
    BY <1>0, <1>13 DEF Dispatch
  <2> QED
    BY <1>3, <2>1
<1>14. CASE DispatchStart
  <2>1. /\ w # <<>> /\ wire'["plugin"] = Tail(w) /\ UNCHANGED recvCh
        /\ \E x : pc' = [pc EXCEPT !["handler"] = x]
    BY <1>0, <1>14 DEF DispatchStart
  <2>2. pc'["feeder"] = pc["feeder"]
    BY <1>0, <2>1, Names
  <2> QED
    BY <1>3, <2>1, <2>2
<1>15. CASE Crash
  <2>1. /\ wire'["plugin"] = <<>> /\ UNCHANGED recvCh /\ pc'["feeder"] = pc["feeder"]
        /\ DOMAIN <<>> = {}
    BY <1>0, <1>15, Names DEF Crash, OfPlugin
  <2> QED
    BY <2>1 DEF Sealed, Ended, EndsData, NoData
<1> QED
  BY <1>4, <1>5, <1>6, <1>7, <1>8, <1>9, <1>10, <1>11, <1>12, <1>13, <1>14, <1>15, MultiNext


\* The call may still be told of a response.  The stream is closed at the host
\* before that only by the goroutine that sends the requests.
Awaiting == reply = "none" /\ (open["host"] \/ pc["call"] = "off")
WaitInv ==
  /\ pc["call"] = "off" => ~open["host"]
  /\ pc["call"] \in {"off", "start", "recv"} => reply = "none"
  /\ pc["call"] = "closing" => reply # "none"
  /\ Awaiting /\ cancelled["host"] => pc["feeder"] \in {"closing", "done"}
  /\ Awaiting /\ Taking => ~cancelled["plugin"] /\ ~Shut(wire["plugin"])

LEMMA WaitNext ==
  ASSUME TypeInv, StartInv, ReqFlags, WaitInv, Next, mode = "MultiSingle"
  PROVE  WaitInv' /\ (Awaiting' => Awaiting)
<1> USE DEF envVars, streamVars, chanVars, appVars, PcOK
<1> DEFINE w == wire["plugin"]
<1>0. /\ "host" \in Ends /\ "plugin" \in Ends /\ "host" # "plugin"
      /\ Peer("host") = "plugin" /\ Peer("plugin") = "host" /\ 0 \in Nat
      /\ {"start", "data", "closewrite", "close"} = Flags
      /\ PcOK /\ hand \in [Goroutines -> Nat]
      /\ wire \in [Ends -> Seq(Frames)] /\ cancelled \in [Ends -> BOOLEAN]
      /\ open \in [Ends -> BOOLEAN] /\ w \in Seq(Frames)
  BY MultiTypes
<1>1. Taking' => Taking
  BY ReqFlagsNext
<1>2. ASSUME NEW f \in Frames, f.flag # "close", wire'["plugin"] = Append(w, f)
      PROVE  Shut(wire'["plugin"]) => Shut(w)
  <2>1. Shut(Append(w, f)) <=> Shut(w) \/ f.flag = "close"
    BY <1>0, EndPut
  <2> QED
    BY <1>2, <2>1
<1>3. ASSUME w # <<>>, wire'["plugin"] = Tail(w)
      PROVE  /\ Shut(wire'["plugin"]) => Shut(w)
             /\ Head(w).flag = "close" => Shut(w)
  <2>1. Shut(w) <=> Shut(Tail(w)) \/ Head(w).flag = "close"
    BY <1>0, <1>3, EndTake
  <2> QED
    BY <1>3, <2>1
\* The step leaves the call alone, ...
<1>4. ASSUME UNCHANGED reply, pc'["call"] = pc["call"], open'["host"] = open["host"],
             cancelled'["host"] = cancelled["host"],
             pc["feeder"] \in {"closing", "done"} => pc'["feeder"] \in {"closing", "done"},
             Taking' => /\ cancelled'["plugin"] = cancelled["plugin"]
                        /\ Shut(wire'["plugin"]) => Shut(w)
      PROVE  WaitInv' /\ (Awaiting' => Awaiting)
  <2>1. Awaiting' <=> Awaiting
    BY <1>4 DEF Awaiting
  <2> QED
    BY <1>1, <1>4, <2>1 DEF WaitInv
\* ... or ends it.
<1>5. ASSUME ~Awaiting', pc'["call"] = "off" => ~open'["host"],
             pc'["call"] \in {"off", "start", "recv"} => reply' = "none",
             pc'["call"] = "closing" => reply' # "none"
      PROVE  WaitInv' /\ (Awaiting' => Awaiting)
  BY <1>5 DEF WaitInv
<1>6. CASE CallStart
  <2>1. /\ pc["call"] = "off" /\ UNCHANGED <<wire, cancelled, reply>>
        /\ pc' = [pc EXCEPT !["call"] = "start", !["pumpReqs"] = "run"]
    BY <1>6 DEF CallStart
  <2>2. pc'["call"] = "start" /\ pc'["feeder"] = pc["feeder"]
    BY <1>0, <2>1, Names
  <2>3. Awaiting /\ reply = "none"
    BY <2>1 DEF WaitInv, Awaiting
  <2> QED
    BY <1>1, <2>1, <2>2, <2>3 DEF WaitInv
<1>7. CASE CallWritesStart
  <2>1. /\ pc["call"] = "start" /\ UNCHANGED <<recvCh, cancelled, open, reply>>
        /\ wire'["plugin"] = Append(w, Frame("start", 0))
        /\ pc' = [pc EXCEPT !["call"] = "recv", !["feeder"] = "run"]
    BY <1>0, <1>7 DEF CallWritesStart, Write
  <2>2. pc'["call"] = "recv" /\ pc["feeder"] = "off"
    BY <1>0, <2>1, Names DEF StartInv
  <2>3. Frame("start", 0) \in Frames /\ Frame("start", 0).flag = "start"
    BY <1>0, FrameType
  <2>4. Shut(wire'["plugin"]) => Shut(w)
    BY <1>2, <2>1, <2>3
  <2> HIDE DEF w
  <2>5. Awaiting' <=> Awaiting
    BY <2>1, <2>2 DEF Awaiting
  <2>6. reply = "none" /\ ~(Awaiting /\ cancelled["host"])
    BY <2>1, <2>2 DEF WaitInv
  <2> QED
    BY <1>1, <2>1, <2>2, <2>4, <2>5, <2>6 DEF WaitInv, w
<1>8. CASE CallStartFails
  <2>1. reply' = "error" /\ pc' = [pc EXCEPT !["call"] = "done"]
    BY <1>8 DEF CallStartFails, Moves
  <2>2. pc'["call"] = "done" /\ ~Awaiting'
    BY <1>0, <2>1, Names DEF Awaiting
  <2> QED
    BY <1>5, <2>2
<1>9. CASE CallRecvs
  <2>1. reply' \in {"response", "nil", "error"} /\ pc' = [pc EXCEPT !["call"] = "closing"]
    BY <1>9 DEF CallRecvs, CallReturns
  <2>2. pc'["call"] = "closing" /\ ~Awaiting' /\ reply' # "none"
    BY <1>0, <2>1, Names DEF Awaiting
  <2> QED
    BY <1>5, <2>2
<1>10. CASE CloseEnd("call", "host")
  <2>1. pc["call"] = "closing" /\ UNCHANGED reply /\ pc' = [pc EXCEPT !["call"] = "done"]
    BY <1>10 DEF CloseEnd, Moves
  <2>2. pc'["call"] = "done" /\ ~Awaiting'
    BY <1>0, <2>1, Names DEF WaitInv, Awaiting
  <2> QED
    BY <1>5, <2>2
<1>11. CASE CloseEnd("feeder", "host")
  <2>1. pc["feeder"] = "closing" /\ UNCHANGED reply /\ pc' = [pc EXCEPT !["feeder"] = "done"]
        /\ open' = [open EXCEPT !["host"] = FALSE]
    BY <1>11 DEF CloseEnd, Moves
  <2>2. pc'["call"] = pc["call"] /\ ~open'["host"] /\ pc["call"] # "off"
    BY <1>0, <2>1, Names DEF StartInv
  <2>3. ~Awaiting'
    BY <2>2 DEF Awaiting
  <2> QED
    BY <1>5, <2>1, <2>2, <2>3 DEF WaitInv
<1>12. CASE FeederTakes \/ FeederSends \/ FeederEnds
  <2>0. /\ pc["feeder"] \in {"run", "send"} /\ UNCHANGED reply
        /\ \/ UNCHANGED <<wire, cancelled, open>>
           \/ Write("host", Frame("data", hand["feeder"]))
           \/ Write("host", Frame("closewrite", 0))
        /\ \E x : pc' = [pc EXCEPT !["feeder"] = x]
    <3>1. FeederTakes \/ FeederSends =>
            /\ pc["feeder"] \in {"run", "send"} /\ UNCHANGED reply
            /\ \/ UNCHANGED <<wire, cancelled, open>>
               \/ Write("host", Frame("data", hand["feeder"]))
            /\ \E x : pc' = [pc EXCEPT !["feeder"] = x]
      BY DEF FeederTakes, FeederSends, Send, Moves
    <3>2. FeederEnds =>
            /\ pc["feeder"] = "run" /\ UNCHANGED reply
            /\ \/ UNCHANGED <<wire, cancelled, open>>
               \/ Write("host", Frame("closewrite", 0))
            /\ pc' = [pc EXCEPT !["feeder"] = "done"]
      BY DEF FeederEnds, Moves
    <3> QED
      BY <1>12, <3>1, <3>2
  <2>1. /\ UNCHANGED <<cancelled, open, reply>> /\ pc["feeder"] \in {"run", "send"}
        /\ \/ UNCHANGED wire
           \/ wire'["plugin"] = Append(w, Frame("data", hand["feeder"]))
           \/ wire'["plugin"] = Append(w, Frame("closewrite", 0))
        /\ \E x : pc' = [pc EXCEPT !["feeder"] = x]
    BY <1>0, <2>0 DEF Write
  <2>2. pc'["call"] = pc["call"]
    BY <1>0, <2>1, Names
  <2>3. /\ \A f \in {Frame("data", hand["feeder"]), Frame("closewrite", 0)} :
             f \in Frames /\ f.flag # "close"
    <3>1. hand["feeder"] \in Nat
      BY <1>0, Names
    <3>2. /\ Frame("data", hand["feeder"]) \in Frames
          /\ Frame("data", hand["feeder"]).flag = "data"
      BY <3>1, FrameType DEF Flags
    <3>3. Frame("closewrite", 0) \in Frames /\ Frame("closewrite", 0).flag = "closewrite"
      BY FrameType DEF Flags
    <3> QED
      BY <3>2, <3>3
  <2>4. Shut(wire'["plugin"]) => Shut(w)
    BY <1>2, <2>1, <2>3
  <2> QED
    BY <1>4, <2>1, <2>2, <2>4
<1>13. CASE FeederFails
  <2>1. /\ UNCHANGED <<wire, open, reply>> /\ pc' = [pc EXCEPT !["feeder"] = "closing"]
        /\ cancelled' = [cancelled EXCEPT !["host"] = TRUE]
    BY <1>13 DEF FeederFails, Cancel, Moves
  <2>2. pc'["call"] = pc["call"] /\ pc'["feeder"] = "closing"
        /\ cancelled'["plugin"] = cancelled["plugin"]
    BY <1>0, <2>1, Names
  <2>3. Awaiting' <=> Awaiting
    BY <2>1, <2>2 DEF Awaiting
  <2> QED
    BY <1>1, <2>1, <2>2, <2>3 DEF WaitInv
<1>14. CASE \/ HandlerStarts \/ HandlerTakes \/ HandlerResponds \/ HandlerStopsEarly
            \/ HandlerGivesUp \/ DispatchStart
  <2>1. /\ UNCHANGED <<cancelled, reply>> /\ open'["host"] = open["host"]
        /\ \/ UNCHANGED wire
           \/ w # <<>> /\ wire'["plugin"] = Tail(w)
        /\ \/ UNCHANGED pc
           \/ \E x : pc' = [pc EXCEPT !["handler"] = x]
           \/ pc' = [pc EXCEPT !["handler"] = "range", !["taker"] = "recv", !["pumpTaken"] = "run"]
    BY <1>0, <1>14
    DEF HandlerStarts, HandlerTakes, HandlerResponds, HandlerStopsEarly,
        HandlerRespondsIf,
        HandlerGivesUp, DispatchStart, Moves
  <2>2. pc'["call"] = pc["call"] /\ pc'["feeder"] = pc["feeder"]
    BY <1>0, <2>1, Names
  <2>3. Shut(wire'["plugin"]) => Shut(w)
    BY <1>3, <2>1
  <2> QED
    BY <1>4, <2>1, <2>2, <2>3
<1>15. CASE \/ HandlerSendsResponse \/ HandlerEndsResponse \/ HandlerQuits
            \/ CloseEnd("handler", "plugin")
  <2>1. /\ UNCHANGED reply /\ open'["host"] = open["host"]
        /\ cancelled'["host"] = cancelled["host"]
        /\ \E x \in {"end", "quit", "closing", "done"} : pc' = [pc EXCEPT !["handler"] = x]
    BY <1>0, <1>15
    DEF HandlerSendsResponse, HandlerEndsResponse, HandlerQuits, CloseEnd,
       Send, Write, Cancel, Moves
  <2>2. pc'["call"] = pc["call"] /\ pc'["feeder"] = pc["feeder"] /\ ~Taking'
    BY <1>0, <2>1, Names DEF Taking
  <2> QED
    BY <1>4, <2>1, <2>2
<1>16. CASE \/ TakerRecvs \/ TakerPushes \/ TakerEnds \/ PumpSteps("pumpReqs")
            \/ PumpSteps("pumpTaken")
  <2>1. /\ UNCHANGED <<wire, cancelled, open, reply>>
        /\ \/ UNCHANGED pc
           \/ \E g \in {"taker", "pumpReqs", "pumpTaken"} : \E x : pc' = [pc EXCEPT ![g] = x]
    BY <1>16 DEF TakerRecvs, Recvs, Recv, TakerPushes, PassesOn, TakerEnds, PumpSteps,
       PumpTakes, PumpPuts, PumpEnds, Moves
  <2>2. pc'["call"] = pc["call"] /\ pc'["feeder"] = pc["feeder"]
    BY <1>0, <2>1, Names
  <2> QED
    BY <1>4, <2>1, <2>2
<1>17. CASE Dispatch("host")
  <2>1. /\ wire["host"] # <<>> /\ UNCHANGED <<pc, reply>> /\ wire'["plugin"] = w
        /\ cancelled'["plugin"] = cancelled["plugin"]
        /\ \/ UNCHANGED <<cancelled, open>>
           \/ open' = [open EXCEPT !["host"] = FALSE]
    BY <1>0, <1>17 DEF Dispatch
  <2>2. CASE UNCHANGED <<cancelled, open>>
    BY <1>4, <2>1, <2>2
  <2>3. CASE open' = [open EXCEPT !["host"] = FALSE]
    <3>1. pc["call"] # "off" /\ ~open'["host"]
      BY <1>0, <2>1, <2>3 DEF StartInv
    <3>2. ~Awaiting'
      BY <2>1, <3>1 DEF Awaiting
    <3> QED
      BY <1>5, <2>1, <3>1, <3>2 DEF WaitInv
  <2> QED
    BY <2>1, <2>2, <2>3
<1>18. CASE LoopFails
  <2>1. open["host"] /\ UNCHANGED <<pc, reply>> /\ open' = [open EXCEPT !["host"] = FALSE]
    BY <1>18 DEF LoopFails
  <2>2. pc["call"] # "off" /\ ~open'["host"]
    BY <1>0, <2>1 DEF WaitInv
  <2>3. ~Awaiting'
    BY <2>1, <2>2 DEF Awaiting
  <2> QED
    BY <1>5, <2>1, <2>2, <2>3 DEF WaitInv
<1>19. CASE Dispatch("plugin")
  <2>1. /\ w # <<>> /\ wire'["plugin"] = Tail(w) /\ UNCHANGED <<pc, reply>>
        /\ open'["host"] = open["host"] /\ cancelled'["host"] = cancelled["host"]
        /\ UNCHANGED cancelled \/ Head(w).flag = "close"
    BY <1>0, <1>19 DEF Dispatch
  <2>2. /\ Shut(wire'["plugin"]) => Shut(w)
        /\ Head(w).flag = "close" => Shut(w)
    BY <1>3, <2>1
  <2>3. Awaiting' <=> Awaiting
    BY <2>1 DEF Awaiting
  <2>4. Awaiting /\ Taking => ~cancelled'["plugin"] /\ ~Shut(wire'["plugin"])
    BY <2>1, <2>2 DEF WaitInv
  <2> QED
    BY <1>1, <2>1, <2>3, <2>4 DEF WaitInv
<1>20. CASE AppGives \/ AppCloses \/ ContextEnds
  <2>1. UNCHANGED <<wire, cancelled, open, reply, pc>>
    BY <1>20 DEF AppGives, AppCloses, ContextEnds
  <2> QED
    BY <1>4, <2>1
<1>21. CASE Crash
  <2>1. UNCHANGED <<open, cancelled, reply>> /\ pc'["call"] = pc["call"]
        /\ pc'["feeder"] = pc["feeder"] /\ pc'["handler"] = "done"
    BY <1>21, Names DEF Crash, OfPlugin
  <2>2. ~Taking'
    BY <2>1 DEF Taking
  <2> QED
    BY <1>4, <2>1, <2>2
<1> QED
  BY <1>6, <1>7, <1>8, <1>9, <1>10, <1>11, <1>12, <1>13, <1>14, <1>15, <1>16, <1>17, <1>18,
     <1>19, <1>20, <1>21, MultiNext


\* The requests are over: the application has closed their channel and the
\* goroutine that sends them has sent the last.
ReqsOver == Over("rawReqs") /\ pc["feeder"] = "done" /\ Whole(Requests, given)

\* Nobody puts anything in again, ...
LEMMA OverStays ==
  ASSUME TypeInv, StartInv, ReqPipe, Over("rawReqs"), pc["feeder"] = "done",
         Next, mode = "MultiSingle"
  PROVE  Over("rawReqs")' /\ pc'["feeder"] = "done"
<1> USE DEF envVars, streamVars, chanVars, appVars, PcOK
<1>0. /\ PcOK /\ DOMAIN queue = Chans /\ closed \in [Chans -> BOOLEAN]
      /\ {"taken", "rawTaken", "rawReqs", "reqs"} \subseteq Chans
      /\ To("pumpTaken") = "taken" /\ From("pumpTaken") = "rawTaken"
      /\ queue["rawReqs"] = <<>> /\ closed["rawReqs"] /\ pc["pumpReqs"] = "done"
      /\ pc["call"] \notin {"off", "start"}
  BY MultiTypes DEF Over, ReqPipe, StartInv
<1>1. ASSUME queue'["rawReqs"] = queue["rawReqs"], closed'["rawReqs"],
             pc'["feeder"] = pc["feeder"]
      PROVE  Over("rawReqs")' /\ pc'["feeder"] = "done"
  BY <1>0, <1>1 DEF Over
<1>2. ~PumpSteps("pumpReqs") /\ ~CallStart /\ ~CallWritesStart
  BY <1>0
  DEF PumpSteps, PumpTakes, PumpPuts, PumpEnds, Moves, CallStart, CallWritesStart
<1>3. /\ ~FeederTakes /\ ~FeederSends /\ ~FeederEnds /\ ~FeederFails
      /\ ~CloseEnd("feeder", "host")
  BY DEF FeederTakes, FeederSends, FeederEnds, FeederFails, CloseEnd, Moves
<1>4. CASE CallStartFails \/ CallRecvs \/ CloseEnd("call", "host")
  <2>1. UNCHANGED <<queue, closed>> /\ \E x : pc' = [pc EXCEPT !["call"] = x]
    BY <1>4 DEF CallStartFails, CallRecvs, CallReturns, CloseEnd, Moves
  <2>2. pc'["feeder"] = pc["feeder"]
    BY <1>0, <2>1, Names
  <2> QED
    BY <1>0, <1>1, <2>1, <2>2
<1>5. CASE \/ HandlerStarts \/ HandlerResponds \/ HandlerStopsEarly \/ HandlerGivesUp
           \/ HandlerSendsResponse \/ HandlerEndsResponse \/ HandlerQuits
           \/ CloseEnd("handler", "plugin") \/ DispatchStart
  <2>1. /\ UNCHANGED <<queue, closed>>
        /\ \/ \E x : pc' = [pc EXCEPT !["handler"] = x]
           \/ pc' = [pc EXCEPT !["handler"] = "range", !["taker"] = "recv", !["pumpTaken"] = "run"]
    BY <1>5
    DEF HandlerStarts, HandlerResponds, HandlerStopsEarly, HandlerRespondsIf,
        HandlerGivesUp, HandlerSendsResponse, HandlerEndsResponse, HandlerQuits,
        CloseEnd,
        DispatchStart, Moves
  <2>2. pc'["feeder"] = pc["feeder"]
    BY <1>0, <2>1, Names
  <2> QED
    BY <1>0, <1>1, <2>1, <2>2
<1>6. CASE \/ HandlerTakes \/ TakerRecvs \/ TakerPushes \/ TakerEnds
           \/ PumpSteps("pumpTaken")
  <2>1. /\ \/ UNCHANGED queue
           \/ \E c \in {"taken", "rawTaken"} : \E q : queue' = [queue EXCEPT ![c] = q]
        /\ \/ UNCHANGED closed
           \/ \E c \in {"taken", "rawTaken"} : closed' = [closed EXCEPT ![c] = TRUE]
    BY <1>0, <1>6
    DEF HandlerTakes, TakerRecvs, Recvs, TakerPushes, PassesOn, TakerEnds, PumpSteps,
        PumpTakes, PumpPuts, PumpEnds, Get, Put, CloseChan
  <2>2. \/ UNCHANGED pc
        \/ \E g \in {"taker", "pumpTaken"} : \E x : pc' = [pc EXCEPT ![g] = x]
    BY <1>6
    DEF HandlerTakes, TakerRecvs, Recvs, TakerPushes, PassesOn, TakerEnds, PumpSteps,
        PumpTakes, PumpPuts, PumpEnds, Moves
  <2>3. queue'["rawReqs"] = queue["rawReqs"] /\ closed'["rawReqs"] = closed["rawReqs"]
    BY <1>0, <2>1
  <2>4. pc'["feeder"] = pc["feeder"]
    BY <1>0, <2>2, Names
  <2> QED
    BY <1>0, <1>1, <2>3, <2>4
<1>7. CASE Dispatch("host") \/ Dispatch("plugin") \/ LoopFails \/ ContextEnds
  BY <1>0, <1>1, <1>7 DEF Dispatch, LoopFails, ContextEnds
<1>8. CASE AppGives \/ AppCloses
  <2>1. /\ UNCHANGED pc
        /\ UNCHANGED queue \/ \E q : queue' = [queue EXCEPT !["reqs"] = q]
        /\ UNCHANGED closed \/ closed' = [closed EXCEPT !["reqs"] = TRUE]
    BY <1>8 DEF AppGives, AppCloses, Put, CloseChan
  <2> QED
    BY <1>0, <1>1, <2>1
<1>9. CASE Crash
  <2>1. UNCHANGED <<queue, closed>> /\ pc'["feeder"] = pc["feeder"]
    BY <1>9, Names DEF Crash, OfPlugin
  <2> QED
    BY <1>0, <1>1, <2>1
<1> QED
  BY <1>2, <1>3, <1>4, <1>5, <1>6, <1>7, <1>8, <1>9, MultiNext

\* ... and the last is not lost on its way to a handler that takes it.
LEMMA OverKept ==
  ASSUME TypeInv, TypeInv', StartInv, ReqPipe, ReqMove, ReqOrder, ReqsOver, Taking',
         ~cancelled'["plugin"], Next, mode = "MultiSingle"
  PROVE  ReqsOver' /\ given' = given
<1> DEFINE P == Requests
           Q == Requests'
<1>1. Over("rawReqs")' /\ pc'["feeder"] = "done"
  BY OverStays DEF ReqsOver
<1>2. /\ queue["rawReqs"] = <<>> /\ queue["reqs"] = <<>> /\ hand["pumpReqs"] = 0
      /\ pc["feeder"] # "send" /\ closed["reqs"] /\ Whole(P, given)
  BY DEF ReqsOver, ReqPipe, Over
<1>3. P \in Lines(11) /\ 11 \in Nat /\ 3 \in Nat
      /\ P[8] = <<>> /\ P[9] = <<>> /\ P[10] = <<>> /\ P[11] = <<>>
  BY <1>2, ReqPlaces, NoItems
<1>4. (TypeInv => Requests \in Lines(11))'
  BY ReqPlaces, PTL
<1>5. Q \in Lines(11)
  BY <1>4
<1>6. \/ Q = P /\ given' = given
      \/ /\ given' = given
         /\ \/ \E j \in 1 .. 10 : Passes(P, Q, j)
            \/ \E j \in 1 .. 11 : Drops(P, Q, j)
            \/ \E f \in Frames : ~IsData(f) /\ Adds(P, Q, 7, f)
            \/ Cuts(P, Q, 8)
  BY <1>2 DEF ReqMove
<1>7. Line(P, given)
  BY DEF ReqOrder
<1> HIDE DEF P, Q
<1>8. \A n : Readable(n) /\ Has(P, n) => Has(Q, n)
  <2>1. CASE Q = P
    BY <2>1
  <2>2. ASSUME NEW j \in 1 .. 10, Passes(P, Q, j)
        PROVE  \A n : Has(P, n) => Has(Q, n)
    <3>1. j \in 1 .. 11 /\ j + 1 \in 1 .. 11
      OBVIOUS
    <3> QED
      BY <1>3, <1>5, <2>2, <3>1, PassLine
  <2>3. ASSUME NEW j \in 1 .. 11, Drops(P, Q, j)
        PROVE  \A n : Readable(n) /\ Has(P, n) => Has(Q, n)
    BY <1>3, <1>5, <1>7, <2>3, DropLine
  <2>4. ASSUME NEW f \in Frames, ~IsData(f), Adds(P, Q, 7, f)
        PROVE  \A n : Readable(n) /\ Has(P, n) => Has(Q, n)
    <3>1. 7 \in 1 .. 11
      OBVIOUS
    <3> QED
      BY <1>3, <1>5, <1>7, <2>4, <3>1, AddLine
  <2>5. CASE Cuts(P, Q, 8)
    <3>1. ASSUME NEW k, NEW a, NEW n, Stands(P, k, a, n)
          PROVE  k < 8
      <4>1. k \in 1 .. 11 /\ a \in DOMAIN P[k] /\ DOMAIN <<>> = {}
        BY <1>3, <3>1 DEF Stands, Lines
      <4> QED
        BY <1>3, <4>1, Eleven
    <3>2. 8 \in 1 .. 11
      OBVIOUS
    <3> QED
      BY <1>3, <1>5, <2>5, <3>1, <3>2, CutLine
  <2> QED
    BY <1>6, <2>1, <2>2, <2>3, <2>4, <2>5
<1>9. Whole(Q, given') /\ given' = given
  BY <1>2, <1>6, <1>8 DEF Whole
<1> QED
  BY <1>1, <1>9 DEF ReqsOver, Q


\* What comes to the handler's end of the stream, and who ends it.
LEMMA OverSteps ==
  ASSUME TypeInv, Next, mode = "MultiSingle"
  PROVE  /\ Ended(recvCh'["plugin"]) \/ Ended(wire'["plugin"]) =>
              Ended(recvCh["plugin"]) \/ Ended(wire["plugin"]) \/ FeederEnds
         /\ closed'["rawTaken"] => closed["rawTaken"] \/ TakerEnds
         /\ NoData(recvCh["plugin"]) /\ NoData(wire["plugin"]) /\ pc["feeder"] = "done" =>
              NoData(recvCh'["plugin"]) /\ NoData(wire'["plugin"])
<1> USE DEF envVars, streamVars, chanVars, appVars, PcOK
<1> DEFINE w == wire["plugin"]
           r == recvCh["plugin"]
           Goal == /\ Ended(recvCh'["plugin"]) \/ Ended(wire'["plugin"]) =>
                        Ended(r) \/ Ended(w) \/ FeederEnds
                   /\ closed'["rawTaken"] => closed["rawTaken"] \/ TakerEnds
                   /\ NoData(r) /\ NoData(w) /\ pc["feeder"] = "done" =>
                        NoData(recvCh'["plugin"]) /\ NoData(wire'["plugin"])
<1>0. /\ "host" \in Ends /\ "plugin" \in Ends /\ "host" # "plugin"
      /\ Peer("host") = "plugin" /\ Peer("plugin") = "host" /\ 0 \in Nat
      /\ {"start", "data", "closewrite", "close"} = Flags
      /\ wire \in [Ends -> Seq(Frames)] /\ recvCh \in [Ends -> Seq(Frames)]
      /\ w \in Seq(Frames) /\ r \in Seq(Frames) /\ closed \in [Chans -> BOOLEAN]
      /\ {"taken", "rawTaken", "rawReqs", "reqs"} \subseteq Chans
      /\ To("pumpTaken") = "taken" /\ To("pumpReqs") = "rawReqs"
  BY MultiTypes
<1>1. ASSUME wire'["plugin"] = w, recvCh'["plugin"] = r,
             closed'["rawTaken"] => closed["rawTaken"] \/ TakerEnds
      PROVE  Goal
  BY <1>1
<1>2. ASSUME NEW f \in Frames, wire'["plugin"] = Append(w, f), UNCHANGED <<recvCh, closed>>,
             f.flag = "data" => pc["feeder"] # "done", f.flag = "closewrite" => FeederEnds
      PROVE  Goal
  <2>1. /\ NoData(Append(w, f)) <=> NoData(w) /\ ~IsData(f)
        /\ Ended(Append(w, f)) <=> Ended(w) \/ f.flag = "closewrite"
    BY <1>0, EndPut
  <2> QED
    BY <1>2, <2>1 DEF IsData
<1>3. ASSUME w # <<>>, wire'["plugin"] = Tail(w), UNCHANGED closed,
             recvCh'["plugin"] = r \/ recvCh'["plugin"] = Append(r, Head(w))
      PROVE  Goal
  <2> DEFINE f == Head(w)
  <2>1. /\ NoData(w) <=> NoData(Tail(w)) /\ ~IsData(f)
        /\ Ended(w) <=> Ended(Tail(w)) \/ f.flag = "closewrite"
        /\ f \in Frames
    BY <1>0, <1>3, EndTake, TakeType
  <2> HIDE DEF f
  <2>2. /\ NoData(Append(r, f)) <=> NoData(r) /\ ~IsData(f)
        /\ Ended(Append(r, f)) <=> Ended(r) \/ f.flag = "closewrite"
    BY <1>0, <2>1, EndPut
  <2>3. recvCh'["plugin"] = r \/ recvCh'["plugin"] = Append(r, f)
    BY <1>3 DEF f
  <2> HIDE DEF w, r
  <2> QED
    BY <1>3, <2>1, <2>2, <2>3
<1>4. CASE \/ CallStart \/ CallStartFails \/ CallRecvs \/ FeederTakes \/ FeederFails
           \/ HandlerStarts \/ HandlerTakes \/ HandlerResponds \/ HandlerStopsEarly
           \/ HandlerGivesUp
  <2>1. wire'["plugin"] = w /\ recvCh'["plugin"] = r /\ UNCHANGED closed
    BY <1>0, <1>4
    DEF CallStart, CallStartFails, CallRecvs, CallReturns, FeederTakes, FeederFails,
        Cancel,
        HandlerStarts, HandlerTakes, HandlerResponds, HandlerStopsEarly,
        HandlerRespondsIf,
        HandlerGivesUp
  <2> QED
    BY <1>1, <2>1
<1>5. CASE \/ CallWritesStart \/ CloseEnd("call", "host") \/ CloseEnd("feeder", "host")
  <2>1. /\ UNCHANGED <<recvCh, closed>>
        /\ \/ UNCHANGED wire
           \/ \E x \in {"start", "close"} : wire'["plugin"] = Append(w, Frame(x, 0))
    BY <1>0, <1>5 DEF CallWritesStart, CloseEnd, Write
  <2>2. \A x \in {"start", "close"} : Frame(x, 0) \in Frames /\ Frame(x, 0).flag = x
    BY <1>0, FrameType
  <2>3. CASE UNCHANGED wire
    BY <1>1, <2>1, <2>3
  <2>4. CASE \E x \in {"start", "close"} : wire'["plugin"] = Append(w, Frame(x, 0))
    <3>1. PICK x \in {"start", "close"} : wire'["plugin"] = Append(w, Frame(x, 0))
      BY <2>4
    <3> QED
      BY <1>2, <2>1, <2>2, <3>1
  <2> QED
    BY <2>1, <2>3, <2>4
<1>6. CASE FeederSends
  <2>1. /\ UNCHANGED <<recvCh, closed>> /\ pc["feeder"] = "send"
        /\ wire'["plugin"] = Append(w, Frame("data", hand["feeder"]))
    BY <1>0, <1>6 DEF FeederSends, Send, Write, Moves
  <2>2. /\ Frame("data", hand["feeder"]) \in Frames
        /\ Frame("data", hand["feeder"]).flag = "data"
    <3>1. hand["feeder"] \in Nat
      BY MultiTypes, Names
    <3> QED
      BY <1>0, <3>1, FrameType
  <2> QED
    BY <1>2, <2>1, <2>2
<1>7. CASE FeederEnds
  <2>1. /\ UNCHANGED <<recvCh, closed>>
        /\ UNCHANGED wire \/ wire'["plugin"] = Append(w, Frame("closewrite", 0))
    BY <1>0, <1>7 DEF FeederEnds, Write
  <2>2. Frame("closewrite", 0) \in Frames /\ Frame("closewrite", 0).flag = "closewrite"
    BY <1>0, FrameType
  <2> QED
    BY <1>1, <1>2, <1>7, <2>1, <2>2
<1>8. CASE \/ HandlerSendsResponse \/ HandlerEndsResponse \/ HandlerQuits
           \/ CloseEnd("handler", "plugin")
  <2>1. wire'["plugin"] = w /\ UNCHANGED <<recvCh, closed>>
    BY <1>0, <1>8 DEF HandlerSendsResponse, HandlerEndsResponse, HandlerQuits, CloseEnd,
       Send, Write, Cancel
  <2> QED
    BY <1>1, <2>1
<1>9. CASE TakerPushes \/ TakerEnds \/ PumpSteps("pumpReqs") \/ PumpSteps("pumpTaken")
  <2>1. /\ UNCHANGED <<wire, recvCh>>
        /\ \/ UNCHANGED closed \/ TakerEnds
           \/ \E c \in {"taken", "rawReqs"} : closed' = [closed EXCEPT ![c] = TRUE]
    BY <1>0, <1>9 DEF TakerPushes, PassesOn, TakerEnds, PumpSteps, PumpTakes, PumpPuts,
       PumpEnds, CloseChan
  <2>2. closed'["rawTaken"] => closed["rawTaken"] \/ TakerEnds
    BY <1>0, <2>1
  <2> QED
    BY <1>1, <2>1, <2>2
<1>10. CASE TakerRecvs
  <2>1. UNCHANGED <<wire, closed>> /\ r # <<>> /\ recvCh'["plugin"] = Tail(r)
    BY <1>0, <1>10 DEF TakerRecvs, Recvs, Recv, Arrived
  <2>2. (Ended(Tail(r)) => Ended(r)) /\ (NoData(r) => NoData(Tail(r)))
    BY <1>0, <2>1, EndTake
  <2>3. /\ Ended(wire'["plugin"]) <=> Ended(w)
        /\ NoData(wire'["plugin"]) <=> NoData(w)
        /\ closed'["rawTaken"] => closed["rawTaken"]
    BY <2>1
  <2>4. /\ Ended(recvCh'["plugin"]) => Ended(r)
        /\ NoData(r) => NoData(recvCh'["plugin"])
    BY <2>1, <2>2
  <2> QED
    BY <2>3, <2>4
<1>11. CASE Dispatch("host") \/ LoopFails \/ AppGives \/ ContextEnds
  <2>1. wire'["plugin"] = w /\ recvCh'["plugin"] = r /\ UNCHANGED closed
    BY <1>0, <1>11 DEF Dispatch, LoopFails, AppGives, ContextEnds
  <2> QED
    BY <1>1, <2>1
<1>12. CASE AppCloses
  <2>1. UNCHANGED <<wire, recvCh>> /\ closed' = [closed EXCEPT !["reqs"] = TRUE]
    BY <1>12 DEF AppCloses, CloseChan
  <2> QED
    BY <1>0, <1>1, <2>1
<1>13. CASE Dispatch("plugin") \/ DispatchStart
  <2>1. /\ w # <<>> /\ wire'["plugin"] = Tail(w) /\ UNCHANGED closed
        /\ recvCh'["plugin"] = r \/ recvCh'["plugin"] = Append(r, Head(w))
    BY <1>0, <1>13 DEF Dispatch, DispatchStart
  <2> QED
    BY <1>3, <2>1
<1>14. CASE Crash
  <2>1. wire'["plugin"] = <<>> /\ UNCHANGED <<recvCh, closed>> /\ DOMAIN <<>> = {}
    BY <1>0, <1>14 DEF Crash
  <2> QED
    BY <2>1 DEF Ended, NoData
<1>15. Goal
  BY <1>4, <1>5, <1>6, <1>7, <1>8, <1>9, <1>10, <1>11, <1>12, <1>13, <1>14, MultiNext
<1> QED
  BY <1>15

\* What tells the handler that there are no more requests comes after the last
\* of them.
OverInv ==
  /\ Awaiting /\ Taking /\ (Ended(recvCh["plugin"]) \/ Ended(wire["plugin"])) => ReqsOver
  /\ Awaiting /\ Taking /\ closed["rawTaken"] =>
       ReqsOver /\ NoData(recvCh["plugin"]) /\ NoData(wire["plugin"])

LEMMA OverNext ==
  ASSUME TypeInv, TypeInv', StartInv, ReqFlags, ReqMove, ReqOrder, ReqOrder', ReqPipe, Sealed,
         WaitInv, WaitInv', OverInv, Next, mode = "MultiSingle"
  PROVE  OverInv'
<1> USE DEF envVars, streamVars, chanVars, appVars, PcOK
<1> DEFINE w == wire["plugin"]
           r == recvCh["plugin"]
<1>0. /\ PcOK /\ w \in Seq(Frames) /\ r \in Seq(Frames)
      /\ closed \in [Chans -> BOOLEAN] /\ "plugin" \in Ends
  BY MultiTypes
<1> HIDE DEF w, r
<1> SUFFICES ASSUME Awaiting', Taking'
             PROVE  /\ Ended(recvCh'["plugin"]) \/ Ended(wire'["plugin"]) => ReqsOver'
                    /\ closed'["rawTaken"] =>
                         /\ ReqsOver'
                         /\ NoData(recvCh'["plugin"]) /\ NoData(wire'["plugin"])
  BY DEF OverInv
<1>1. Awaiting /\ Taking
  BY WaitNext, ReqFlagsNext
<1>2. /\ ~cancelled'["plugin"] /\ ~cancelled["plugin"]
      /\ (cancelled["host"] => pc["feeder"] \in {"closing", "done"})
  BY <1>1 DEF WaitInv
<1>3. ReqsOver => ReqsOver'
  BY <1>2, OverKept
<1>4. /\ Ended(recvCh'["plugin"]) \/ Ended(wire'["plugin"]) => Ended(r) \/ Ended(w) \/ FeederEnds
      /\ closed'["rawTaken"] => closed["rawTaken"] \/ TakerEnds
      /\ NoData(r) /\ NoData(w) /\ pc["feeder"] = "done" =>
           NoData(recvCh'["plugin"]) /\ NoData(wire'["plugin"])
  BY OverSteps DEF w, r
<1>5. /\ Ended(r) \/ Ended(w) => ReqsOver
      /\ closed["rawTaken"] => ReqsOver /\ NoData(r) /\ NoData(w)
  BY <1>1 DEF OverInv, w, r
<1>6. ASSUME FeederEnds
      PROVE  ReqsOver'
  <2>1. /\ pc["feeder"] = "run" /\ Over("rawReqs") /\ UNCHANGED <<queue, closed>>
        /\ pc' = [pc EXCEPT !["feeder"] = "done"] /\ UNCHANGED cancelled
    BY <1>6 DEF FeederEnds, Write, Moves
  <2>2. pc'["feeder"] = "done" /\ Over("rawReqs")'
    BY <1>0, <2>1, Names DEF Over
  <2>3. Feeding'
    BY <1>2, <2>1 DEF Feeding
  <2> QED
    BY <2>2, <2>3 DEF ReqsOver, ReqOrder
<1>7. ASSUME TakerEnds
      PROVE  ReqsOver' /\ NoData(recvCh'["plugin"]) /\ NoData(wire'["plugin"])
  <2>1. r # <<>> /\ Head(r).flag = "closewrite"
    BY <1>2, <1>7 DEF TakerEnds, AtEnd, r
  <2>2. Ended(r) /\ (EndsData(r) => NoData(r))
    BY <1>0, <2>1, EndTake
  <2>3. NoData(r) /\ NoData(w)
    BY <2>2 DEF Sealed, w, r
  <2>4. ReqsOver
    BY <1>5, <2>2
  <2> QED
    BY <1>3, <1>4, <2>3, <2>4 DEF ReqsOver
<1>8. ReqsOver => pc["feeder"] = "done"
  BY DEF ReqsOver
<1>9. Ended(recvCh'["plugin"]) \/ Ended(wire'["plugin"]) => ReqsOver'
  BY <1>3, <1>4, <1>5, <1>6
<1> QED
  BY <1>3, <1>4, <1>5, <1>7, <1>8, <1>9


\* The handler was given all the requests, or none of what it says about them
\* is to be relied on.
AllTaken == closed["reqs"] /\ ReadableUpTo(got, given)
Settled == ~Taking /\ (early \/ AllTaken)

LEMMA SettledNext ==
  ASSUME TypeInv, StartInv, ReqFlags, Settled, Next, mode = "MultiSingle"
  PROVE  Settled'
<1> USE DEF envVars, streamVars, chanVars, appVars
<1>0. closed \in [Chans -> BOOLEAN] /\ queue["resp"] = <<>> /\ ~Taking /\ ~Taking'
  BY MultiTypes, ReqFlagsNext DEF TypeInv, IdleInv, Settled
<1>1. early => early'
  <2>1. CASE \/ CallStart \/ CallWritesStart \/ CallStartFails \/ CallRecvs
             \/ CloseEnd("call", "host") \/ CloseEnd("feeder", "host")
             \/ FeederTakes \/ FeederSends \/ FeederEnds \/ FeederFails
    BY <2>1
    DEF CallStart, CallWritesStart, CallStartFails, CallRecvs, CallReturns, CloseEnd,
        FeederTakes, FeederSends, FeederEnds, FeederFails
  <2>2. CASE \/ HandlerStarts \/ HandlerTakes \/ HandlerResponds \/ HandlerStopsEarly
             \/ HandlerGivesUp \/ HandlerSendsResponse \/ HandlerEndsResponse
             \/ HandlerQuits
             \/ CloseEnd("handler", "plugin")
    BY <2>2
    DEF HandlerStarts, HandlerTakes, HandlerResponds, HandlerStopsEarly, HandlerGivesUp,
        HandlerSendsResponse, HandlerEndsResponse, HandlerQuits, CloseEnd
  <2>3. CASE \/ TakerRecvs \/ TakerPushes \/ TakerEnds
             \/ PumpSteps("pumpReqs") \/ PumpSteps("pumpTaken")
    BY <2>3
    DEF TakerRecvs, Recvs, TakerPushes, PassesOn, TakerEnds, PumpSteps, PumpTakes,
       PumpPuts, PumpEnds
  <2>4. CASE \/ Dispatch("host") \/ Dispatch("plugin") \/ DispatchStart \/ LoopFails
             \/ AppGives \/ AppCloses \/ ContextEnds \/ Crash
    BY <2>4
    DEF Dispatch, DispatchStart, LoopFails, AppGives, AppCloses, ContextEnds, Crash
  <2> QED
    BY <2>1, <2>2, <2>3, <2>4, MultiNext
<1>2. ASSUME closed["reqs"]
      PROVE  closed'["reqs"] /\ UNCHANGED <<given, got>>
  <2>1. CASE \/ CallStart \/ CallWritesStart \/ CallStartFails \/ CallRecvs
             \/ CloseEnd("call", "host") \/ CloseEnd("feeder", "host")
             \/ FeederTakes \/ FeederSends \/ FeederEnds \/ FeederFails
    BY <1>2, <2>1
    DEF CallStart, CallWritesStart, CallStartFails, CallRecvs, CallReturns, CloseEnd,
        FeederTakes, FeederSends, FeederEnds, FeederFails
  <2>2. CASE \/ HandlerStarts \/ HandlerTakes \/ HandlerResponds \/ HandlerStopsEarly
             \/ HandlerGivesUp \/ HandlerSendsResponse \/ HandlerEndsResponse
             \/ HandlerQuits
             \/ CloseEnd("handler", "plugin")
    BY <1>0, <1>2, <2>2
    DEF HandlerStarts, HandlerTakes, HandlerResponds, HandlerStopsEarly,
        HandlerRespondsIf,
        HandlerGivesUp, HandlerSendsResponse, HandlerEndsResponse, HandlerQuits,
        CloseEnd,
        Taking
  <2>3. CASE \/ TakerRecvs \/ TakerPushes \/ TakerEnds
             \/ PumpSteps("pumpReqs") \/ PumpSteps("pumpTaken")
    <3>1. /\ UNCHANGED <<given, got>>
          /\ UNCHANGED closed \/ \E c : closed' = [closed EXCEPT ![c] = TRUE]
      BY <2>3
      DEF TakerRecvs, Recvs, TakerPushes, PassesOn, TakerEnds, PumpSteps, PumpTakes,
         PumpPuts, PumpEnds, CloseChan
    <3>2. "reqs" \in Chans
      BY DEF Chans
    <3> QED
      BY <1>0, <1>2, <3>1, <3>2
  <2>4. CASE \/ Dispatch("host") \/ Dispatch("plugin") \/ DispatchStart \/ LoopFails
             \/ AppGives \/ AppCloses \/ ContextEnds \/ Crash
    BY <1>2, <2>4
    DEF Dispatch, DispatchStart, LoopFails, AppGives, AppCloses, ContextEnds,
       Crash
  <2> QED
    BY <2>1, <2>2, <2>3, <2>4, MultiNext
<1> QED
  BY <1>0, <1>1, <1>2 DEF Settled, AllTaken

\* At the end of its range a handler that is still waited for has them all.
LEMMA RangeOver ==
  ASSUME TypeInv, ReqPipe, ReqOrder, OverInv, Awaiting, Taking, Over("taken"),
         mode = "MultiSingle"
  PROVE  AllTaken
<1> DEFINE P == Requests
<1>1. /\ queue["taken"] = <<>> /\ hand["pumpTaken"] = 0 /\ queue["rawTaken"] = <<>>
      /\ closed["rawTaken"] /\ hand["taker"] = 0
  BY DEF ReqPipe, Over
<1>2. ReqsOver /\ NoData(recvCh["plugin"]) /\ NoData(wire["plugin"])
  BY <1>1 DEF OverInv
<1>3. /\ queue["rawReqs"] = <<>> /\ queue["reqs"] = <<>> /\ hand["pumpReqs"] = 0
      /\ pc["feeder"] # "send" /\ closed["reqs"] /\ Whole(P, given)
  BY <1>2 DEF ReqsOver, ReqPipe, Over
<1>4. DOMAIN <<>> = {} /\ NoData(<<>>)
  BY DEF NoData
<1>5. given \in Nat /\ got \in Seq(Payloads)
  BY RespPlaces, CallsAssumption DEF TypeInv, TypeOK
<1>6. /\ P \in Lines(11) /\ P[1] = Items(got) /\ Line(P, given) /\ Filtered(P, 3)
      /\ 11 \in Nat \ {0}
  BY ReqPlaces DEF ReqOrder
<1>7. /\ P[2] = <<>> /\ P[3] = <<>> /\ P[4] = <<>> /\ P[5] = <<>>
      /\ NoData(P[6]) /\ NoData(P[7])
      /\ P[8] = <<>> /\ P[9] = <<>> /\ P[10] = <<>> /\ P[11] = <<>>
  BY <1>1, <1>2, <1>3, <1>4, ReqPlaces, NoItems
<1> HIDE DEF P
<1>8. ASSUME NEW k, NEW a, NEW n, Stands(P, k, a, n)
      PROVE  k = 1
  <2>1. k \in 1 .. 11 /\ a \in DOMAIN P[k] /\ ~NoData(P[k])
    BY <1>6, <1>8 DEF Stands, Lines, NoData
  <2> QED
    BY <1>4, <1>7, <2>1, Eleven
<1>9. ReadableUpTo(got, given)
  BY <1>3, <1>5, <1>6, <1>8, FarEnd
<1> QED
  BY <1>3, <1>9 DEF AllTaken


\* Where a response comes from.
LEMMA AnswerSteps ==
  ASSUME TypeInv, Next, mode = "MultiSingle"
  PROVE  /\ pc'["handler"] = "respond" =>
              pc["handler"] = "respond" \/ HandlerResponds \/ HandlerStopsEarly
         /\ ~NoData(wire'["host"]) => ~NoData(wire["host"]) \/ pc["handler"] = "respond"
         /\ ~NoData(recvCh'["host"]) =>
              ~NoData(recvCh["host"]) \/ (~NoData(wire["host"]) /\ open["host"])
         /\ reply # "none" => reply' # "none"
         /\ reply' = "response" =>
              \/ reply = "response"
              \/ ~NoData(recvCh["host"]) /\ pc["call"] = "recv"
<1> USE DEF envVars, streamVars, chanVars, appVars, PcOK
<1> DEFINE Goal ==
             /\ pc'["handler"] = "respond" =>
                  pc["handler"] = "respond" \/ HandlerResponds \/ HandlerStopsEarly
             /\ ~NoData(wire'["host"]) => ~NoData(wire["host"]) \/ pc["handler"] = "respond"
             /\ ~NoData(recvCh'["host"]) =>
                  ~NoData(recvCh["host"]) \/ (~NoData(wire["host"]) /\ open["host"])
             /\ reply # "none" => reply' # "none"
             /\ reply' = "response" =>
                  \/ reply = "response"
                  \/ ~NoData(recvCh["host"]) /\ pc["call"] = "recv"
<1>0. /\ "host" \in Ends /\ "plugin" \in Ends /\ "host" # "plugin"
      /\ Peer("host") = "plugin" /\ Peer("plugin") = "host" /\ 0 \in Nat /\ 1 \in Nat
      /\ {"start", "data", "closewrite", "close"} = Flags
      /\ PcOK /\ wire \in [Ends -> Seq(Frames)] /\ recvCh \in [Ends -> Seq(Frames)]
      /\ wire["host"] \in Seq(Frames) /\ recvCh["host"] \in Seq(Frames)
  BY MultiTypes
<1>1. ASSUME wire'["host"] = wire["host"], recvCh'["host"] = recvCh["host"], UNCHANGED reply,
             pc'["handler"] = "respond" =>
               pc["handler"] = "respond" \/ HandlerResponds \/ HandlerStopsEarly
      PROVE  Goal
  BY <1>1
<1>2. ASSUME NEW q \in Seq(Frames), NEW f \in Frames, ~IsData(f)
      PROVE  NoData(Append(q, f)) <=> NoData(q)
  BY <1>2, EndPut
<1>3. CASE \/ CallStart \/ CallWritesStart
           \/ CloseEnd("call", "host") \/ CloseEnd("feeder", "host")
           \/ FeederTakes \/ FeederSends \/ FeederEnds \/ FeederFails
  <2>1. wire'["host"] = wire["host"] /\ UNCHANGED <<recvCh, reply>>
    BY <1>0, <1>3
    DEF CallStart, CallWritesStart, CloseEnd, FeederTakes, FeederSends, FeederEnds,
        FeederFails, Write, Send, Cancel
  <2>2. \/ pc' = [pc EXCEPT !["call"] = "start", !["pumpReqs"] = "run"]
        \/ pc' = [pc EXCEPT !["call"] = "recv", !["feeder"] = "run"]
        \/ pc' = [pc EXCEPT !["call"] = "request"]
        \/ pc' = [pc EXCEPT !["call"] = "done"]
        \/ \E x : pc' = [pc EXCEPT !["feeder"] = x]
    BY <1>3
    DEF CallStart, CallWritesStart, CloseEnd, FeederTakes, FeederSends, FeederEnds,
        FeederFails, Moves
  <2>3. pc'["handler"] = pc["handler"]
    BY <1>0, <2>2, Names
  <2> QED
    BY <1>1, <2>1, <2>3
<1>4. CASE CallStartFails
  <2>1. UNCHANGED <<wire, recvCh>> /\ reply' = "error" /\ pc' = [pc EXCEPT !["call"] = "done"]
    BY <1>4 DEF CallStartFails, Moves
  <2>2. pc'["handler"] = pc["handler"]
    BY <1>0, <2>1, Names
  <2> QED
    BY <2>1, <2>2
<1>5. CASE CallRecvs
  <2>1. /\ UNCHANGED wire /\ reply' \in {"response", "nil", "error"} /\ pc["call"] = "recv"
        /\ pc' = [pc EXCEPT !["call"] = "closing"]
        /\ \/ Arrived("host") /\ recvCh'["host"] = Tail(recvCh["host"])
           \/ reply' # "response" /\ UNCHANGED recvCh
    BY <1>0, <1>5 DEF CallRecvs, CallReturns
  <2>2. pc'["handler"] = pc["handler"]
    BY <1>0, <2>1, Names
  <2>3. ASSUME Arrived("host"), recvCh'["host"] = Tail(recvCh["host"])
        PROVE  ~NoData(recvCh["host"])
    BY <1>0, <2>3, EndTake DEF Arrived, IsData
  <2>4. \/ ~NoData(recvCh["host"])
        \/ reply' # "response" /\ recvCh'["host"] = recvCh["host"]
    BY <2>1, <2>3
  <2> QED
    BY <2>1, <2>2, <2>4
<1>6. CASE HandlerStarts \/ HandlerTakes \/ HandlerGivesUp
  <2>1. /\ UNCHANGED <<wire, recvCh, reply>>
        /\ \/ UNCHANGED pc \/ pc' = [pc EXCEPT !["handler"] = "quit"]
           \/ pc' = [pc EXCEPT !["handler"] = "range", !["taker"] = "recv", !["pumpTaken"] = "run"]
    BY <1>6 DEF HandlerStarts, HandlerTakes, HandlerGivesUp, Moves
  <2>2. pc'["handler"] = pc["handler"] \/ pc'["handler"] \in {"quit", "range"}
    BY <1>0, <2>1, Names
  <2> QED
    BY <1>1, <2>1, <2>2
<1>7. CASE HandlerResponds \/ HandlerStopsEarly
  <2>1. UNCHANGED <<wire, recvCh, reply>>
    BY <1>7 DEF HandlerResponds, HandlerStopsEarly, HandlerRespondsIf
  <2> QED
    BY <1>1, <1>7, <2>1
<1>8. CASE HandlerSendsResponse
  <2>1. /\ pc["handler"] = "respond" /\ UNCHANGED <<recvCh, reply>>
        /\ pc' = [pc EXCEPT !["handler"] = "end"]
    BY <1>8 DEF HandlerSendsResponse, Send, Write, Moves
  <2>2. pc'["handler"] = "end"
    BY <1>0, <2>1, Names
  <2> QED
    BY <2>1, <2>2
<1>9. CASE HandlerEndsResponse
  <2>1. /\ UNCHANGED <<recvCh, reply>> /\ pc' = [pc EXCEPT !["handler"] = "quit"]
        /\ wire'["host"] = Append(wire["host"], Frame("closewrite", 0))
    BY <1>0, <1>9 DEF HandlerEndsResponse, Write, Moves
  <2>2. pc'["handler"] = "quit"
    BY <1>0, <2>1, Names
  <2>3. Frame("closewrite", 0) \in Frames /\ ~IsData(Frame("closewrite", 0))
    <3>1. Frame("closewrite", 0) \in Frames /\ Frame("closewrite", 0).flag = "closewrite"
      BY <1>0, FrameType
    <3> QED
      BY <3>1 DEF IsData
  <2>4. NoData(wire'["host"]) <=> NoData(wire["host"])
    <3>1. NoData(Append(wire["host"], Frame("closewrite", 0))) <=> NoData(wire["host"])
      BY <1>0, <1>2, <2>3
    <3> QED
      BY <2>1, <3>1
  <2> QED
    BY <2>1, <2>2, <2>4
<1>10. CASE HandlerQuits
  <2>1. /\ UNCHANGED <<wire, recvCh, reply>> /\ pc' = [pc EXCEPT !["handler"] = "closing"]
    BY <1>10 DEF HandlerQuits, Cancel, Moves
  <2>2. pc'["handler"] = "closing"
    BY <1>0, <2>1, Names
  <2> QED
    BY <1>1, <2>1, <2>2
<1>11. CASE CloseEnd("handler", "plugin")
  <2>1. /\ UNCHANGED <<recvCh, reply>> /\ pc' = [pc EXCEPT !["handler"] = "done"]
        /\ \/ UNCHANGED wire
           \/ wire'["host"] = Append(wire["host"], Frame("close", 0))
    BY <1>0, <1>11 DEF CloseEnd, Moves
  <2>2. pc'["handler"] = "done"
    BY <1>0, <2>1, Names
  <2>3. Frame("close", 0) \in Frames /\ ~IsData(Frame("close", 0))
    <3>1. Frame("close", 0) \in Frames /\ Frame("close", 0).flag = "close"
      BY <1>0, FrameType
    <3> QED
      BY <3>1 DEF IsData
  <2>4. NoData(wire'["host"]) <=> NoData(wire["host"])
    <3>1. NoData(Append(wire["host"], Frame("close", 0))) <=> NoData(wire["host"])
      BY <1>0, <1>2, <2>3
    <3> QED
      BY <2>1, <3>1
  <2> QED
    BY <2>1, <2>2, <2>4
<1>12. CASE \/ TakerRecvs \/ TakerPushes \/ TakerEnds
            \/ PumpSteps("pumpReqs") \/ PumpSteps("pumpTaken")
  <2>1. UNCHANGED <<wire, reply>> /\ recvCh'["host"] = recvCh["host"]
    BY <1>0, <1>12
    DEF TakerRecvs, Recvs, Recv, TakerPushes, PassesOn, TakerEnds, PumpSteps,
       PumpTakes, PumpPuts, PumpEnds
  <2>2. \/ UNCHANGED pc
        \/ \E g \in {"taker", "pumpReqs", "pumpTaken"} : \E x : pc' = [pc EXCEPT ![g] = x]
    BY <1>12 DEF TakerRecvs, Recvs, TakerPushes, PassesOn, TakerEnds, PumpSteps,
       PumpTakes, PumpPuts, PumpEnds, Moves
  <2>3. pc'["handler"] = pc["handler"]
    BY <1>0, <2>2, Names
  <2> QED
    BY <1>1, <2>1, <2>3
<1>13. CASE Dispatch("host")
  <2> DEFINE w == wire["host"]
             r == recvCh["host"]
             f == Head(w)
  <2>1. /\ w # <<>> /\ wire'["host"] = Tail(w) /\ UNCHANGED <<pc, reply>>
        /\ \/ recvCh'["host"] = r
           \/ open["host"] /\ recvCh'["host"] = Append(r, f)
    BY <1>0, <1>13 DEF Dispatch
  <2>2. f \in Frames /\ (NoData(w) <=> NoData(Tail(w)) /\ ~IsData(f))
    BY <1>0, <2>1, EndTake, TakeType
  <2>3. NoData(Append(r, f)) <=> NoData(r) /\ ~IsData(f)
    <3> HIDE DEF f
    <3> QED
      BY <1>0, <2>2, EndPut
  <2>4. ~NoData(wire'["host"]) => ~NoData(w)
    BY <2>1, <2>2
  <2>5. ~NoData(recvCh'["host"]) => ~NoData(r) \/ (~NoData(w) /\ open["host"])
    BY <2>1, <2>2, <2>3
  <2> QED
    BY <2>1, <2>4, <2>5
<1>14. CASE Dispatch("plugin") \/ LoopFails \/ AppGives \/ AppCloses \/ ContextEnds
  <2>1. /\ wire'["host"] = wire["host"] /\ recvCh'["host"] = recvCh["host"]
        /\ UNCHANGED <<pc, reply>>
    BY <1>0, <1>14 DEF Dispatch, LoopFails, AppGives, AppCloses, ContextEnds
  <2> QED
    BY <1>1, <2>1
<1>15. CASE DispatchStart
  <2>1. /\ wire'["host"] = wire["host"] /\ UNCHANGED <<recvCh, reply>>
        /\ pc' = [pc EXCEPT !["handler"] = IF served THEN "recv" ELSE "parked"]
    BY <1>0, <1>15 DEF DispatchStart
  <2>2. pc'["handler"] \in {"recv", "parked"}
    BY <1>0, <2>1, Names
  <2> QED
    BY <1>1, <2>1, <2>2
<1>16. CASE Crash
  <2>1. /\ wire'["host"] = wire["host"] /\ UNCHANGED <<recvCh, reply>>
        /\ pc'["handler"] = "done"
    BY <1>0, <1>16, Names DEF Crash, OfPlugin
  <2> QED
    BY <1>1, <2>1
<1>17. Goal
  BY <1>3, <1>4, <1>5, <1>6, <1>7, <1>8, <1>9, <1>10, <1>11, <1>12, <1>13, <1>14, <1>15,
     <1>16, MultiNext
<1> QED
  BY <1>17

\* All the way back to the call.
AnswerInv ==
  /\ pc["handler"] = "respond" => Settled \/ ~Awaiting
  /\ ~NoData(wire["host"]) => Settled \/ ~Awaiting
  /\ ~NoData(recvCh["host"]) => Settled \/ reply # "none"
  /\ reply = "response" => Settled

LEMMA AnswerNext ==
  ASSUME TypeInv, StartInv, ReqFlags, ReqPipe, ReqOrder, WaitInv, OverInv, AnswerInv,
         Next, mode = "MultiSingle"
  PROVE  AnswerInv'
<1>1. (Settled => Settled') /\ (Awaiting' => Awaiting)
  BY SettledNext, WaitNext
<1>2. /\ pc'["handler"] = "respond" =>
           pc["handler"] = "respond" \/ HandlerResponds \/ HandlerStopsEarly
      /\ ~NoData(wire'["host"]) => ~NoData(wire["host"]) \/ pc["handler"] = "respond"
      /\ ~NoData(recvCh'["host"]) =>
           ~NoData(recvCh["host"]) \/ (~NoData(wire["host"]) /\ open["host"])
      /\ reply # "none" => reply' # "none"
      /\ reply' = "response" =>
           \/ reply = "response"
           \/ ~NoData(recvCh["host"]) /\ pc["call"] = "recv"
  BY AnswerSteps
<1>3. /\ pc["handler"] = "respond" => Settled \/ ~Awaiting
      /\ ~NoData(wire["host"]) => Settled \/ ~Awaiting
      /\ ~NoData(recvCh["host"]) => Settled \/ reply # "none"
      /\ reply = "response" => Settled
      /\ pc["call"] = "recv" => reply = "none"
      /\ reply = "none" /\ open["host"] => Awaiting
  BY DEF AnswerInv, WaitInv, Awaiting
<1>4. ASSUME HandlerResponds \/ HandlerStopsEarly
      PROVE  Settled' \/ ~Awaiting
  <2>1. /\ pc["handler"] = "range" /\ pc' = [pc EXCEPT !["handler"] = "respond"]
        /\ UNCHANGED <<closed, given, got>>
        /\ (Over("taken") /\ HandlerResponds) \/ early'
    BY <1>4
    DEF HandlerResponds, HandlerStopsEarly, HandlerRespondsIf, Moves, streamVars,
       chanVars
  <2>2. Taking /\ ~Taking'
    <3>1. pc'["handler"] = "respond"
      BY <2>1, MultiTypes, Names DEF PcOK
    <3> QED
      BY <2>1, <3>1 DEF Taking
  <2>3. Over("taken") /\ Awaiting => AllTaken
    BY <2>2, RangeOver
  <2>4. AllTaken => AllTaken'
    BY <2>1 DEF AllTaken
  <2> QED
    BY <2>1, <2>2, <2>3, <2>4 DEF Settled
<1> QED
  BY <1>1, <1>2, <1>3, <1>4 DEF AnswerInv

EndInv ==
  mode = "MultiSingle" => ReqPipe /\ Sealed /\ WaitInv /\ OverInv /\ AnswerInv

LEMMA EndInit == Init => EndInv
<1> SUFFICES ASSUME Init PROVE EndInv
  OBVIOUS
<1>1. DOMAIN <<>> = {}
  OBVIOUS
<1>2. /\ \A e \in {"host", "plugin"} : /\ wire[e] = <<>> /\ recvCh[e] = <<>>
                                       /\ ~cancelled[e] /\ ~open[e]
      /\ \A c \in {"rawReqs", "taken", "rawTaken"} : ~closed[c]
      /\ \A g \in {"call", "handler", "pumpReqs", "pumpTaken", "taker"} : pc[g] = "off"
      /\ reply = "none"
  BY Names DEF Init, Chans
<1>3. ReqPipe /\ Sealed /\ WaitInv
  BY <1>1, <1>2 DEF ReqPipe, Sealed, WaitInv, Ended, EndsData, NoData, Shut
<1>4. OverInv /\ AnswerInv
  BY <1>1, <1>2 DEF OverInv, AnswerInv, Ended, NoData
<1> QED
  BY <1>3, <1>4 DEF EndInv

LEMMA EndNext ==
  ASSUME CoreInv, CoreInv', ReqInv, ReqInv', EndInv, [Next]_vars
  PROVE  EndInv'
<1>1. TypeInv /\ TypeInv' /\ StartInv
  BY DEF CoreInv
<1>2. CASE UNCHANGED vars
  BY <1>2
  DEF vars, envVars, streamVars, chanVars, appVars, EndInv, ReqPipe, Sealed, WaitInv,
     OverInv, AnswerInv, Awaiting, Taking, Feeding, ReqsOver, Requests, Settled,
     AllTaken, Over
<1>3. CASE Next /\ mode = "MultiSingle"
  <2>1. /\ ReqFlags /\ ReqOrder /\ ReqPipe /\ Sealed /\ WaitInv /\ OverInv /\ AnswerInv
    BY <1>3 DEF ReqInv, EndInv
  <2>2. mode' = mode
    BY <1>1, <1>3, EnvNext
  <2>3. ReqOrder'
    BY <1>3, <2>2 DEF ReqInv
  <2>4. ReqMove
    BY <1>1, <1>3, <2>1, ReqMoves
  <2>5. ReqPipe' /\ Sealed' /\ WaitInv'
    BY <1>1, <1>3, <2>1, ReqPipeNext, SealedNext, WaitNext
  <2>6. OverInv'
    BY <1>1, <1>3, <2>1, <2>3, <2>4, <2>5, OverNext
  <2>7. AnswerInv'
    BY <1>1, <1>3, <2>1, AnswerNext
  <2> QED
    BY <2>5, <2>6, <2>7 DEF EndInv
<1>4. CASE Next /\ mode # "MultiSingle"
  <2>1. mode' = mode
    BY <1>1, <1>4, EnvNext
  <2> QED
    BY <1>4, <2>1 DEF EndInv
<1> QED
  BY <1>2, <1>3, <1>4

LEMMA EndHolds == Spec => []EndInv
<1>1. CoreInv /\ CoreInv' /\ ReqInv /\ ReqInv' /\ EndInv /\ [Next]_vars => EndInv'
  BY EndNext
<1> QED
  BY CoreHolds, ReqHolds, EndInit, <1>1, PTL DEF Spec

\* A response of a handler that ranged over its requests to their end is about
\* all the requests the caller gave before it closed their channel: each
\* goroutine on the way closes its channel, or writes CloseWrite, after it has
\* passed on the last (generic.go, conn_routing.go); and what ends the stream
\* before that is a Close at the caller's end, which no longer hears the response
\* when the handler takes that for the end of the requests (conn.go).
THEOREM ResponseOfAll == Spec => []ResponseIsOfAll
<1>1. EndInv => ResponseIsOfAll
  BY DEF EndInv, AnswerInv, Settled, AllTaken, ResponseIsOfAll
<1> QED
  BY EndHolds, <1>1, PTL

-----------------------------------------------------------------------------
(* What a call that returns neither a response nor an error has met.       *)
Hearing == pc["call"] \in {"off", "start", "recv"} /\ ~ctxDone /\ ~early /\ up
Answered == pc["handler"] \in {"end", "quit", "closing", "done"}
\* For a call that waits, with nothing to blame, nothing is on the way before the
\* response, and behind it comes what ends the stream.
HearInv ==
  /\ Hearing /\ ~Answered =>
       /\ recvCh["host"] = <<>> /\ wire["host"] = <<>> /\ ~cancelled["host"]
       /\ ~cancelled["plugin"] /\ ~Shut(wire["plugin"])
       /\ pc["call"] # "off" => open["host"]
  /\ Hearing /\ Answered =>
       \/ recvCh["host"] # <<>> /\ IsData(Head(recvCh["host"]))
       \/ /\ recvCh["host"] = <<>> /\ ~cancelled["host"] /\ open["host"]
          /\ wire["host"] # <<>> /\ IsData(Head(wire["host"]))
  /\ NilHasACause

LEMMA HearNext ==
  ASSUME TypeInv, TypeInv', StartInv, ReqFlags, HearInv, Next, mode = "MultiSingle"
  PROVE  HearInv'
<1> USE DEF envVars, streamVars, chanVars, appVars, PcOK
<1> DEFINE w == wire["plugin"]
<1>0. /\ "host" \in Ends /\ "plugin" \in Ends /\ "host" # "plugin"
      /\ Peer("host") = "plugin" /\ Peer("plugin") = "host" /\ 0 \in Nat /\ 1 \in Nat
      /\ {"start", "data", "closewrite", "close"} = Flags
      /\ PcOK /\ hand \in [Goroutines -> Nat]
      /\ wire \in [Ends -> Seq(Frames)] /\ cancelled \in [Ends -> BOOLEAN]
      /\ recvCh \in [Ends -> Seq(Frames)]
      /\ wire["host"] \in Seq(Frames) /\ recvCh["host"] \in Seq(Frames)
      /\ open \in [Ends -> BOOLEAN] /\ w \in Seq(Frames)
  BY MultiTypes
<1>1. ASSUME NEW f \in Frames, f.flag # "close", wire'["plugin"] = Append(w, f)
      PROVE  Shut(wire'["plugin"]) => Shut(w)
  <2>1. Shut(Append(w, f)) <=> Shut(w) \/ f.flag = "close"
    BY <1>0, EndPut
  <2> QED
    BY <1>1, <2>1
<1>2. ASSUME w # <<>>, wire'["plugin"] = Tail(w)
      PROVE  /\ Shut(wire'["plugin"]) => Shut(w)
             /\ Head(w).flag = "close" => Shut(w)
  <2>1. Shut(w) <=> Shut(Tail(w)) \/ Head(w).flag = "close"
    BY <1>0, <1>2, EndTake
  <2> QED
    BY <1>2, <2>1
\* The step leaves what the call hears alone, ...
<1>3. ASSUME wire'["host"] = wire["host"], recvCh'["host"] = recvCh["host"],
             cancelled'["host"] = cancelled["host"], open'["host"] = open["host"],
             UNCHANGED reply, ctxDone => ctxDone', early => early', ~up => ~up',
             pc'["call"] = pc["call"], Answered' <=> Answered,
             ~Answered /\ Hearing =>
               /\ cancelled'["plugin"] = cancelled["plugin"]
               /\ Shut(wire'["plugin"]) => Shut(w)
      PROVE  HearInv'
  <2>1. Hearing' => Hearing
    BY <1>3 DEF Hearing
  <2>2. NilHasACause'
    BY <1>3 DEF HearInv, NilHasACause
  <2> QED
    BY <1>3, <2>1, <2>2 DEF HearInv
\* ... or ends the wait.
<1>4. ASSUME ~Hearing', NilHasACause'
      PROVE  HearInv'
  BY <1>4 DEF HearInv
<1>5. CASE CallStart
  <2>1. /\ pc["call"] = "off" /\ UNCHANGED <<wire, recvCh, cancelled, reply, ctxDone, early, up>>
        /\ pc' = [pc EXCEPT !["call"] = "start", !["pumpReqs"] = "run"]
        /\ open' = [open EXCEPT !["host"] = TRUE]
    BY <1>5 DEF CallStart
  <2>2. pc'["call"] = "start" /\ pc'["handler"] = pc["handler"] /\ open'["host"]
    BY <1>0, <2>1, Names
  <2>3. (Answered' <=> Answered) /\ (Hearing' => Hearing)
    BY <2>1, <2>2 DEF Answered, Hearing
  <2> QED
    BY <2>1, <2>2, <2>3 DEF HearInv, NilHasACause
<1>6. CASE CallWritesStart
  <2>1. /\ pc["call"] = "start" /\ UNCHANGED <<recvCh, cancelled, open, reply, ctxDone, early, up>>
        /\ pc' = [pc EXCEPT !["call"] = "recv", !["feeder"] = "run"]
        /\ wire' = [wire EXCEPT !["plugin"] = Append(@, Frame("start", 0))]
    BY <1>0, <1>6 DEF CallWritesStart, Write
  <2>2. pc'["call"] = "recv" /\ pc'["handler"] = pc["handler"] /\ wire'["host"] = wire["host"]
    BY <1>0, <2>1, Names
  <2>3. (Answered' <=> Answered) /\ (Hearing' => Hearing)
    BY <2>1, <2>2 DEF Answered, Hearing
  <2>4. Shut(wire'["plugin"]) => Shut(w)
    <3>1. Frame("start", 0) \in Frames /\ Frame("start", 0).flag # "close"
      BY <1>0, FrameType
    <3>2. wire'["plugin"] = Append(w, Frame("start", 0))
      BY <1>0, <2>1
    <3> HIDE DEF w
    <3> QED
      BY <1>1, <3>1, <3>2
  <2> QED
    BY <2>1, <2>2, <2>3, <2>4 DEF HearInv, NilHasACause
<1>7. CASE CallStartFails
  <2>1. reply' = "error" /\ pc' = [pc EXCEPT !["call"] = "done"]
    BY <1>7 DEF CallStartFails, Moves
  <2>2. pc'["call"] = "done"
    BY <1>0, <2>1, Names
  <2> QED
    BY <1>4, <2>1, <2>2 DEF Hearing, NilHasACause
<1>8. CASE CallRecvs
  <2>1. /\ pc["call"] = "recv" /\ pc' = [pc EXCEPT !["call"] = "closing"]
        /\ UNCHANGED <<ctxDone, early, up>>
        /\ reply' = "nil" => AtEnd("host")
    BY <1>8 DEF CallRecvs, CallReturns
  <2>2. pc'["call"] = "closing"
    BY <1>0, <2>1, Names
  <2>3. ~(Hearing /\ AtEnd("host"))
    BY DEF HearInv, AtEnd, IsData
  <2>4. NilHasACause'
    BY <2>1, <2>3 DEF NilHasACause, Hearing
  <2> QED
    BY <1>4, <2>2, <2>4 DEF Hearing
<1>9. CASE CloseEnd("call", "host")
  <2>1. pc' = [pc EXCEPT !["call"] = "done"] /\ UNCHANGED <<reply, ctxDone, early, up>>
    BY <1>9 DEF CloseEnd, Moves
  <2>2. pc'["call"] = "done"
    BY <1>0, <2>1, Names
  <2> QED
    BY <1>4, <2>1, <2>2 DEF Hearing, HearInv, NilHasACause
<1>10. CASE FeederTakes \/ FeederSends \/ FeederEnds
  <2>1. /\ UNCHANGED <<recvCh, cancelled, open, reply, ctxDone, early, up>>
        /\ wire'["host"] = wire["host"]
        /\ \E x : pc' = [pc EXCEPT !["feeder"] = x]
    BY <1>0, <1>10 DEF FeederTakes, FeederSends, FeederEnds, Send, Write, Moves
  <2>2. /\ pc'["call"] = pc["call"] /\ pc'["handler"] = pc["handler"]
        /\ Answered' <=> Answered
    BY <1>0, <2>1, Names DEF Answered
  <2>3. \/ UNCHANGED wire
        \/ wire'["plugin"] = Append(w, Frame("data", hand["feeder"]))
        \/ wire'["plugin"] = Append(w, Frame("closewrite", 0))
    BY <1>0, <1>10 DEF FeederTakes, FeederSends, FeederEnds, Send, Write
  <2>4. Shut(wire'["plugin"]) => Shut(w)
    <3>1. /\ Frame("data", hand["feeder"]) \in Frames
          /\ Frame("data", hand["feeder"]).flag # "close"
          /\ Frame("closewrite", 0) \in Frames /\ Frame("closewrite", 0).flag # "close"
      BY <1>0, FrameType, Names
    <3>2. CASE UNCHANGED wire
      BY <3>2
    <3> HIDE DEF w
    <3> QED
      BY <1>1, <2>3, <3>1, <3>2 DEF w
  <2> QED
    BY <1>3, <2>1, <2>2, <2>4
<1>11. CASE FeederFails
  <2>1. /\ UNCHANGED <<wire, recvCh, open, reply, ctxDone, early, up>>
        /\ cancelled' = [cancelled EXCEPT !["host"] = TRUE]
        /\ pc' = [pc EXCEPT !["feeder"] = "closing"]
        /\ ctxDone \/ cancelled["host"] \/ ~up
    BY <1>11 DEF FeederFails, Moves, Cancel, SendFails
  <2>2. /\ pc'["call"] = pc["call"] /\ pc'["handler"] = pc["handler"]
        /\ Answered' <=> Answered
    BY <1>0, <2>1, Names DEF Answered
  <2>3. CASE cancelled["host"]
    <3>1. cancelled'["host"] = cancelled["host"] /\ cancelled'["plugin"] = cancelled["plugin"]
      BY <1>0, <2>1, <2>3
    <3> QED
      BY <1>3, <2>1, <2>2, <3>1
  <2>4. CASE ctxDone \/ ~up
    BY <1>4, <2>1, <2>4 DEF Hearing, HearInv, NilHasACause
  <2> QED
    BY <2>1, <2>3, <2>4
<1>12. CASE CloseEnd("feeder", "host")
  <2>1. /\ UNCHANGED <<recvCh, cancelled, reply, ctxDone, early, up>>
        /\ wire'["host"] = wire["host"]
        /\ pc["feeder"] = "closing" /\ pc' = [pc EXCEPT !["feeder"] = "done"]
    BY <1>0, <1>12 DEF CloseEnd, Moves
  <2>2. /\ pc'["call"] = pc["call"] /\ pc'["handler"] = pc["handler"]
        /\ Answered' <=> Answered
    BY <1>0, <2>1, Names DEF Answered
  <2>3. cancelled["host"]
    BY <2>1 DEF ReqFlags
  <2>4. Hearing' => Hearing
    BY <2>1, <2>2 DEF Hearing
  <2> QED
    BY <2>1, <2>2, <2>3, <2>4 DEF HearInv, NilHasACause
<1>13. CASE HandlerStarts \/ HandlerTakes \/ HandlerResponds
  <2>1. /\ UNCHANGED <<wire, recvCh, cancelled, open, reply, ctxDone, early, up>>
        /\ pc["handler"] \in {"recv", "range"}
        /\ \/ UNCHANGED pc
           \/ pc' = [pc EXCEPT !["handler"] = "respond"]
           \/ pc' = [pc EXCEPT !["handler"] = "range", !["taker"] = "recv", !["pumpTaken"] = "run"]
    BY <1>13 DEF HandlerStarts, HandlerTakes, HandlerResponds, HandlerRespondsIf, Moves
  <2>2. pc'["call"] = pc["call"] /\ pc'["handler"] \in {"recv", "range", "respond"}
    BY <1>0, <2>1, Names
  <2>3. Answered' <=> Answered
    BY <2>1, <2>2 DEF Answered
  <2> QED
    BY <1>3, <2>1, <2>2, <2>3
<1>14. CASE HandlerStopsEarly \/ HandlerGivesUp \/ ContextEnds \/ Crash
  <2>1. (early' \/ ctxDone' \/ ~up') /\ UNCHANGED reply
    BY <1>14 DEF HandlerStopsEarly, HandlerRespondsIf, HandlerGivesUp, ContextEnds, Crash
  <2> QED
    BY <1>4, <2>1 DEF Hearing, NilHasACause
<1>15. CASE HandlerSendsResponse
  <2> DEFINE f == Frame("data", 1)
  <2>1. /\ pc["handler"] = "respond" /\ pc' = [pc EXCEPT !["handler"] = "end"]
        /\ UNCHANGED <<recvCh, cancelled, open, reply, ctxDone, early, up>>
        /\ \/ wire'["host"] = Append(wire["host"], f)
           \/ cancelled["plugin"] \/ ~up
    BY <1>0, <1>15 DEF HandlerSendsResponse, Send, Write, SendFails, Moves
  <2>2. pc'["call"] = pc["call"] /\ pc'["handler"] = "end"
    BY <1>0, <2>1, Names
  <2>3. /\ Hearing' => Hearing
        /\ Answered' /\ ~Answered
    BY <2>1, <2>2 DEF Hearing, Answered
  <2>4. f \in Frames /\ IsData(f)
    <3>1. f \in Frames /\ f.flag = "data"
      BY <1>0, FrameType
    <3> QED
      BY <3>1 DEF IsData
  <2> HIDE DEF f
  <2>5. Append(<<>>, f) # <<>> /\ Head(Append(<<>>, f)) = f
    BY <2>4
  <2>6. Hearing => open["host"]
    BY <2>1 DEF Hearing, HearInv, Answered, StartInv
  <2>7. Hearing' => /\ recvCh'["host"] = <<>> /\ ~cancelled'["host"] /\ open'["host"]
                    /\ wire'["host"] # <<>> /\ IsData(Head(wire'["host"]))
    BY <2>1, <2>3, <2>4, <2>5, <2>6 DEF HearInv, Hearing
  <2> QED
    BY <2>1, <2>3, <2>7 DEF HearInv, NilHasACause
<1>16. CASE HandlerEndsResponse \/ HandlerQuits \/ CloseEnd("handler", "plugin")
  <2>1. /\ UNCHANGED <<recvCh, reply, ctxDone, early, up>>
        /\ cancelled'["host"] = cancelled["host"] /\ open'["host"] = open["host"]
        /\ pc["handler"] \in {"end", "quit", "closing"}
        /\ \E x \in {"quit", "closing", "done"} : pc' = [pc EXCEPT !["handler"] = x]
        /\ \/ UNCHANGED wire
           \/ \E fl \in {"closewrite", "close"} :
                wire'["host"] = Append(wire["host"], Frame(fl, 0))
    BY <1>0, <1>16 DEF HandlerEndsResponse, HandlerQuits, CloseEnd, Write, Cancel, Moves
  <2>2. pc'["call"] = pc["call"] /\ pc'["handler"] \in {"quit", "closing", "done"}
    BY <1>0, <2>1, Names
  <2>3. /\ Hearing' => Hearing
        /\ Answered' /\ Answered
    BY <2>1, <2>2 DEF Hearing, Answered
  <2>4. wire["host"] # <<>> => wire'["host"] # <<>> /\ Head(wire'["host"]) = Head(wire["host"])
    <3>1. ASSUME NEW fl \in {"closewrite", "close"},
                 wire'["host"] = Append(wire["host"], Frame(fl, 0)), wire["host"] # <<>>
          PROVE  wire'["host"] # <<>> /\ Head(wire'["host"]) = Head(wire["host"])
      <4>1. Frame(fl, 0) \in Frames
        BY <1>0, FrameType
      <4> DEFINE q == wire["host"]
                 g == Frame(fl, 0)
      <4>2. q \in Seq(Frames) /\ g \in Frames /\ q # <<>>
        BY <1>0, <3>1, <4>1
      <4> HIDE DEF q, g
      <4>3. Append(q, g) # <<>> /\ Head(Append(q, g)) = Head(q)
        BY <4>2
      <4> QED
        BY <3>1, <4>3 DEF q, g
    <3> QED
      BY <2>1, <3>1
  <2> QED
    BY <2>1, <2>3, <2>4 DEF HearInv, NilHasACause
<1>17. CASE \/ TakerRecvs \/ TakerPushes \/ TakerEnds
            \/ PumpSteps("pumpReqs") \/ PumpSteps("pumpTaken")
            \/ AppGives \/ AppCloses
  <2>1. /\ UNCHANGED <<wire, cancelled, open, reply, ctxDone, early, up>>
        /\ recvCh'["host"] = recvCh["host"]
        /\ \/ UNCHANGED pc
           \/ \E g \in {"taker", "pumpReqs", "pumpTaken"} : \E x : pc' = [pc EXCEPT ![g] = x]
    BY <1>0, <1>17
    DEF TakerRecvs, Recvs, Recv, TakerPushes, PassesOn, TakerEnds, PumpSteps,
       PumpTakes, PumpPuts, PumpEnds, AppGives, AppCloses, Moves
  <2>2. /\ pc'["call"] = pc["call"] /\ pc'["handler"] = pc["handler"]
        /\ Answered' <=> Answered
    BY <1>0, <2>1, Names DEF Answered
  <2> QED
    BY <1>3, <2>1, <2>2
<1>18. CASE Dispatch("host")
  <2> DEFINE q == wire["host"]
             r == recvCh["host"]
             f == Head(q)
  <2>1. /\ q # <<>> /\ wire'["host"] = Tail(q) /\ UNCHANGED <<pc, reply, ctxDone, early, up>>
        /\ \/ recvCh'["host"] = r /\ (~open["host"] \/ f.flag = "close" \/ cancelled["host"])
           \/ recvCh'["host"] = Append(r, f)
    BY <1>0, <1>18 DEF Dispatch
  <2>2. f \in Frames /\ q \in Seq(Frames) /\ r \in Seq(Frames)
    BY <1>0, <2>1, TakeType
  <2>3. (Hearing' <=> Hearing) /\ (Answered' <=> Answered)
    BY <2>1 DEF Hearing, Answered
  <2>4. Hearing => Answered
    BY <2>1 DEF HearInv
  <2> HIDE DEF f, q, r
  <2>5. Append(r, f) # <<>> /\ Head(Append(r, f)) = (IF r = <<>> THEN f ELSE Head(r))
    <3>1. CASE r = <<>>
      BY <2>2, <3>1
    <3>2. CASE r # <<>>
      BY <2>2, <3>2
    <3> QED
      BY <3>1, <3>2
  <2>6. Hearing => \/ r # <<>> /\ IsData(Head(r))
                   \/ r = <<>> /\ ~cancelled["host"] /\ open["host"] /\ IsData(f)
    BY <2>4 DEF HearInv, f, q, r
  <2>7. Hearing => recvCh'["host"] # <<>> /\ IsData(Head(recvCh'["host"]))
    BY <2>1, <2>5, <2>6 DEF IsData
  <2> QED
    BY <2>1, <2>3, <2>4, <2>7 DEF HearInv, NilHasACause
<1>19. CASE Dispatch("plugin")
  <2>1. /\ w # <<>> /\ wire'["plugin"] = Tail(w)
        /\ UNCHANGED <<pc, reply, ctxDone, early, up>>
        /\ wire'["host"] = wire["host"] /\ recvCh'["host"] = recvCh["host"]
        /\ cancelled'["host"] = cancelled["host"] /\ open'["host"] = open["host"]
        /\ cancelled'["plugin"] = cancelled["plugin"] \/ Head(w).flag = "close"
    BY <1>0, <1>19 DEF Dispatch
  <2>2. Answered' <=> Answered
    BY <2>1 DEF Answered
  <2>3. (Shut(wire'["plugin"]) => Shut(w)) /\ (Head(w).flag = "close" => Shut(w))
    BY <1>2, <2>1
  <2>4. ~Answered /\ Hearing => cancelled'["plugin"] = cancelled["plugin"]
    BY <2>1, <2>3 DEF HearInv
  <2> QED
    BY <1>3, <2>1, <2>2, <2>3, <2>4
<1>20. CASE DispatchStart
  <2>1. /\ w # <<>> /\ Head(w).flag = "start" /\ wire'["plugin"] = Tail(w)
        /\ UNCHANGED <<recvCh, cancelled, reply, ctxDone, early, up>>
        /\ wire'["host"] = wire["host"] /\ open'["host"] = open["host"]
        /\ pc' = [pc EXCEPT !["handler"] = IF served THEN "recv" ELSE "parked"]
    BY <1>0, <1>20 DEF DispatchStart
  <2>2. pc'["call"] = pc["call"] /\ pc'["handler"] \in {"recv", "parked"}
    BY <1>0, <2>1, Names
  <2>3. pc["handler"] = "off"
    <3>1. 1 \in DOMAIN w /\ w[1] = Head(w)
      BY <1>0, <2>1, TakeType
    <3> QED
      BY <2>1, <3>1 DEF StartInv
  <2>4. Answered' <=> Answered
    BY <2>2, <2>3 DEF Answered
  <2>5. Shut(wire'["plugin"]) => Shut(w)
    BY <1>2, <2>1
  <2> QED
    BY <1>3, <2>1, <2>2, <2>4, <2>5
<1>21. CASE LoopFails
  <2>1. ~up' /\ UNCHANGED reply
    BY <1>21 DEF LoopFails
  <2> QED
    BY <1>4, <2>1 DEF Hearing, NilHasACause
<1> QED
  BY <1>5, <1>6, <1>7, <1>8, <1>9, <1>10, <1>11, <1>12, <1>13, <1>14, <1>15, <1>16, <1>17,
     <1>18, <1>19, <1>20, <1>21, MultiNext

NilInv == mode = "MultiSingle" => HearInv

LEMMA NilInit == Init => NilInv
<1> SUFFICES ASSUME Init PROVE NilInv
  OBVIOUS
<1>1. DOMAIN <<>> = {}
  OBVIOUS
<1>2. /\ \A e \in {"host", "plugin"} : wire[e] = <<>> /\ recvCh[e] = <<>> /\ ~cancelled[e]
      /\ pc["call"] = "off" /\ pc["handler"] = "off" /\ reply = "none"
  BY Names DEF Init
<1> QED
  BY <1>1, <1>2 DEF NilInv, HearInv, Hearing, Answered, Shut, NilHasACause

LEMMA NilNext ==
  ASSUME CoreInv, CoreInv', ReqInv, NilInv, [Next]_vars
  PROVE  NilInv'
<1>1. TypeInv /\ TypeInv' /\ StartInv
  BY DEF CoreInv
<1>2. CASE UNCHANGED vars
  BY <1>2
  DEF vars, envVars, streamVars, chanVars, appVars, NilInv, HearInv, Hearing, Answered,
     Shut, NilHasACause
<1>3. CASE Next
  <2>1. mode' = mode
    BY <1>1, <1>3, EnvNext
  <2> QED
    BY <1>1, <1>3, <2>1, HearNext DEF NilInv, ReqInv
<1> QED
  BY <1>2, <1>3

\* CallMultiSingle returns no response and no error (conn_routing.go 131) only
\* when its context has ended, the handler has returned before its requests were
\* over, or the plugin has crashed: the Close and CloseWrite of the handler come
\* behind the response, and the feeder, which writes CloseWrite and not Close when
\* the requests end, closes the stream only when the context or the stream has
\* ended.
THEOREM NilIsExcused == Spec => []NilHasACause
<1>1. CoreInv /\ CoreInv' /\ ReqInv /\ ReqInv' /\ NilInv /\ [Next]_vars => NilInv'
  BY NilNext
<1>2. NilInv => NilHasACause
  BY DEF NilInv, HearInv, NilHasACause
<1> QED
  BY CoreHolds, ReqHolds, NilInit, <1>1, <1>2, PTL DEF Spec


=============================================================================
