--------------------------- MODULE IpcClientProofs ---------------------------
(***************************************************************************)
(* No call of ipcClient takes the response of a call with another ID, the  *)
(* map of callbacks holds calls in progress only, and no response is lost  *)
(* on its way to a call that waits: for any number of calls, any width of  *)
(* the IDs and any capacities.                                             *)
(***************************************************************************)
EXTENDS IpcClient, TLAPS

\* The numbers t that Add(1) has given fit what is said of the calls.
Matches(c, d, t) == t[c] # 0 /\ t[d] # 0 /\ t[c] % IdMod = t[d] % IdMod
Own(f, t) ==
  \/ f.kind = "stream"
  \/ f.call \in Calls /\ t[f.call] # 0 /\ f.id = t[f.call] % IdMod
AllOwn(q, kinds, t) == \A k \in DOMAIN q : q[k].kind \in kinds /\ Own(q[k], t)

\* Numbers are given once.
TurnInv ==
  /\ \A c \in Calls : turn[c] <= activeID /\ (turn[c] = 0 <=> pc[c] = "idle")
  /\ \A c, d \in Calls : c # d /\ turn[c] = turn[d] => turn[c] = 0

\* A request and its response carry the ID of their call.
FrameInv ==
  /\ AllOwn(toPlugin, {"request", "stream"}, turn)
  /\ AllOwn(rawMsgCh, {"request"}, turn)
  /\ AllOwn(request, {"request"}, turn)
  /\ AllOwn(toHost, {"response"}, turn)

\* What the loop has in its hands, and what it has handed over, has the ID of
\* the call it goes to.
AnswerInv ==
  /\ readLoop = "push" <=> hand # <<>>
  /\ hand # <<>> => Matches(hand[1], hand[2], turn)
  /\ \A c \in Calls :
       /\ ch[c] # <<>> => Matches(c, ch[c][1], turn)
       /\ result[c] \in Calls => Matches(c, result[c], turn)

\* A callback is stored under the ID of its call.
MapInv ==
  \A n \in IDs : callbacks[n] # NoCall =>
    LET c == callbacks[n] IN turn[c] # 0 /\ turn[c] % IdMod = n /\ InProgress(c)

IInv == TypeOK /\ TurnInv /\ FrameInv /\ AnswerInv /\ MapInv

LEMMA IdRange == \A x \in Nat : x % IdMod \in IDs
  BY IpcAssumption DEF IDs

LEMMA AppendOwn ==
  ASSUME NEW q \in Seq(Frames), NEW f \in Frames, NEW kinds, NEW t,
         AllOwn(q, kinds, t), f.kind \in kinds, Own(f, t)
  PROVE  AllOwn(Append(q, f), kinds, t)
<1> SUFFICES ASSUME NEW k \in DOMAIN Append(q, f)
             PROVE  Append(q, f)[k].kind \in kinds /\ Own(Append(q, f)[k], t)
  BY DEF AllOwn
<1>1. CASE k = Len(q) + 1
  BY <1>1
<1>2. CASE k \in DOMAIN q
  BY <1>2 DEF AllOwn
<1> QED
  BY <1>1, <1>2

LEMMA TailOwn ==
  ASSUME NEW q \in Seq(Frames), NEW kinds, NEW t, AllOwn(q, kinds, t), q # <<>>
  PROVE  AllOwn(Tail(q), kinds, t) /\ Head(q).kind \in kinds /\ Own(Head(q), t)
<1>1. \A k \in DOMAIN Tail(q) : k + 1 \in DOMAIN q /\ Tail(q)[k] = q[k + 1]
  OBVIOUS
<1>2. Head(q) = q[1] /\ 1 \in DOMAIN q
  OBVIOUS
<1> QED
  BY <1>1, <1>2 DEF AllOwn

LEMMA NoneOwn == \A kinds, t : AllOwn(<<>>, kinds, t)
  BY DEF AllOwn

LEMMA OneOwn ==
  ASSUME NEW f, NEW kinds, NEW t
  PROVE  AllOwn(<<f>>, kinds, t) <=> f.kind \in kinds /\ Own(f, t)
  BY DEF AllOwn

LEMMA IInvInit == Init => IInv
<1> SUFFICES ASSUME Init PROVE IInv
  OBVIOUS
<1> USE DEF Init
<1>1. TypeOK
  <2>1. /\ ch \in [Calls -> {<<>>} \cup {<<c>> : c \in Calls}]
        /\ hand \in {<<>>} \cup (Calls \X Calls)
        /\ request \in {<<>>} \cup {<<f>> : f \in Frames}
    OBVIOUS
  <2>2. <<>> \in Seq(Frames) /\ Len(<<>>) = 0
    OBVIOUS
  <2>3. streamFrames \in 0 .. MaxStreamFrames /\ ChannelCap \in Nat /\ RawCap \in Nat
    BY IpcAssumption
  <2>4. /\ toPlugin \in Seq(Frames) /\ Len(toPlugin) <= ChannelCap
        /\ toHost \in Seq(Frames) /\ Len(toHost) <= ChannelCap
        /\ rawMsgCh \in Seq(Frames) /\ Len(rawMsgCh) <= RawCap
    BY <2>2, <2>3
  <2>5. /\ activeID \in Nat /\ turn \in [Calls -> Nat]
        /\ callbacks \in [IDs -> Calls \cup {NoCall}]
        /\ result \in [Calls -> Calls \cup {NoCall, Failed}]
    OBVIOUS
  <2>6. /\ pc \in [Calls -> {"idle", "numbered", "stored", "written", "waiting",
                            "returned"}]
        /\ readLoop \in {"read", "push", "ended"} /\ ctxDone \in BOOLEAN
        /\ closer \in {"none", "cancelled", "closed"}
        /\ lang \in {"go", "zig"} /\ plugin \in {"running", "exited"}
    OBVIOUS
  <2> QED
    BY <2>1, <2>3, <2>4, <2>5, <2>6 DEF TypeOK
<1>2. TurnInv
  BY DEF TurnInv
<1>3. FrameInv
  BY NoneOwn DEF FrameInv
<1>4. AnswerInv /\ MapInv
  BY IpcAssumption DEF AnswerInv, MapInv
<1> QED
  BY <1>1, <1>2, <1>3, <1>4 DEF IInv

(***************************************************************************)
(* A step of a call                                                        *)
(***************************************************************************)
LEMMA StepTakeNumber ==
  ASSUME IInv, NEW c \in Calls, TakeNumber(c)
  PROVE  IInv'
<1> USE DEF IInv, TakeNumber, Moves, Add, clientVars, channelVars, pluginVars
<1>0. turn[c] = 0 /\ turn' = [turn EXCEPT ![c] = activeID + 1] /\ activeID \in Nat
  BY DEF TurnInv, TypeOK
<1>1. TypeOK'
  BY <1>0 DEF TypeOK
<1>2. TurnInv'
  BY <1>0 DEF TypeOK, TurnInv
<1>3. \A d, e \in Calls : Matches(d, e, turn) => Matches(d, e, turn')
  BY <1>0 DEF TypeOK, Matches
<1>4. \A f : Own(f, turn) => Own(f, turn')
  BY <1>0 DEF TypeOK, Own
<1>5. \A q, kinds : AllOwn(q, kinds, turn) => AllOwn(q, kinds, turn')
  BY <1>4 DEF AllOwn
<1>6. FrameInv'
  BY <1>5 DEF FrameInv
<1>7. AnswerInv'
  <2>1. hand # <<>> => hand[1] \in Calls /\ hand[2] \in Calls
    BY DEF TypeOK
  <2>2. \A d \in Calls : ch[d] # <<>> => ch[d][1] \in Calls
    BY DEF TypeOK
  <2> QED
    BY <1>3, <2>1, <2>2 DEF AnswerInv
<1>8. MapInv'
  BY <1>0 DEF TypeOK, MapInv, InProgress
<1> QED
  BY <1>1, <1>2, <1>6, <1>7, <1>8

\* The other steps leave the numbers alone, and no call becomes idle.
Keeps == /\ UNCHANGED <<turn, activeID>>
         /\ \A c \in Calls : pc'[c] = "idle" <=> pc[c] = "idle"

LEMMA KeepsTurns == IInv /\ Keeps => TurnInv'
  BY DEF IInv, Keeps, TurnInv

LEMMA StepStore ==
  ASSUME IInv, NEW c \in Calls, Store(c)
  PROVE  IInv'
<1> USE DEF IInv, Store, Moves, clientVars, channelVars, pluginVars
<1>1. TypeOK'
  BY DEF TypeOK
<1>2. TurnInv'
  BY KeepsTurns DEF Keeps, TypeOK
<1>3. FrameInv' /\ AnswerInv'
  BY DEF FrameInv, AnswerInv
<1>4. turn[c] # 0
  BY DEF TurnInv
<1>5. MapInv'
  BY <1>4 DEF TypeOK, MapInv, InProgress, Id
<1> QED
  BY <1>1, <1>2, <1>3, <1>5

LEMMA StepWriteRequest ==
  ASSUME IInv, NEW c \in Calls, WriteRequest(c)
  PROVE  IInv'
<1> USE DEF IInv, WriteRequest, Moves, clientVars, pluginVars
<1>1. turn[c] # 0 /\ turn[c] \in Nat /\ c # NoCall
  BY IpcAssumption DEF TurnInv, TypeOK
<1>2. Frame("request", c) \in Frames /\ Frame("request", c).kind = "request"
  BY <1>1, IdRange DEF Frame, Frames, Id
<1>3. Own(Frame("request", c), turn)
  BY <1>1 DEF Frame, Own, Id
<1>4. toPlugin' \in Seq(Frames) /\ Len(toPlugin') <= ChannelCap
  BY <1>2, IpcAssumption DEF TypeOK
<1>5. TypeOK'
  BY <1>4 DEF TypeOK
<1>6. TurnInv'
  BY KeepsTurns DEF Keeps, TypeOK
<1>7. AllOwn(toPlugin', {"request", "stream"}, turn)
  BY <1>2, <1>3, AppendOwn DEF FrameInv, TypeOK
<1>8. FrameInv' /\ AnswerInv'
  BY <1>7 DEF FrameInv, AnswerInv
<1>9. MapInv'
  BY DEF TypeOK, MapInv, InProgress
<1> QED
  BY <1>5, <1>6, <1>8, <1>9

LEMMA StepSelect ==
  ASSUME IInv, NEW c \in Calls, Select(c)
  PROVE  IInv'
<1> USE DEF IInv, Select, Moves, clientVars, channelVars, pluginVars
<1>1. TypeOK'
  BY DEF TypeOK
<1>2. TurnInv'
  BY KeepsTurns DEF Keeps, TypeOK
<1>3. FrameInv' /\ AnswerInv'
  BY DEF FrameInv, AnswerInv
<1>4. MapInv'
  BY DEF TypeOK, MapInv, InProgress
<1> QED
  BY <1>1, <1>2, <1>3, <1>4

\* A call returns with an error, or with what has its own ID.
LEMMA StepReturns ==
  ASSUME IInv, NEW c \in Calls, NEW r \in Calls \cup {Failed},
         NEW from \in {"stored", "waiting"}, Returns(c, from, r),
         r \in Calls => Matches(c, r, turn)
  PROVE  IInv'
<1> USE DEF IInv, Returns, Moves, clientVars, channelVars, pluginVars
<1>1. TypeOK'
  BY DEF TypeOK
<1>2. TurnInv'
  BY KeepsTurns DEF Keeps, TypeOK
<1>3. FrameInv'
  BY DEF FrameInv
<1>4. AnswerInv'
  BY DEF TypeOK, AnswerInv
<1>5. MapInv'
  <2> SUFFICES ASSUME NEW n \in IDs, callbacks'[n] # NoCall
               PROVE  LET d == callbacks'[n] IN
                      /\ turn'[d] # 0 /\ turn'[d] % IdMod = n
                      /\ pc'[d] \notin {"idle", "returned"}
    BY DEF MapInv, InProgress
  <2>1. n # Id(c) /\ callbacks'[n] = callbacks[n]
    BY DEF TypeOK
  <2>2. callbacks[n] # c /\ callbacks[n] \in Calls
    BY <2>1 DEF MapInv, TypeOK, Id
  <2> QED
    BY <2>1, <2>2 DEF MapInv, InProgress, TypeOK
<1> QED
  BY <1>1, <1>2, <1>3, <1>4, <1>5

LEMMA StepCall ==
  ASSUME IInv, NEW c \in Calls,
         CallSteps(c) \/ TakeNumber(c) \/ WriteRefused(c) \/ TimesOut(c)
  PROVE  IInv'
<1>1. CASE TakesResult(c)
  <2>1. ch[c] # <<>> /\ Head(ch[c]) = ch[c][1] /\ ch[c][1] \in Calls
    BY <1>1 DEF TakesResult, IInv, TypeOK
  <2>2. Matches(c, ch[c][1], turn)
    BY <2>1 DEF IInv, AnswerInv
  <2> QED
    BY <1>1, <2>1, <2>2, StepReturns DEF TakesResult
<1>2. Failed \notin Calls
  BY IpcAssumption
<1>3. CASE WriteFails(c) \/ WriteRefused(c) \/ SeesClientGone(c) \/ TimesOut(c)
  BY <1>2, <1>3, StepReturns DEF WriteFails, WriteRefused, SeesClientGone, TimesOut
<1> QED
  BY <1>1, <1>3, StepTakeNumber, StepStore, StepWriteRequest, StepSelect DEF CallSteps

(***************************************************************************)
(* A step of the loop, of Close or of the plugin leaves the calls alone,   *)
(* but for what the loop hands over.                                       *)
(***************************************************************************)
LEMMA KeepsCalls ==
  ASSUME IInv, UNCHANGED <<activeID, turn, pc, callbacks>>
  PROVE  TurnInv' /\ MapInv'
  BY DEF IInv, TurnInv, MapInv, InProgress

LEMMA StepLoop ==
  ASSUME IInv, Loop
  PROVE  IInv'
<1> USE DEF IInv, callVars, channelVars, pluginVars
<1>1. TurnInv' /\ MapInv'
  BY KeepsCalls DEF Loop, LoopLoads, LoopPushes, LoopEnds, LoopStops
<1>2. CASE LoopLoads
  <2> DEFINE f == Head(toHost)
             c == callbacks[f.id]
  <2>1. /\ toHost \in Seq(Frames) /\ toHost # <<>>
        /\ f \in Frames /\ toHost' = Tail(toHost)
    BY <1>2 DEF LoopLoads, TypeOK
  <2>2. AllOwn(toHost', {"response"}, turn) /\ f.kind = "response" /\ Own(f, turn)
    BY <2>1, TailOwn DEF FrameInv
  <2>3. f.id \in IDs /\ f.call \in Calls /\ turn[f.call] # 0
        /\ f.id = turn[f.call] % IdMod
    BY <2>1, <2>2 DEF Own, Frames
  <2>4. c # NoCall => c \in Calls /\ Matches(c, f.call, turn)
    BY <2>3 DEF TypeOK, MapInv, Matches
  <2>5. toHost' \in Seq(Frames) /\ Len(toHost') <= ChannelCap
    BY <2>1, IpcAssumption DEF TypeOK
  <2>6. \/ c = NoCall /\ UNCHANGED <<readLoop, hand>>
        \/ c # NoCall /\ readLoop' = "push" /\ hand' = <<c, f.call>>
    BY <1>2 DEF LoopLoads
  <2>7. hand' \in {<<>>} \cup (Calls \X Calls)
    BY <2>3, <2>4, <2>6 DEF TypeOK
  <2>8. TypeOK'
    BY <1>2, <2>5, <2>6, <2>7 DEF LoopLoads, TypeOK
  <2>9. FrameInv'
    BY <1>2, <2>2 DEF LoopLoads, FrameInv
  <2>10. AnswerInv'
    BY <1>2, <2>4, <2>6 DEF LoopLoads, AnswerInv
  <2> QED
    BY <1>1, <2>8, <2>9, <2>10
<1>3. CASE LoopPushes
  <2>1. hand[1] \in Calls /\ hand[2] \in Calls /\ Matches(hand[1], hand[2], turn)
    BY <1>3 DEF LoopPushes, TypeOK, AnswerInv
  <2>2. /\ ch' \in [Calls -> {<<>>} \cup {<<c>> : c \in Calls}]
        /\ \A c \in Calls : \/ ch'[c] = ch[c]
                            \/ c = hand[1] /\ ch'[c] = <<hand[2]>>
    BY <1>3, <2>1 DEF LoopPushes, Offer, TypeOK
  <2>3. TypeOK'
    BY <1>3, <2>2 DEF LoopPushes, TypeOK
  <2>4. FrameInv'
    BY <1>3 DEF LoopPushes, FrameInv
  <2>5. AnswerInv'
    BY <1>3, <2>1, <2>2 DEF LoopPushes, AnswerInv
  <2> QED
    BY <1>1, <2>3, <2>4, <2>5
<1>4. CASE LoopEnds \/ LoopStops
  <2>1. TypeOK'
    BY <1>4 DEF LoopEnds, LoopStops, TypeOK
  <2>2. FrameInv' /\ AnswerInv'
    BY <1>4 DEF LoopEnds, LoopStops, FrameInv, AnswerInv
  <2> QED
    BY <1>1, <2>1, <2>2
<1> QED
  BY <1>2, <1>3, <1>4 DEF Loop

LEMMA StepChokes ==
  ASSUME IInv, LoopChokes
  PROVE  IInv'
<1> USE DEF IInv, callVars, pluginVars
<1>1. TurnInv' /\ MapInv'
  BY KeepsCalls DEF LoopChokes
<1>2. /\ toHost \in Seq(Frames) /\ toHost # <<>> /\ toHost' = Tail(toHost)
      /\ Len(toHost) <= ChannelCap
  BY DEF LoopChokes, TypeOK
<1>3. toHost' \in Seq(Frames) /\ Len(toHost') <= ChannelCap
  BY <1>2, IpcAssumption
<1>4. TypeOK'
  BY <1>3 DEF LoopChokes, TypeOK
<1>5. AllOwn(toHost', {"response"}, turn)
  BY <1>2, TailOwn DEF FrameInv
<1>6. FrameInv' /\ AnswerInv'
  BY <1>5 DEF LoopChokes, FrameInv, AnswerInv
<1> QED
  BY <1>1, <1>4, <1>6

LEMMA ExitKeeps ==
  ASSUME IInv, Exit
  PROVE  /\ FrameInv' \/ turn' # turn
         /\ toPlugin' \in Seq(Frames) /\ Len(toPlugin') <= ChannelCap
         /\ rawMsgCh' \in Seq(Frames) /\ Len(rawMsgCh') <= RawCap
         /\ request' = <<>> /\ plugin' = "exited" /\ UNCHANGED <<lang, toHost>>
<1>1. toPlugin' = <<>> /\ rawMsgCh' = <<>> /\ request' = <<>> /\ toHost' = toHost
  BY DEF Exit
<1>2. <<>> \in Seq(Frames) /\ Len(<<>>) = 0 /\ ChannelCap \in Nat /\ RawCap \in Nat
  BY IpcAssumption
<1>3. FrameInv' \/ turn' # turn
  BY <1>1, NoneOwn DEF IInv, FrameInv
<1> QED
  BY <1>1, <1>2, <1>3 DEF Exit

LEMMA StepClose ==
  ASSUME IInv, CloseCancels \/ ClosePlugin \/ RequestChokes \/ Panics
  PROVE  IInv'
<1> USE DEF IInv, callVars, clientVars, channelVars, pluginVars, hostVars
<1>1. TurnInv' /\ MapInv'
  BY KeepsCalls DEF CloseCancels, ClosePlugin, RequestChokes, Panics
<1>2. CASE CloseCancels
  <2>1. TypeOK'
    BY <1>2 DEF CloseCancels, TypeOK
  <2>2. FrameInv' /\ AnswerInv'
    BY <1>2 DEF CloseCancels, FrameInv, AnswerInv
  <2> QED
    BY <1>1, <2>1, <2>2
<1>3. CASE ClosePlugin \/ RequestChokes \/ Panics
  <2>1. Exit /\ UNCHANGED <<callVars, readLoop, hand, ctxDone, streamFrames>>
    BY <1>3 DEF ClosePlugin, RequestChokes, Panics
  <2>2. closer' \in {"none", "cancelled", "closed"}
    BY <1>3 DEF ClosePlugin, RequestChokes, Panics, TypeOK
  <2>3. TypeOK'
    BY <2>1, <2>2, ExitKeeps DEF TypeOK
  <2>4. FrameInv'
    BY <2>1, ExitKeeps
  <2>5. AnswerInv'
    BY <2>1 DEF AnswerInv
  <2> QED
    BY <1>1, <2>3, <2>4, <2>5
<1> QED
  BY <1>2, <1>3

LEMMA StepStreamFrame ==
  ASSUME IInv, WriteStreamFrame
  PROVE  IInv'
<1> USE DEF IInv, callVars, clientVars, pluginVars, WriteStreamFrame
<1>1. TurnInv' /\ MapInv'
  BY KeepsCalls
<1>2. 0 \in IDs
  BY IpcAssumption DEF IDs
<1>3. Frame("stream", NoCall) \in Frames /\ Frame("stream", NoCall).kind = "stream"
  BY <1>2 DEF Frame, Frames
<1>4. Own(Frame("stream", NoCall), turn)
  BY <1>3 DEF Own
<1>5. toPlugin' \in Seq(Frames) /\ Len(toPlugin') <= ChannelCap
  BY <1>3, IpcAssumption DEF TypeOK
<1>6. streamFrames' \in 0 .. MaxStreamFrames
  BY IpcAssumption DEF TypeOK
<1>7. TypeOK'
  BY <1>5, <1>6 DEF TypeOK
<1>8. AllOwn(toPlugin', {"request", "stream"}, turn)
  BY <1>3, <1>4, AppendOwn DEF FrameInv, TypeOK
<1>9. FrameInv' /\ AnswerInv'
  BY <1>8 DEF FrameInv, AnswerInv
<1> QED
  BY <1>1, <1>7, <1>9

(***************************************************************************)
(* The plugin                                                              *)
(***************************************************************************)
\* What the plugin's steps do to the four places a frame can be in.
LEMMA StepPlaces ==
  ASSUME IInv, UNCHANGED <<hostVars, lang, plugin>>,
         toPlugin' \in Seq(Frames), Len(toPlugin') <= ChannelCap,
         toHost' \in Seq(Frames), Len(toHost') <= ChannelCap,
         rawMsgCh' \in Seq(Frames), Len(rawMsgCh') <= RawCap,
         request' \in {<<>>} \cup {<<f>> : f \in Frames},
         AllOwn(toPlugin', {"request", "stream"}, turn),
         AllOwn(rawMsgCh', {"request"}, turn),
         AllOwn(request', {"request"}, turn),
         AllOwn(toHost', {"response"}, turn)
  PROVE  IInv'
<1> USE DEF IInv, hostVars, callVars, clientVars
<1>1. TurnInv' /\ MapInv'
  BY KeepsCalls
<1>2. TypeOK'
  BY DEF TypeOK
<1>3. FrameInv'
  BY DEF FrameInv
<1>4. AnswerInv'
  BY DEF AnswerInv
<1> QED
  BY <1>1, <1>2, <1>3, <1>4

LEMMA TailFits ==
  ASSUME NEW q \in Seq(Frames), NEW cap \in Nat, Len(q) <= cap, q # <<>>
  PROVE  /\ Tail(q) \in Seq(Frames) /\ Len(Tail(q)) <= cap
         /\ Head(q) \in Frames
  OBVIOUS

LEMMA AppendFits ==
  ASSUME NEW q \in Seq(Frames), NEW cap \in Nat, Len(q) < cap, NEW f \in Frames
  PROVE  Append(q, f) \in Seq(Frames) /\ Len(Append(q, f)) <= cap
  OBVIOUS

\* Answering: the response keeps the call and the ID of its request.
LEMMA StepAnswers ==
  ASSUME IInv, GoAnswers \/ ZigAnswers
  PROVE  IInv'
<1> USE DEF GoAnswers, ZigAnswers, Respond
<1> DEFINE f == request[1]
           g == [f EXCEPT !.kind = "response"]
<1>1. /\ UNCHANGED <<hostVars, lang, plugin, toPlugin, rawMsgCh>>
      /\ request # <<>> /\ request' = <<>>
      /\ Len(toHost) < ChannelCap /\ toHost' = Append(toHost, g)
  OBVIOUS
<1>2. f \in Frames /\ request = <<f>>
  BY <1>1 DEF IInv, TypeOK
<1>3. f.kind = "request" /\ Own(f, turn)
  BY <1>2, OneOwn DEF IInv, FrameInv
<1>4. g \in Frames /\ g.kind = "response" /\ g.call = f.call /\ g.id = f.id
  BY <1>2 DEF Frames
<1>5. Own(g, turn)
  BY <1>3, <1>4 DEF Own
<1>6. toHost' \in Seq(Frames) /\ Len(toHost') <= ChannelCap
  BY <1>1, <1>4, AppendFits, IpcAssumption DEF IInv, TypeOK
<1>7. AllOwn(toHost', {"response"}, turn)
  BY <1>1, <1>4, <1>5, AppendOwn DEF IInv, FrameInv, TypeOK
<1>8. AllOwn(request', {"request"}, turn)
  BY <1>1, NoneOwn
<1> QED
  BY <1>1, <1>6, <1>7, <1>8, StepPlaces DEF IInv, TypeOK, FrameInv

\* Taking the next frame from the channel: a request is kept, or put into
\* rawMsgCh, and a stream frame goes elsewhere.
LEMMA StepTakes ==
  ASSUME IInv, GoDispatches \/ ZigDiscards \/ ZigReads
  PROVE  IInv'
<1> USE DEF GoDispatches, ZigDiscards, ZigReads
<1> DEFINE f == Head(toPlugin)
<1>1. /\ UNCHANGED <<hostVars, lang, plugin, toHost>>
      /\ toPlugin # <<>> /\ toPlugin' = Tail(toPlugin)
      /\ \/ UNCHANGED <<rawMsgCh, request>>
         \/ /\ f.kind = "request" /\ Len(rawMsgCh) < RawCap
            /\ rawMsgCh' = Append(rawMsgCh, f) /\ request' = request
         \/ /\ f.kind = "request" /\ request' = <<f>> /\ rawMsgCh' = rawMsgCh
  BY DEF hostVars, pluginVars
<1>2. /\ toPlugin' \in Seq(Frames) /\ Len(toPlugin') <= ChannelCap /\ f \in Frames
  BY <1>1, TailFits, IpcAssumption DEF IInv, TypeOK
<1>3. AllOwn(toPlugin', {"request", "stream"}, turn) /\ Own(f, turn)
  BY <1>1, TailOwn DEF IInv, TypeOK, FrameInv
<1>4. /\ rawMsgCh' \in Seq(Frames) /\ Len(rawMsgCh') <= RawCap
      /\ AllOwn(rawMsgCh', {"request"}, turn)
  <2>1. /\ rawMsgCh \in Seq(Frames) /\ Len(rawMsgCh) <= RawCap /\ RawCap \in Nat
        /\ AllOwn(rawMsgCh, {"request"}, turn)
    BY IpcAssumption DEF IInv, TypeOK, FrameInv
  <2>2. CASE rawMsgCh' = rawMsgCh
    BY <2>1, <2>2
  <2>3. CASE /\ f.kind = "request" /\ Len(rawMsgCh) < RawCap
             /\ rawMsgCh' = Append(rawMsgCh, f)
    <3>1. rawMsgCh' \in Seq(Frames) /\ Len(rawMsgCh') <= RawCap
      BY <1>2, <2>1, <2>3, AppendFits
    <3>2. f.kind \in {"request"}
      BY <2>3
    <3>3. AllOwn(Append(rawMsgCh, f), {"request"}, turn)
      BY <1>2, <1>3, <2>1, <3>2, AppendOwn
    <3> QED
      BY <2>3, <3>1, <3>3
  <2> QED
    BY <1>1, <2>2, <2>3
<1>5. /\ request' \in {<<>>} \cup {<<r>> : r \in Frames}
      /\ AllOwn(request', {"request"}, turn)
  BY <1>1, <1>2, <1>3, OneOwn DEF IInv, TypeOK, FrameInv
<1> QED
  BY <1>1, <1>2, <1>3, <1>4, <1>5, StepPlaces DEF IInv, TypeOK, FrameInv

LEMMA StepGoReads ==
  ASSUME IInv, GoReads
  PROVE  IInv'
<1> USE DEF GoReads
<1>1. /\ rawMsgCh' \in Seq(Frames) /\ Len(rawMsgCh') <= RawCap
      /\ Head(rawMsgCh) \in Frames
  BY TailFits, IpcAssumption DEF IInv, TypeOK
<1>2. /\ AllOwn(rawMsgCh', {"request"}, turn) /\ Own(Head(rawMsgCh), turn)
      /\ Head(rawMsgCh).kind \in {"request"}
  BY TailOwn DEF IInv, TypeOK, FrameInv
<1>3. /\ request' \in {<<>>} \cup {<<f>> : f \in Frames}
      /\ AllOwn(request', {"request"}, turn)
  BY <1>1, <1>2, OneOwn
<1> QED
  BY <1>1, <1>2, <1>3, StepPlaces DEF IInv, TypeOK, FrameInv

LEMMA IInvNext == IInv /\ [Next]_vars => IInv'
<1> SUFFICES ASSUME IInv, [Next]_vars PROVE IInv'
  OBVIOUS
<1>1. CASE \E c \in Calls :
             CallSteps(c) \/ TakeNumber(c) \/ WriteRefused(c) \/ TimesOut(c)
  BY <1>1, StepCall
<1>2. CASE Serve
  BY <1>2, StepAnswers, StepTakes, StepGoReads DEF Serve
<1>3. CASE UNCHANGED vars
  <2>1. TurnInv' /\ MapInv'
    BY <1>3, KeepsCalls DEF vars, callVars
  <2>2. TypeOK'
    BY <1>3 DEF vars, callVars, clientVars, channelVars, pluginVars, IInv, TypeOK
  <2>3. FrameInv'
    BY <1>3 DEF vars, callVars, clientVars, channelVars, pluginVars, IInv, FrameInv
  <2>4. AnswerInv'
    BY <1>3 DEF vars, callVars, clientVars, channelVars, pluginVars, IInv, AnswerInv
  <2> QED
    BY <2>1, <2>2, <2>3, <2>4 DEF IInv
<1> QED
  BY <1>1, <1>2, <1>3, StepLoop, StepChokes, StepClose, StepStreamFrame DEF Next, Proceed, Decide

THEOREM IInvAlways == Spec => []IInv
  BY IInvInit, IInvNext, PTL DEF Spec

(***************************************************************************)
(* The response is not lost.  A call that nobody shares an ID with finds   *)
(* its callback in the map until it returns, so the loop loads it for its  *)
(* response; and every place the request and the response pass through     *)
(* hands them to the next one, or ends with the plugin.                    *)
(***************************************************************************)
Passes(q, c) == \E k \in DOMAIN q : q[k].call = c
Under(c) == pc[c] \in {"stored", "written", "waiting"} /\ Alone(c)
Sent(c) == /\ pc[c] \in {"written", "waiting"} /\ Alone(c)
           /\ plugin = "running" /\ ~ctxDone

StreamInv == \A k \in DOMAIN toPlugin :
               toPlugin[k].kind = "stream" => toPlugin[k].call = NoCall
StoredInv == \A c \in Calls : Under(c) => callbacks[Id(c)] = c
SentInv == \A c \in Calls : Sent(c) => Pending(c)

PInv == IInv /\ StreamInv /\ StoredInv /\ SentInv

LEMMA PendingPlaces ==
  ASSUME NEW c
  PROVE  Pending(c) <=> \/ ch[c] # <<>> \/ hand = <<c, c>>
                        \/ Passes(toPlugin, c) \/ Passes(rawMsgCh, c)
                        \/ Passes(request, c) \/ Passes(toHost, c)
  BY DEF Pending, Passes

LEMMA AppendPasses ==
  ASSUME NEW q \in Seq(Frames), NEW f \in Frames, NEW c
  PROVE  Passes(Append(q, f), c) <=> Passes(q, c) \/ f.call = c
<1>1. /\ DOMAIN Append(q, f) = DOMAIN q \cup {Len(q) + 1}
      /\ \A k \in DOMAIN q : Append(q, f)[k] = q[k]
      /\ Append(q, f)[Len(q) + 1] = f
  OBVIOUS
<1> QED
  BY <1>1 DEF Passes

LEMMA TailPasses ==
  ASSUME NEW q \in Seq(Frames), q # <<>>, NEW c, Passes(q, c)
  PROVE  Passes(Tail(q), c) \/ Head(q).call = c
<1>1. PICK k \in DOMAIN q : q[k].call = c
  BY DEF Passes
<1>2. CASE k = 1
  BY <1>1, <1>2
<1>3. CASE k # 1
  <2>1. k - 1 \in DOMAIN Tail(q) /\ Tail(q)[k - 1] = q[k]
    BY <1>3
  <2> QED
    BY <1>1, <2>1 DEF Passes
<1> QED
  BY <1>2, <1>3

LEMMA OnePasses == \A f, c : Passes(<<f>>, c) <=> f.call = c
  BY DEF Passes

LEMMA NonePasses == \A c : ~Passes(<<>>, c)
  BY DEF Passes

LEMMA PInvInit == Init => PInv
<1> SUFFICES ASSUME Init PROVE PInv
  OBVIOUS
<1>1. IInv
  BY IInvInit
<1>2. StreamInv
  BY DEF Init, StreamInv
<1>3. StoredInv /\ SentInv
  BY DEF Init, StoredInv, SentInv, Under, Sent
<1> QED
  BY <1>1, <1>2, <1>3 DEF PInv

\* A call that shares no ID after a step shared none before it.
LEMMA StaysAlone ==
  ASSUME IInv, NEW d \in Calls, TakeNumber(d), NEW c \in Calls \ {d}, Alone(c)'
  PROVE  Alone(c) /\ Id(c)' = Id(c)
<1>1. turn \in [Calls -> Nat] /\ turn[d] = 0 /\ \A e \in Calls \ {d} : turn'[e] = turn[e]
  BY DEF IInv, TypeOK, TurnInv, TakeNumber, Moves, Add
<1>2. \A e \in Calls \ {c} : turn'[e] = 0 \/ turn'[e] % IdMod # turn'[c] % IdMod
  BY DEF Alone, Id
<1> QED
  BY <1>1, <1>2 DEF Alone, Id

\* A step of one call leaves the callbacks and the responses of the others.
LEMMA CallStored ==
  ASSUME PInv, NEW d \in Calls,
         CallSteps(d) \/ TakeNumber(d) \/ WriteRefused(d) \/ TimesOut(d)
  PROVE  StoredInv'
<1> SUFFICES ASSUME NEW c \in Calls, Under(c)' PROVE callbacks'[Id(c)'] = c
  BY DEF StoredInv
<1>1. /\ pc \in [Calls -> {"idle", "numbered", "stored", "written", "waiting",
                           "returned"}]
      /\ callbacks \in [IDs -> Calls \cup {NoCall}] /\ turn \in [Calls -> Nat]
      /\ Id(c) \in IDs /\ Id(d) \in IDs
  BY IdRange DEF PInv, IInv, TypeOK, Id
<1>2. Under(c) => callbacks[Id(c)] = c
  BY DEF PInv, StoredInv
<1>3. CASE TakeNumber(d)
  <2>1. c # d /\ pc'[c] = pc[c] /\ callbacks' = callbacks
    BY <1>1, <1>3 DEF TakeNumber, Moves, Under
  <2>2. Alone(c) /\ Id(c)' = Id(c)
    BY <1>3, <2>1, StaysAlone DEF PInv, Under
  <2> QED
    BY <1>2, <2>1, <2>2 DEF Under
<1>4. CASE turn' = turn
  <2>1. Alone(c) /\ Id(c)' = Id(c)
    BY <1>4 DEF Under, Alone, Id
  <2>2. CASE Store(d)
    <3>1. c = d => callbacks'[Id(c)] = c
      BY <1>1, <2>2 DEF Store
    <3>2. ASSUME c # d PROVE callbacks'[Id(c)] = c
      <4>1. turn[d] # 0 /\ Id(d) # Id(c)
        BY <2>1, <2>2, <3>2 DEF Store, Moves, PInv, IInv, TurnInv, Alone
      <4>2. pc'[c] = pc[c] /\ callbacks'[Id(c)] = callbacks[Id(c)]
        BY <1>1, <2>2, <3>2, <4>1 DEF Store, Moves
      <4> QED
        BY <1>2, <2>1, <4>2 DEF Under
    <3> QED
      BY <2>1, <3>1, <3>2
  <2>3. CASE WriteRequest(d) \/ Select(d)
    <3>1. callbacks' = callbacks /\ (pc'[c] = pc[c] \/ pc[c] \in {"stored", "written"})
      BY <1>1, <2>3 DEF WriteRequest, Select, Moves
    <3> QED
      BY <1>2, <2>1, <3>1 DEF Under
  <2>4. ASSUME NEW from \in {"stored", "waiting"}, NEW r, Returns(d, from, r)
        PROVE  callbacks'[Id(c)] = c
    <3>1. c # d /\ pc'[c] = pc[c] /\ pc[d] # "idle"
      BY <1>1, <2>4 DEF Returns, Moves, Under
    <3>2. Id(d) # Id(c)
      BY <2>1, <3>1 DEF PInv, IInv, TurnInv, Alone
    <3>3. callbacks'[Id(c)] = callbacks[Id(c)]
      BY <1>1, <2>4, <3>2 DEF Returns
    <3> QED
      BY <1>2, <2>1, <3>1, <3>3 DEF Under
  <2>5. CASE TakesResult(d) \/ WriteFails(d) \/ WriteRefused(d) \/ SeesClientGone(d)
             \/ TimesOut(d)
    BY <2>1, <2>4, <2>5 DEF TakesResult, WriteFails, WriteRefused, SeesClientGone, TimesOut
  <2>6. CASE TakeNumber(d)
    BY <1>3, <2>6
  <2> QED
    BY <2>1, <2>2, <2>3, <2>5, <2>6 DEF CallSteps
<1>5. TakeNumber(d) \/ turn' = turn
  BY DEF CallSteps, Store, WriteRequest, Select, WriteFails, TakesResult, SeesClientGone,
         WriteRefused, TimesOut, Returns
<1> QED
  BY <1>3, <1>4, <1>5

LEMMA CallSent ==
  ASSUME PInv, NEW d \in Calls,
         CallSteps(d) \/ TakeNumber(d) \/ WriteRefused(d) \/ TimesOut(d)
  PROVE  StreamInv' /\ SentInv'
<1>1. /\ pc \in [Calls -> {"idle", "numbered", "stored", "written", "waiting",
                           "returned"}]
      /\ ch \in [Calls -> {<<>>} \cup {<<c>> : c \in Calls}]
      /\ toPlugin \in Seq(Frames)
  BY DEF PInv, IInv, TypeOK
<1>2. CASE WriteRequest(d)
  <2> DEFINE f == Frame("request", d)
  <2>1. /\ toPlugin' = Append(toPlugin, f)
        /\ UNCHANGED <<turn, ch, hand, ctxDone, rawMsgCh, request, toHost, plugin>>
        /\ pc[d] = "stored" /\ pc' = [pc EXCEPT ![d] = "written"]
    BY <1>2 DEF WriteRequest, Moves, clientVars, pluginVars
  <2>2. f \in Frames /\ f.kind = "request" /\ f.call = d
    BY IdRange, IpcAssumption DEF Frame, Frames, Id, PInv, IInv, TypeOK
  <2> HIDE DEF f
  <2>3. StreamInv'
    <3>1. /\ DOMAIN toPlugin' = DOMAIN toPlugin \cup {Len(toPlugin) + 1}
          /\ \A k \in DOMAIN toPlugin : toPlugin'[k] = toPlugin[k]
          /\ toPlugin'[Len(toPlugin) + 1] = f
      BY <1>1, <2>1, <2>2
    <3> QED
      BY <2>2, <3>1 DEF PInv, StreamInv
  <2>4. \A c : Passes(toPlugin', c) <=> Passes(toPlugin, c) \/ c = d
    BY <1>1, <2>1, <2>2, AppendPasses
  <2>5. ASSUME NEW c \in Calls, Sent(c)' PROVE Pending(c)'
    <3>1. c # d => Sent(c)
      BY <1>1, <2>1, <2>5 DEF Sent, Alone, Id
    <3>2. c # d => Pending(c)
      BY <3>1 DEF PInv, SentInv
    <3>3. Passes(toPlugin', c) => Pending(c)'
      BY DEF Pending, Passes
    <3>4. Pending(c) => Pending(c)'
      <4>1. Passes(toPlugin, c) => Passes(toPlugin', c)
        BY <2>4
      <4> QED
        BY <2>1, <4>1, PendingPlaces, <3>3 DEF Pending, Passes
    <3> QED
      BY <2>4, <3>2, <3>3, <3>4
  <2> QED
    BY <2>3, <2>5 DEF SentInv
<1>3. CASE ~WriteRequest(d)
  <2>1. UNCHANGED <<hand, ctxDone, toPlugin, rawMsgCh, request, toHost, plugin>>
    BY <1>3 DEF CallSteps, TakeNumber, Store, Select, WriteFails, TakesResult,
         SeesClientGone, WriteRefused, TimesOut, Returns, clientVars, channelVars, pluginVars
  <2>2. StreamInv'
    BY <2>1 DEF PInv, StreamInv
  <2>3. ASSUME NEW c \in Calls, Sent(c)' PROVE Pending(c)'
    <3>1. pc[c] \in {"written", "waiting"} /\ ch'[c] = ch[c]
      BY <1>1, <1>3, <2>3 DEF CallSteps, TakeNumber, Store, Select, WriteFails,
           TakesResult, SeesClientGone, WriteRefused, TimesOut, Returns, Moves, Sent
    <3>2. Alone(c)
      <4>1. CASE TakeNumber(d)
        <5>1. c # d
          BY <4>1, <3>1 DEF TakeNumber, Moves
        <5> QED
          BY <4>1, <5>1, <2>3, StaysAlone DEF PInv, Sent
      <4>2. CASE turn' = turn
        BY <4>2, <2>3 DEF Sent, Alone, Id
      <4> QED
        BY <1>3, <4>1, <4>2 DEF CallSteps, Store, Select, WriteFails, TakesResult,
             SeesClientGone, WriteRefused, TimesOut, Returns
    <3>3. Sent(c)
      BY <2>1, <2>3, <3>1, <3>2 DEF Sent
    <3> QED
      BY <2>1, <3>1, <3>3 DEF PInv, SentInv, Pending
  <2> QED
    BY <2>2, <2>3 DEF SentInv
<1> QED
  BY <1>2, <1>3

\* The other steps leave the numbers, the calls and the callbacks alone.
LEMMA OthersStored ==
  ASSUME PInv, UNCHANGED <<turn, pc, callbacks>>
  PROVE  StoredInv' /\ \A c \in Calls : Under(c)' <=> Under(c)
  BY DEF PInv, StoredInv, Under, Alone, Id

LEMMA OthersSent ==
  ASSUME PInv, UNCHANGED <<turn, pc>>, plugin' = "running" => plugin = "running",
         ctxDone => ctxDone',
         \A c \in Calls : plugin = "running" /\ Under(c) /\ Pending(c) => Pending(c)'
  PROVE  SentInv'
<1> SUFFICES ASSUME NEW c \in Calls, Sent(c)' PROVE Pending(c)'
  BY DEF SentInv
<1>1. Sent(c) /\ Under(c) /\ plugin = "running"
  BY DEF Sent, Under, Alone, Id
<1> QED
  BY <1>1 DEF PInv, SentInv

\* The loop finds the callback of the call, and its channel takes the response.
LEMMA LoopPends ==
  ASSUME PInv, Loop
  PROVE  StreamInv' /\ StoredInv' /\ SentInv'
<1>1. /\ UNCHANGED <<turn, pc, callbacks, toPlugin, rawMsgCh, request, plugin>>
      /\ pc \in [Calls -> {"idle", "numbered", "stored", "written", "waiting",
                           "returned"}]
      /\ ch \in [Calls -> {<<>>} \cup {<<c>> : c \in Calls}]
  BY DEF Loop, LoopLoads, LoopPushes, LoopEnds, LoopStops, callVars, channelVars,
         pluginVars, PInv, IInv, TypeOK
<1>2. StreamInv' /\ StoredInv'
  BY <1>1, OthersStored DEF StreamInv, PInv
<1>4. ctxDone => ctxDone'
  BY DEF Loop, LoopLoads, LoopPushes, LoopEnds, LoopStops
<1>3. ASSUME NEW c \in Calls, Under(c), Pending(c) PROVE Pending(c)'
  <2>1. CASE LoopLoads
    <3> DEFINE f == Head(toHost)
    <3>1. /\ toHost \in Seq(Frames) /\ toHost # <<>> /\ toHost' = Tail(toHost)
          /\ ch' = ch /\ hand = <<>>
          /\ f \in Frames
      BY <2>1 DEF LoopLoads, callVars, PInv, IInv, TypeOK, AnswerInv
    <3>2. f.kind = "response" /\ Own(f, turn)
      BY <3>1, TailOwn DEF PInv, IInv, FrameInv
    <3>3. ASSUME f.call = c PROVE hand' = <<c, c>>
      <4>1. f.id = Id(c)
        BY <3>2, <3>3 DEF Own, Id
      <4>2. callbacks[f.id] = c /\ c # NoCall
        BY <1>3, <4>1, IpcAssumption DEF PInv, StoredInv
      <4> QED
        BY <2>1, <3>3, <4>2 DEF LoopLoads
    <3>4. Passes(toHost, c) => Passes(toHost', c) \/ hand' = <<c, c>>
      BY <3>1, <3>3, TailPasses
    <3> QED
      BY <1>1, <1>3, <3>1, <3>4, PendingPlaces DEF Pending, Passes
  <2>2. CASE LoopPushes
    <3>1. ch[c] # <<>> => ch'[c] # <<>>
      BY <1>1, <2>2 DEF LoopPushes, Offer
    <3>2. hand = <<c, c>> => ch'[c] # <<>>
      BY <1>1, <1>3, <2>2 DEF LoopPushes, Offer, Under
    <3> QED
      BY <1>1, <1>3, <2>2, <3>1, <3>2 DEF LoopPushes, channelVars, Pending
  <2>3. CASE LoopEnds \/ LoopStops
    BY <1>3, <2>3 DEF LoopEnds, LoopStops, callVars, channelVars, pluginVars, Pending
  <2> QED
    BY <2>1, <2>2, <2>3 DEF Loop
<1> QED
  BY <1>1, <1>2, <1>3, <1>4, OthersSent

\* The plugin and its read loop pass a request on, and answer it.
LEMMA ServePends ==
  ASSUME PInv, Serve
  PROVE  StreamInv' /\ StoredInv' /\ SentInv'
<1>1. UNCHANGED <<turn, pc, callbacks, ch, hand, ctxDone, plugin>>
  BY DEF Serve, GoDispatches, GoReads, GoAnswers, ZigDiscards, ZigReads, ZigAnswers,
         hostVars, callVars, clientVars, pluginVars
<1>2. /\ toPlugin \in Seq(Frames) /\ rawMsgCh \in Seq(Frames) /\ toHost \in Seq(Frames)
      /\ request \in {<<>>} \cup {<<f>> : f \in Frames} /\ NoCall \notin Calls
  BY IpcAssumption DEF PInv, IInv, TypeOK
<1>3. CASE GoDispatches \/ ZigDiscards \/ ZigReads
  <2> DEFINE f == Head(toPlugin)
  <2>1. /\ toPlugin # <<>> /\ toPlugin' = Tail(toPlugin) /\ toHost' = toHost
        /\ \/ f.kind = "stream" /\ UNCHANGED <<rawMsgCh, request>>
           \/ /\ f.kind = "request" /\ rawMsgCh' = Append(rawMsgCh, f)
              /\ request' = request
           \/ /\ request = <<>> /\ request' = <<f>> /\ rawMsgCh' = rawMsgCh
    BY <1>3 DEF GoDispatches, ZigDiscards, ZigReads, pluginVars
  <2>2. f \in Frames /\ (f.kind = "stream" => f.call = NoCall)
    <3>1. f = toPlugin[1] /\ 1 \in DOMAIN toPlugin /\ f \in Frames
      BY <1>2, <2>1
    <3> QED
      BY <3>1 DEF PInv, StreamInv
  <2>3. StreamInv'
    <3>1. \A k \in DOMAIN Tail(toPlugin) : k + 1 \in DOMAIN toPlugin
                                           /\ Tail(toPlugin)[k] = toPlugin[k + 1]
      BY <1>2, <2>1
    <3> QED
      BY <2>1, <3>1 DEF PInv, StreamInv
  <2> HIDE DEF f
  <2>4. ASSUME NEW c \in Calls, Pending(c) PROVE Pending(c)'
    <3>1. Passes(toPlugin, c) => Passes(toPlugin', c) \/ f.call = c
      BY <1>2, <2>1, TailPasses DEF f
    <3> DEFINE r == Append(rawMsgCh, f)
    <3>0. Passes(r, c) <=> Passes(rawMsgCh, c) \/ f.call = c
      BY <1>2, <2>2, AppendPasses
    <3> HIDE DEF r
    <3>2. f.call = c => Passes(rawMsgCh', c) \/ Passes(request', c)
      <4>1. f.kind # "stream"  \/ f.call # c
        BY <1>2, <2>2
      <4> QED
        BY <2>1, <3>0, <4>1, OnePasses DEF r
    <3>3. Passes(rawMsgCh, c) => Passes(rawMsgCh', c)
      <4>1. rawMsgCh' = rawMsgCh \/ rawMsgCh' = r
        BY <2>1 DEF r
      <4> QED
        BY <3>0, <4>1
    <3>4. Passes(request, c) => Passes(request', c)
      BY <2>1, NonePasses
    <3>5. Passes(toPlugin', c) \/ Passes(rawMsgCh', c) \/ Passes(request', c) => Pending(c)'
      BY DEF Pending, Passes
    <3>6. ch[c] # <<>> \/ hand = <<c, c>> \/ Passes(toHost, c) => Pending(c)'
      BY <1>1, <2>1 DEF Pending, Passes
    <3> QED
      BY <2>4, <3>1, <3>2, <3>3, <3>4, <3>5, <3>6, PendingPlaces
  <2> QED
    BY <1>1, <2>3, <2>4, OthersStored, OthersSent
<1>4. CASE GoReads
  <2>1. /\ rawMsgCh # <<>> /\ rawMsgCh' = Tail(rawMsgCh) /\ request = <<>>
        /\ request' = <<Head(rawMsgCh)>> /\ UNCHANGED <<toPlugin, toHost>>
    BY <1>4 DEF GoReads
  <2>2. ASSUME NEW c \in Calls, Pending(c) PROVE Pending(c)'
    <3>1. Passes(rawMsgCh, c) => Passes(rawMsgCh', c) \/ Passes(request', c)
      BY <1>2, <2>1, TailPasses, OnePasses
    <3>2. ~Passes(request, c)
      BY <2>1, NonePasses
    <3>3. Passes(rawMsgCh', c) \/ Passes(request', c) => Pending(c)'
      BY DEF Pending, Passes
    <3>4. ch[c] # <<>> \/ hand = <<c, c>> \/ Passes(toHost, c) \/ Passes(toPlugin, c)
            => Pending(c)'
      BY <1>1, <2>1 DEF Pending, Passes
    <3> QED
      BY <2>2, <3>1, <3>2, <3>3, <3>4, PendingPlaces
  <2>3. StreamInv'
    BY <2>1 DEF PInv, StreamInv
  <2> QED
    BY <1>1, <2>2, <2>3, OthersStored, OthersSent
<1>5. CASE GoAnswers \/ ZigAnswers
  <2> DEFINE f == request[1]
             g == [f EXCEPT !.kind = "response"]
  <2>1. /\ request # <<>> /\ request' = <<>> /\ toHost' = Append(toHost, g)
        /\ UNCHANGED <<toPlugin, rawMsgCh>>
    BY <1>5 DEF GoAnswers, ZigAnswers, Respond
  <2>2. f \in Frames /\ request = <<f>>
    BY <1>2, <2>1
  <2>3. g \in Frames /\ g.call = f.call
    BY <2>2 DEF Frames
  <2> HIDE DEF f, g
  <2>4. ASSUME NEW c \in Calls, Pending(c) PROVE Pending(c)'
    <3>1. Passes(request, c) \/ Passes(toHost, c) => Passes(toHost', c)
      BY <1>2, <2>1, <2>2, <2>3, AppendPasses, OnePasses
    <3>2. Passes(toHost', c) => Pending(c)'
      BY DEF Pending, Passes
    <3>3. ch[c] # <<>> \/ hand = <<c, c>> \/ Passes(toPlugin, c) \/ Passes(rawMsgCh, c)
            => Pending(c)'
      BY <1>1, <2>1 DEF Pending, Passes
    <3> QED
      BY <2>4, <3>1, <3>2, <3>3, PendingPlaces
  <2>5. StreamInv'
    BY <2>1 DEF PInv, StreamInv
  <2> QED
    BY <1>1, <2>4, <2>5, OthersStored, OthersSent
<1> QED
  BY <1>3, <1>4, <1>5 DEF Serve

\* Once the plugin or the client has gone, nothing is promised; and a stream
\* frame goes behind the requests.
LEMMA DecidePends ==
  ASSUME PInv,
         \/ ClosePlugin \/ CloseCancels \/ LoopChokes
         \/ RequestChokes \/ Panics \/ WriteStreamFrame
  PROVE  StreamInv' /\ StoredInv' /\ SentInv'
<1>1. UNCHANGED <<turn, pc, callbacks>>
  BY DEF ClosePlugin, CloseCancels, LoopChokes, RequestChokes, Panics,
         WriteStreamFrame, hostVars, callVars
<1>2. CASE ClosePlugin \/ RequestChokes \/ Panics
  <2>1. plugin' = "exited" /\ toPlugin' = <<>>
    BY <1>2 DEF ClosePlugin, RequestChokes, Panics, Exit
  <2>2. StreamInv' /\ SentInv'
    BY <2>1 DEF StreamInv, SentInv, Sent
  <2> QED
    BY <1>1, <2>2, OthersStored
<1>3. CASE CloseCancels \/ LoopChokes
  <2>1. ctxDone' /\ toPlugin' = toPlugin
    BY <1>3 DEF CloseCancels, LoopChokes, channelVars
  <2>2. StreamInv' /\ SentInv'
    BY <2>1 DEF PInv, StreamInv, SentInv, Sent
  <2> QED
    BY <1>1, <2>2, OthersStored
<1>4. CASE WriteStreamFrame
  <2> DEFINE f == Frame("stream", NoCall)
  <2>1. /\ toPlugin \in Seq(Frames) /\ toPlugin' = Append(toPlugin, f)
        /\ UNCHANGED <<ch, hand, ctxDone, rawMsgCh, request, toHost, plugin>>
    BY <1>4 DEF WriteStreamFrame, callVars, clientVars, pluginVars, PInv, IInv, TypeOK
  <2>2. f \in Frames /\ f.call = NoCall
    BY IpcAssumption DEF Frame, Frames, IDs
  <2> HIDE DEF f
  <2>3. StreamInv'
    <3>1. /\ DOMAIN toPlugin' = DOMAIN toPlugin \cup {Len(toPlugin) + 1}
          /\ \A k \in DOMAIN toPlugin : toPlugin'[k] = toPlugin[k]
          /\ toPlugin'[Len(toPlugin) + 1] = f
      BY <2>1, <2>2
    <3> QED
      BY <2>2, <3>1 DEF PInv, StreamInv
  <2>4. ASSUME NEW c \in Calls, Pending(c) PROVE Pending(c)'
    <3>1. Passes(toPlugin, c) => Passes(toPlugin', c)
      BY <2>1, <2>2, AppendPasses
    <3>2. Passes(toPlugin', c) => Pending(c)'
      BY DEF Pending, Passes
    <3> QED
      BY <2>1, <2>4, <3>1, <3>2, PendingPlaces DEF Pending, Passes
  <2> QED
    BY <1>1, <2>1, <2>3, <2>4, OthersStored, OthersSent
<1> QED
  BY <1>2, <1>3, <1>4

LEMMA PInvNext == PInv /\ [Next]_vars => PInv'
<1> SUFFICES ASSUME PInv, [Next]_vars PROVE PInv'
  OBVIOUS
<1>1. IInv'
  BY IInvNext DEF PInv
<1>2. CASE \E c \in Calls :
             CallSteps(c) \/ TakeNumber(c) \/ WriteRefused(c) \/ TimesOut(c)
  BY <1>1, <1>2, CallStored, CallSent DEF PInv
<1>3. CASE Loop \/ Serve
  BY <1>1, <1>3, LoopPends, ServePends DEF PInv
<1>4. CASE \/ ClosePlugin \/ CloseCancels \/ LoopChokes
           \/ RequestChokes \/ Panics \/ WriteStreamFrame
  BY <1>1, <1>4, DecidePends DEF PInv
<1>5. CASE UNCHANGED vars
  <2>1. UNCHANGED <<turn, pc, callbacks, ch, hand, ctxDone, toPlugin, rawMsgCh,
                    request, toHost, plugin>>
    BY <1>5 DEF vars, callVars, clientVars, channelVars, pluginVars
  <2>2. StreamInv' /\ \A c \in Calls : Pending(c) => Pending(c)'
    BY <2>1 DEF PInv, StreamInv, Pending
  <2> QED
    BY <1>1, <2>1, <2>2, OthersStored, OthersSent DEF PInv
<1> QED
  BY <1>2, <1>3, <1>4, <1>5 DEF Next, Proceed, Decide

(***************************************************************************)
(* What the runs check                                                     *)
(***************************************************************************)
\* The fields of ipcClient and the frames under way always have their types,
\* and neither the channels nor rawMsgCh hold more than they can.
THEOREM TypeCorrect == Spec => []TypeOK
<1>1. IInv => TypeOK
  BY DEF IInv
<1> QED
  BY <1>1, IInvAlways, PTL

\* ipcClient.Call returns the response to its own request, or to one that is
\* whole rounds of the uint32 activeID away.
THEOREM OwnAnswers == Spec => []OwnAnswer
<1>1. IInv => OwnAnswer
  <2> SUFFICES ASSUME IInv, NEW c \in Calls, result[c] \in Calls \ {c}
               PROVE  turn[result[c]] # turn[c] /\ Id(result[c]) = Id(c)
    BY DEF OwnAnswer
  <2>1. Matches(c, result[c], turn)
    BY DEF IInv, AnswerInv
  <2> QED
    BY <2>1 DEF IInv, TurnInv, Matches, Id
<1> QED
  BY <1>1, IInvAlways, PTL

\* The deferred Delete leaves no callback of a call that has returned, also
\* when another call has taken its place in the map.
THEOREM NothingStays == Spec => []NothingLeftBehind
<1>1. IInv => NothingLeftBehind
  <2> SUFFICES ASSUME IInv, NEW n \in IDs, callbacks[n] # NoCall
               PROVE  InProgress(callbacks[n])
    BY DEF NothingLeftBehind
  <2> QED
    BY DEF IInv, MapInv
<1> QED
  BY <1>1, IInvAlways, PTL

\* While the client and the plugin live, the response to a call that waits is
\* still to come: whatever the loop, the other calls and the plugin do, and
\* however full the channels are, the response is never dropped.
THEOREM AnswerStillComes == Spec => []AnswerComes
<1>1. PInv => AnswerComes
  BY DEF PInv, SentInv, Sent, AnswerComes
<1> QED
  BY <1>1, PInvInit, PInvNext, PTL DEF Spec

=============================================================================
