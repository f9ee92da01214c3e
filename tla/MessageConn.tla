---------------------------- MODULE MessageConn ----------------------------
(***************************************************************************)
(* The multiplexed connection of plugo: the two MessageConns at the ends   *)
(* of one byte channel, the read loop each of them runs, the streams they  *)
(* carry, and the goroutines of the two applications that use them.        *)
(*                                                                         *)
(* The applications are the most general ones the API allows: any          *)
(* goroutine may start, accept, send on, receive from, half-close or close *)
(* any stream it holds, at any moment, and may close the connection.       *)
(*                                                                         *)
(* Atomicity.  A step is what one critical section of streamsMu, one       *)
(* channel operation or one frame written under wMu does.  The read loop's *)
(* read of a frame and its lookup of the stream are one step: whatever     *)
(* another goroutine does between the two it could have done just before   *)
(* the read.  A frame crosses the channel whole (what a write cut short by *)
(* its deadline leaves behind is not modelled here), and a payload is the  *)
(* number of the Send that sent it.                                        *)
(***************************************************************************)
EXTENDS Integers, Sequences, FiniteSets

CONSTANTS
  Openers,      \* the ends whose application starts streams
  Handlers,     \* the ends whose application registers a handler
  Routes,       \* what a stream may be started with: TRUE is a route's name,
                \* FALSE the empty route of CreateStream
  Closers,      \* the ends whose application may close the connection
  Blocking,     \* the ends whose rwc is a blocking descriptor, as those of
                \* plugin_unix.go and client.go: closing it ends no read that
                \* waits, and the descriptor stays until that read returns
  MaxStreams,   \* streams each end may start
  MaxSends,     \* payloads each end sends on one stream
  MaxRaw,       \* raw messages each end sends
  MaxCloses,    \* calls of Stream.Close by each end on one stream
  MaxHalfCloses,\* calls of Stream.CloseWrite by each end on one stream
  MaxFaults,    \* reads of the channel that may fail though it is open
  Cancels,      \* whether the contexts passed to writes can end
  RecvCap,      \* capacity of Stream.recvCh
  AcceptCap,    \* capacity of acceptCh
  RawCap,       \* capacity of rawMsgCh
  WireCap       \* frames the channel buffers in one direction

Ends == {"host", "plugin"}
Peer(e) == IF e = "host" THEN "plugin" ELSE "host"

ASSUME ConstantsAssumption ==
  /\ Openers \subseteq Ends /\ Handlers \subseteq Ends /\ Closers \subseteq Ends
  /\ Blocking \subseteq Ends
  /\ Routes \subseteq BOOLEAN /\ Cancels \in BOOLEAN
  /\ MaxStreams \in Nat /\ MaxFaults \in Nat
  /\ MaxSends \in [Ends -> Nat] /\ MaxRaw \in [Ends -> Nat]
  /\ MaxCloses \in [Ends -> Nat] /\ MaxHalfCloses \in [Ends -> Nat]
  /\ RecvCap \in Nat \ {0} /\ AcceptCap \in Nat \ {0}
  /\ RawCap \in Nat \ {0} /\ WireCap \in Nat \ {0}

(* Stream IDs.  0 marks a raw message; the host counts 1, 3, ... and the   *)
(* plugin 2, 4, ...  Each end stops after MaxStreams of them.              *)
RawId == 0
FirstIDSame(e) == 1                          \* mutant: isHost is not looked at
FirstID(e) == IF e = "host" THEN 1 ELSE 2
Ids == {FirstID(e) + 2 * k : e \in Openers, k \in 0 .. (MaxStreams - 1)}

Flags == {"start", "data", "close", "error", "closewrite", "raw"}
Frames == [id : Ids \cup {RawId}, flag : Flags, seq : Nat]
Frame(i, flag, n) == [id |-> i, flag |-> flag, seq |-> n]
NoFrame == Frame(RawId, "raw", 0)

VARIABLES
  conn,         \* "open"; "cancelled": Close has cancelled the streams;
                \* "closing": rwc.Close has returned, and a read of its own
                \* keeps the descriptor; "closed": the descriptor is gone
  wire,         \* wire[e]: frames written to the channel and not read by e
  nextStreamID,
  streams,      \* the IDs that are keys of the streams map
  loop,         \* where the read loop is
  cur,          \* the frame it is dispatching
  acceptCh, rawMsgCh,
  handled,      \* whether the route's handler is registered
  routed,       \* whether stream i was started with a route
  stage,        \* how far the life of stream i has come at this end
  recvCh, chClosed,   \* the stream's channel, and whether it is closed
  cancelled,    \* whether the stream's context is cancelled
  writer,       \* a Send past its checks and before its write
  closer,       \* a Close between its steps
  closes, halfCloses, faults,   \* what the bounds count
  sent, rcvd,   \* payloads of stream i this end has sent, and received
  finAt,        \* what had been sent when the end's Close or CloseWrite
                \* frame was written, -1 before
  last,         \* what the last Recv that returned no payload reported
  rawSent, rawRcvd    \* the same for raw messages

connVars   == <<conn, faults>>
loopVars   == <<loop, cur>>
routeVars  == <<handled, routed>>
streamVars == <<recvCh, chClosed, cancelled>>
clientVars == <<writer, closer, closes, halfCloses>>
histVars   == <<sent, rcvd, finAt, last>>
rawVars    == <<rawMsgCh, rawSent, rawRcvd>>
vars == <<connVars, wire, nextStreamID, streams, loopVars, acceptCh,
          routeVars, stage, streamVars, clientVars, histVars, rawVars>>

PerStream(v) == [e \in Ends |-> [i \in Ids |-> v]]

(* Both ends as the two negotiations return them: the read loop runs, and  *)
(* no handler is registered yet.                                           *)
Init ==
  /\ conn = [e \in Ends |-> "open"]
  /\ wire = [e \in Ends |-> <<>>]
  /\ nextStreamID = [e \in Ends |-> FirstID(e)]
  /\ streams = [e \in Ends |-> {}]
  /\ loop = [e \in Ends |-> "read"]
  /\ cur = [e \in Ends |-> NoFrame]
  /\ acceptCh = [e \in Ends |-> <<>>]
  /\ rawMsgCh = [e \in Ends |-> <<>>]
  /\ handled = [e \in Ends |-> FALSE]
  /\ routed = [i \in Ids |-> FALSE]
  /\ stage = PerStream("none")
  /\ recvCh = PerStream(<<>>)
  /\ chClosed = PerStream(FALSE)
  /\ cancelled = PerStream(FALSE)
  /\ writer = PerStream(FALSE)
  /\ closer = PerStream("idle")
  /\ closes = PerStream(0) /\ halfCloses = PerStream(0) /\ faults = 0
  /\ sent = PerStream(0) /\ rcvd = PerStream(0)
  /\ finAt = PerStream(-1)
  /\ last = PerStream("none")
  /\ rawSent = [e \in Ends |-> 0] /\ rawRcvd = [e \in Ends |-> 0]

(***************************************************************************)
(* The channel                                                             *)
(***************************************************************************)
Up == \A e \in Ends : conn[e] # "closed"
Usable(e) == Up /\ conn[e] # "closing"
Room(e) == Len(wire[Peer(e)]) < WireCap

(* A write to the peer: it waits for room, fails when its own end has been *)
(* closed or the other side is gone, and, when its context can end, gives  *)
(* up waiting.                                                             *)
WriteOvertakes(e, f) ==                      \* mutant: writers do not queue
  /\ Usable(e) /\ Room(e)
  /\ wire' = [wire EXCEPT ![Peer(e)] = <<f>> \o @]
Write(e, f) ==
  /\ Usable(e) /\ Room(e)
  /\ wire' = [wire EXCEPT ![Peer(e)] = Append(@, f)]
WriteFails(e) == ~Usable(e) \/ (Cancels /\ ~Room(e))

(* readLoopErr is set from the failure of the loop on.                     *)
ReadLoopErr(e) == loop[e] \in {"failed", "done"}

(***************************************************************************)
(* Starting a stream                                                       *)
(***************************************************************************)
\* startStream's first critical section: the error check and the ID.
StartAlloc(e) ==
  LET i == nextStreamID[e] IN
  /\ e \in Openers /\ i \in Ids
  /\ ~ReadLoopErr(e)
  /\ nextStreamID' = [nextStreamID EXCEPT ![e] = i + 2]
  /\ stage' = [stage EXCEPT ![e][i] = "alloc"]
  /\ \E r \in Routes : routed' = [routed EXCEPT ![i] = r]
  /\ UNCHANGED <<connVars, wire, streams, loopVars, acceptCh, handled,
                 streamVars, clientVars, histVars, rawVars>>

\* Its second: the Stream is made and put into the map.
FreshUnlisted(e, i) ==                       \* mutant: not put into the map
  /\ recvCh' = [recvCh EXCEPT ![e][i] = <<>>]
  /\ chClosed' = [chClosed EXCEPT ![e][i] = FALSE]
  /\ cancelled' = [cancelled EXCEPT ![e][i] = FALSE]
  /\ UNCHANGED streams
Fresh(e, i) ==
  /\ recvCh' = [recvCh EXCEPT ![e][i] = <<>>]
  /\ chClosed' = [chClosed EXCEPT ![e][i] = FALSE]
  /\ cancelled' = [cancelled EXCEPT ![e][i] = FALSE]
  /\ streams' = [streams EXCEPT ![e] = @ \cup {i}]

StartRegister(e, i) ==
  /\ stage[e][i] = "alloc"
  /\ Fresh(e, i)
  /\ stage' = [stage EXCEPT ![e][i] = "reg"]
  /\ UNCHANGED <<connVars, wire, nextStreamID, loopVars, acceptCh,
                 routeVars, clientVars, histVars, rawVars>>

StartWrite(e, i) ==
  /\ stage[e][i] = "reg"
  /\ Write(e, Frame(i, "start", 0))
  /\ stage' = [stage EXCEPT ![e][i] = "held"]
  /\ UNCHANGED <<connVars, nextStreamID, streams, loopVars, acceptCh,
                 routeVars, streamVars, clientVars, histVars, rawVars>>

\* The write failed, or the caller's context ended before it: the stream is
\* taken out of the map, its context is not cancelled, the caller gets none.
StartFail(e, i) ==
  /\ stage[e][i] = "reg"
  /\ WriteFails(e) \/ Cancels
  /\ streams' = [streams EXCEPT ![e] = @ \ {i}]
  /\ stage' = [stage EXCEPT ![e][i] = "failed"]
  /\ UNCHANGED <<connVars, wire, nextStreamID, loopVars, acceptCh,
                 routeVars, streamVars, clientVars, histVars, rawVars>>

(***************************************************************************)
(* Using a stream                                                          *)
(***************************************************************************)
Held(e, i) == stage[e][i] = "held"

\* Send looks at the stream's context, and writes later.
SendCheck(e, i) ==
  /\ Held(e, i) /\ ~writer[e][i]
  /\ ~cancelled[e][i]
  /\ sent[e][i] < MaxSends[e]
  /\ writer' = [writer EXCEPT ![e][i] = TRUE]
  /\ UNCHANGED <<connVars, wire, nextStreamID, streams, loopVars, acceptCh,
                 routeVars, stage, streamVars, closer, closes, halfCloses,
                 histVars, rawVars>>

SendWrite(e, i) ==
  /\ writer[e][i]
  /\ Write(e, Frame(i, "data", sent[e][i] + 1))
  /\ writer' = [writer EXCEPT ![e][i] = FALSE]
  /\ sent' = [sent EXCEPT ![e][i] = @ + 1]
  /\ UNCHANGED <<connVars, nextStreamID, streams, loopVars, acceptCh,
                 routeVars, stage, streamVars, closer, closes, halfCloses,
                 rcvd, finAt, last, rawVars>>

SendFail(e, i) ==
  /\ writer[e][i]
  /\ WriteFails(e) \/ Cancels
  /\ writer' = [writer EXCEPT ![e][i] = FALSE]
  /\ UNCHANGED <<connVars, wire, nextStreamID, streams, loopVars, acceptCh,
                 routeVars, stage, streamVars, closer, closes, halfCloses,
                 histVars, rawVars>>

\* The end of what this end sends has gone out with its frame.
Finished(e, i) ==
  finAt' = [finAt EXCEPT ![e][i] = IF @ = -1 THEN sent[e][i] ELSE @]

CloseWrite(e, i) ==
  /\ Held(e, i)
  /\ halfCloses[e][i] < MaxHalfCloses[e]
  /\ Write(e, Frame(i, "closewrite", 0))
  /\ Finished(e, i)
  /\ halfCloses' = [halfCloses EXCEPT ![e][i] = @ + 1]
  /\ UNCHANGED <<connVars, nextStreamID, streams, loopVars, acceptCh,
                 routeVars, stage, streamVars, writer, closer, closes,
                 sent, rcvd, last, rawVars>>

\* Close: cancel the context, write the frame, leave the map.
CloseForgets(e, i) ==                        \* mutant: leave the map first
  /\ Held(e, i) /\ closer[e][i] = "idle"
  /\ closes[e][i] < MaxCloses[e]
  /\ cancelled' = [cancelled EXCEPT ![e][i] = TRUE]
  /\ streams' = [streams EXCEPT ![e] = @ \ {i}]
  /\ closer' = [closer EXCEPT ![e][i] = "cancelled"]
  /\ closes' = [closes EXCEPT ![e][i] = @ + 1]
  /\ UNCHANGED <<connVars, wire, nextStreamID, loopVars, acceptCh, routeVars,
                 stage, recvCh, chClosed, writer, halfCloses, histVars,
                 rawVars>>
CloseCancel(e, i) ==
  /\ Held(e, i) /\ closer[e][i] = "idle"
  /\ closes[e][i] < MaxCloses[e]
  /\ cancelled' = [cancelled EXCEPT ![e][i] = TRUE]
  /\ closer' = [closer EXCEPT ![e][i] = "cancelled"]
  /\ closes' = [closes EXCEPT ![e][i] = @ + 1]
  /\ UNCHANGED <<connVars, wire, nextStreamID, streams, loopVars, acceptCh,
                 routeVars, stage, recvCh, chClosed, writer, halfCloses,
                 histVars, rawVars>>

CloseFrame(e, i) ==
  /\ closer[e][i] = "cancelled"
  /\ Write(e, Frame(i, "close", 0))
  /\ Finished(e, i)
  /\ closer' = [closer EXCEPT ![e][i] = "written"]
  /\ UNCHANGED <<connVars, nextStreamID, streams, loopVars, acceptCh,
                 routeVars, stage, streamVars, writer, closes, halfCloses,
                 sent, rcvd, last, rawVars>>

\* The error of the write is ignored.
CloseFrameLost(e, i) ==
  /\ closer[e][i] = "cancelled"
  /\ WriteFails(e)
  /\ closer' = [closer EXCEPT ![e][i] = "written"]
  /\ UNCHANGED <<connVars, wire, nextStreamID, streams, loopVars, acceptCh,
                 routeVars, stage, streamVars, writer, closes, halfCloses,
                 histVars, rawVars>>

CloseRemove(e, i) ==
  /\ closer[e][i] = "written"
  /\ streams' = [streams EXCEPT ![e] = @ \ {i}]
  /\ closer' = [closer EXCEPT ![e][i] = "idle"]
  /\ UNCHANGED <<connVars, wire, nextStreamID, loopVars, acceptCh,
                 routeVars, stage, streamVars, writer, closes, halfCloses,
                 histVars, rawVars>>

(***************************************************************************)
(* Recv tries recvCh first, then waits for recvCh or the stream's context, *)
(* and looks into recvCh once more when the context is the one that woke   *)
(* it: it reports the end of the stream only from an empty recvCh.  Only   *)
(* its last look changes anything, and is the step.                        *)
(***************************************************************************)
RecvFrame(e, i) ==
  /\ Held(e, i) /\ recvCh[e][i] # <<>>
  /\ LET f == Head(recvCh[e][i]) IN
       /\ recvCh' = [recvCh EXCEPT ![e][i] = Tail(@)]
       /\ rcvd' = [rcvd EXCEPT ![e][i] =
                     IF f.flag \in {"closewrite", "error"} THEN @ ELSE f.seq]
       /\ last' = [last EXCEPT ![e][i] =
                     IF f.flag = "closewrite" THEN "eof"
                     ELSE IF f.flag = "error" THEN "error" ELSE @]
       /\ cancelled' = [cancelled EXCEPT ![e][i] = @ \/ f.flag = "error"]
  /\ UNCHANGED <<connVars, wire, nextStreamID, streams, loopVars, acceptCh,
                 routeVars, stage, chClosed, clientVars, sent, finAt,
                 rawVars>>

\* Nothing is left, and the channel is closed or the context cancelled.
AtEndAhead(e, i) == chClosed[e][i] \/ cancelled[e][i]  \* mutant: no last look
AtEnd(e, i) == recvCh[e][i] = <<>> /\ (chClosed[e][i] \/ cancelled[e][i])

RecvEnd(e, i) ==
  /\ Held(e, i) /\ AtEnd(e, i)
  /\ last' = [last EXCEPT ![e][i] = "eof"]
  /\ UNCHANGED <<connVars, wire, nextStreamID, streams, loopVars, acceptCh,
                 routeVars, stage, streamVars, clientVars, sent, rcvd, finAt,
                 rawVars>>

AcceptStream(e) ==
  /\ acceptCh[e] # <<>>
  /\ stage' = [stage EXCEPT ![e][Head(acceptCh[e])] = "held"]
  /\ acceptCh' = [acceptCh EXCEPT ![e] = Tail(@)]
  /\ UNCHANGED <<connVars, wire, nextStreamID, streams, loopVars, routeVars,
                 streamVars, clientVars, histVars, rawVars>>

(***************************************************************************)
(* Using the connection                                                    *)
(***************************************************************************)
WriteData(e) ==
  /\ rawSent[e] < MaxRaw[e]
  /\ Write(e, Frame(RawId, "raw", rawSent[e] + 1))
  /\ rawSent' = [rawSent EXCEPT ![e] = @ + 1]
  /\ UNCHANGED <<connVars, nextStreamID, streams, loopVars, acceptCh,
                 routeVars, stage, streamVars, clientVars, histVars,
                 rawMsgCh, rawRcvd>>

ReadData(e) ==
  /\ rawMsgCh[e] # <<>>
  /\ rawRcvd' = [rawRcvd EXCEPT ![e] = Head(rawMsgCh[e])]
  /\ rawMsgCh' = [rawMsgCh EXCEPT ![e] = Tail(@)]
  /\ UNCHANGED <<connVars, wire, nextStreamID, streams, loopVars, acceptCh,
                 routeVars, stage, streamVars, clientVars, histVars, rawSent>>

RegisterHandler(e) ==
  /\ e \in Handlers /\ ~handled[e]
  /\ handled' = [handled EXCEPT ![e] = TRUE]
  /\ UNCHANGED <<connVars, wire, nextStreamID, streams, loopVars, acceptCh,
                 routed, stage, streamVars, clientVars, histVars, rawVars>>

\* MessageConn.Close: cancel every stream in the map, then close the rwc.
\* What the peer has written and this end has not read is gone with it.
ConnCancel(e) ==
  /\ e \in Closers /\ conn[e] = "open"
  /\ conn' = [conn EXCEPT ![e] = "cancelled"]
  /\ cancelled' = [cancelled EXCEPT ![e] =
                     [i \in Ids |-> @[i] \/ i \in streams[e]]]
  /\ UNCHANGED <<faults, wire, nextStreamID, streams, loopVars, acceptCh,
                 routeVars, stage, recvCh, chClosed, clientVars, histVars,
                 rawVars>>

\* A read that waits on a blocking descriptor keeps it until it returns: with
\* what the peer writes next, or because the peer is gone.
Released(e) ==
  /\ conn' = [conn EXCEPT ![e] = "closed"]
  /\ wire' = [wire EXCEPT ![e] = <<>>]
ConnClose(e) ==
  /\ \/ conn[e] = "cancelled" /\ Released(e)
     \/ /\ conn[e] = "cancelled" /\ e \in Blocking /\ loop[e] = "read"
        /\ conn' = [conn EXCEPT ![e] = "closing"] /\ UNCHANGED wire
     \/ /\ conn[e] = "closing" /\ (wire[e] # <<>> \/ ~Up)
        /\ Released(e)
  /\ UNCHANGED <<faults, nextStreamID, streams, loopVars, acceptCh,
                 routeVars, stage, streamVars, clientVars, histVars, rawVars>>

(***************************************************************************)
(* The read loop                                                           *)
(***************************************************************************)
\* The loop of e reads frame f, looks its stream up, and goes on to l.
Reads(e, f, l) ==
  /\ loop[e] = "read" /\ conn[e] \notin {"closing", "closed"}
  /\ wire[e] # <<>> /\ f = Head(wire[e])
  /\ wire' = [wire EXCEPT ![e] = Tail(@)]
  /\ loop' = [loop EXCEPT ![e] = l]
  /\ cur' = [cur EXCEPT ![e] = IF l = "read" THEN NoFrame ELSE f]

ReturnsOut(e) ==                             \* mutant: return, not continue
  /\ loop' = [loop EXCEPT ![e] = "done"]
  /\ cur' = [cur EXCEPT ![e] = NoFrame]
Returns(e) ==
  /\ loop' = [loop EXCEPT ![e] = "read"]
  /\ cur' = [cur EXCEPT ![e] = NoFrame]

LoopRaw(e) ==
  /\ wire[e] # <<>> /\ Head(wire[e]).id = RawId
  /\ Reads(e, Head(wire[e]), "raw")
  /\ UNCHANGED <<connVars, nextStreamID, streams, acceptCh, routeVars, stage,
                 streamVars, clientVars, histVars, rawVars>>

\* A Start frame for an ID that is not in the map makes the stream.  The
\* handler of its route gets it, or else acceptCh.
LoopStart(e) ==
  /\ wire[e] # <<>>
  /\ LET f == Head(wire[e])
         served == routed[f.id] /\ handled[e] IN
       /\ f.id # RawId /\ f.id \notin streams[e] /\ f.flag = "start"
       /\ Reads(e, f, IF served THEN "read" ELSE "accept")
       /\ Fresh(e, f.id)
       /\ stage' = [stage EXCEPT ![e][f.id] =
                      IF served THEN "held" ELSE "pending"]
  /\ UNCHANGED <<connVars, nextStreamID, acceptCh, routeVars, clientVars,
                 histVars, rawVars>>

\* Any other frame for an ID that is not in the map is answered.
LoopUnknown(e) ==
  /\ wire[e] # <<>>
  /\ LET f == Head(wire[e]) IN
       /\ f.id # RawId /\ f.id \notin streams[e] /\ f.flag # "start"
       /\ Reads(e, f, "reply")
  /\ UNCHANGED <<connVars, nextStreamID, streams, acceptCh, routeVars, stage,
                 streamVars, clientVars, histVars, rawVars>>

\* Cancel the stream, close its channel, take it out of the map.
CloseStreamsKeep(e, S) ==                    \* mutant: delete is missing
  /\ cancelled' = [cancelled EXCEPT ![e] = [i \in Ids |-> @[i] \/ i \in S]]
  /\ chClosed' = [chClosed EXCEPT ![e] = [i \in Ids |-> @[i] \/ i \in S]]
  /\ UNCHANGED streams
CloseStreamsQuiet(e, S) ==                   \* mutant: cancel is missing
  /\ chClosed' = [chClosed EXCEPT ![e] = [i \in Ids |-> @[i] \/ i \in S]]
  /\ streams' = [streams EXCEPT ![e] = @ \ S]
  /\ UNCHANGED cancelled
CloseStreams(e, S) ==
  /\ cancelled' = [cancelled EXCEPT ![e] = [i \in Ids |-> @[i] \/ i \in S]]
  /\ chClosed' = [chClosed EXCEPT ![e] = [i \in Ids |-> @[i] \/ i \in S]]
  /\ streams' = [streams EXCEPT ![e] = @ \ S]

LoopClose(e) ==
  /\ wire[e] # <<>>
  /\ LET f == Head(wire[e]) IN
       /\ f.id \in streams[e] /\ f.flag = "close"
       /\ Reads(e, f, "read")
       /\ CloseStreams(e, {f.id})
  /\ UNCHANGED <<connVars, nextStreamID, acceptCh, routeVars, stage, recvCh,
                 clientVars, histVars, rawVars>>

\* An Error frame cancels the stream before it is pushed.
LoopError(e) ==
  /\ wire[e] # <<>>
  /\ LET f == Head(wire[e]) IN
       /\ f.id \in streams[e] /\ f.flag = "error"
       /\ Reads(e, f, "error")
       /\ cancelled' = [cancelled EXCEPT ![e][f.id] = TRUE]
  /\ UNCHANGED <<connVars, nextStreamID, streams, acceptCh, routeVars, stage,
                 recvCh, chClosed, clientVars, histVars, rawVars>>

LoopData(e) ==
  /\ wire[e] # <<>>
  /\ LET f == Head(wire[e]) IN
       /\ f.id \in streams[e] /\ f.flag \notin {"close", "error"}
       /\ Reads(e, f, "push")
  /\ UNCHANGED <<connVars, nextStreamID, streams, acceptCh, routeVars, stage,
                 streamVars, clientVars, histVars, rawVars>>

\* The selects of the loop also name readLoopDone, which only the loop's own
\* return closes: that case is never ready while the loop waits here.
PushRawOrDrop(e) ==                          \* mutant: a default case
  rawMsgCh' = [rawMsgCh EXCEPT ![e] =
                IF Len(@) < RawCap THEN Append(@, cur[e].seq) ELSE @]
PushRaw(e) ==
  /\ Len(rawMsgCh[e]) < RawCap
  /\ rawMsgCh' = [rawMsgCh EXCEPT ![e] = Append(@, cur[e].seq)]

LoopPushRaw(e) ==
  /\ loop[e] = "raw"
  /\ PushRaw(e)
  /\ Returns(e)
  /\ UNCHANGED <<connVars, wire, nextStreamID, streams, acceptCh, routeVars,
                 stage, streamVars, clientVars, histVars, rawSent, rawRcvd>>

LoopAccept(e) ==
  /\ loop[e] = "accept"
  /\ Len(acceptCh[e]) < AcceptCap
  /\ acceptCh' = [acceptCh EXCEPT ![e] = Append(@, cur[e].id)]
  /\ Returns(e)
  /\ UNCHANGED <<connVars, wire, nextStreamID, streams, routeVars, stage,
                 streamVars, clientVars, histVars, rawVars>>

\* "stream not found", with a context that never ends.
LoopReply(e) ==
  /\ loop[e] = "reply"
  /\ \/ Write(e, Frame(cur[e].id, "error", 0))
     \/ ~Usable(e) /\ UNCHANGED wire
  /\ Returns(e)
  /\ UNCHANGED <<connVars, nextStreamID, streams, acceptCh, routeVars, stage,
                 streamVars, clientVars, histVars, rawVars>>

\* select: give the frame up when the stream is cancelled, or push it.  With
\* both ready either may be taken.
PushOrDrop(e, i) ==                          \* mutant: a default case
  recvCh' = [recvCh EXCEPT ![e][i] =
              IF Len(@) < RecvCap THEN Append(@, cur[e]) ELSE @]
PushUnbounded(e, i) ==                       \* mutant: a list for a channel
  recvCh' = [recvCh EXCEPT ![e][i] = Append(@, cur[e])]
Push(e, i) ==
  \/ /\ cancelled[e][i] /\ UNCHANGED recvCh
  \/ /\ Len(recvCh[e][i]) < RecvCap
     /\ recvCh' = [recvCh EXCEPT ![e][i] = Append(@, cur[e])]

LoopPush(e) ==
  /\ loop[e] = "push"
  /\ Push(e, cur[e].id)
  /\ Returns(e)
  /\ UNCHANGED <<connVars, wire, nextStreamID, streams, acceptCh, routeVars,
                 stage, chClosed, cancelled, clientVars, histVars, rawVars>>

LoopPushError(e) ==
  /\ loop[e] = "error"
  /\ Push(e, cur[e].id)
  /\ streams' = [streams EXCEPT ![e] = @ \ {cur[e].id}]
  /\ Returns(e)
  /\ UNCHANGED <<connVars, wire, nextStreamID, acceptCh, routeVars,
                 stage, chClosed, cancelled, clientVars, histVars, rawVars>>

\* The read fails: rwc is closed, or the peer has closed its side and
\* everything it wrote is read, or the channel fails the read though both
\* sides are open (a deadline some other call left on rwc has passed).  What
\* the peer has not closed fails no read that waits on a blocking descriptor.
ReadFailsOwn(e) ==                           \* mutant: EOF is no failure
  loop[e] = "read" /\ conn[e] = "closed" /\ UNCHANGED faults
ReadFails(e) ==
  /\ loop[e] = "read"
  /\ \/ /\ conn[e] = "closed" \/ (~Up /\ wire[e] = <<>>)
        /\ UNCHANGED faults
     \/ /\ faults < MaxFaults /\ conn[e] # "closing"
        /\ faults' = faults + 1

\* handleReadLoopError: the error is set and every stream closed.
LoopFail(e) ==
  /\ ReadFails(e)
  /\ loop' = [loop EXCEPT ![e] = "failed"]
  /\ CloseStreams(e, streams[e])
  /\ UNCHANGED <<conn, wire, nextStreamID, cur, acceptCh, routeVars, stage,
                 recvCh, clientVars, histVars, rawVars>>

\* acceptCh, readLoopDone and rawMsgCh are closed.
LoopExit(e) ==
  /\ loop[e] = "failed"
  /\ loop' = [loop EXCEPT ![e] = "done"]
  /\ UNCHANGED <<connVars, wire, nextStreamID, streams, cur, acceptCh,
                 routeVars, stage, streamVars, clientVars, histVars, rawVars>>

-----------------------------------------------------------------------------
Loop(e) ==
  \/ LoopRaw(e) \/ LoopStart(e) \/ LoopUnknown(e)
  \/ LoopClose(e) \/ LoopError(e) \/ LoopData(e)
  \/ LoopPushRaw(e) \/ LoopAccept(e) \/ LoopReply(e)
  \/ LoopPush(e) \/ LoopPushError(e)
  \/ LoopFail(e) \/ LoopExit(e)

\* What the application of e decides to do.
Decide(e) ==
  \/ StartAlloc(e) \/ WriteData(e) \/ RegisterHandler(e) \/ ConnCancel(e)
  \/ \E i \in Ids : \/ SendCheck(e, i) \/ CloseWrite(e, i)
                    \/ CloseCancel(e, i)

\* What it takes from stream i, and from the connection.
Receive(e, i) == RecvFrame(e, i) \/ RecvEnd(e, i)
Take(e) == AcceptStream(e) \/ ReadData(e)

\* What a call it has made goes on to do.
Proceed(e, i) ==
  \/ StartRegister(e, i) \/ StartWrite(e, i) \/ StartFail(e, i)
  \/ SendWrite(e, i) \/ SendFail(e, i)
  \/ CloseFrame(e, i) \/ CloseFrameLost(e, i) \/ CloseRemove(e, i)

Next ==
  \E e \in Ends :
    \/ Loop(e) \/ Decide(e) \/ Take(e) \/ ConnClose(e)
    \/ \E i \in Ids : Proceed(e, i) \/ Receive(e, i)

Spec == Init /\ [][Next]_vars

\* The scheduler runs every goroutine that can run: the loops, and the calls
\* in progress.  A writer is served when there is room: wMu is a sync.Mutex,
\* whose starvation mode hands it to the goroutines in their order.
Progress ==
  \A e \in Ends :
    /\ WF_vars(Loop(e)) /\ WF_vars(ConnClose(e))
    /\ \A i \in Ids : SF_vars(Proceed(e, i))

\* What an application does that never stops taking what arrives: it accepts
\* streams, reads raw messages, and receives on the streams in S.
Attentive(S) ==
  \A e \in Ends : WF_vars(Take(e)) /\ \A i \in S : WF_vars(Receive(e, i))

(***************************************************************************)
(* Properties                                                              *)
(***************************************************************************)

\* Every variable has the values the fields of MessageConn and Stream can
\* have; the channels of a connection never hold more than make gave them.
TypeOK ==
  /\ conn \in [Ends -> {"open", "cancelled", "closing", "closed"}]
  /\ wire \in [Ends -> Seq(Frames)]
  /\ nextStreamID \in [Ends -> Nat]
  /\ streams \in [Ends -> SUBSET Ids]
  /\ loop \in [Ends -> {"read", "raw", "accept", "reply", "push", "error",
                       "failed", "done"}]
  /\ cur \in [Ends -> Frames]
  /\ acceptCh \in [Ends -> Seq(Ids)] /\ rawMsgCh \in [Ends -> Seq(Nat)]
  /\ handled \in [Ends -> BOOLEAN] /\ routed \in [Ids -> BOOLEAN]
  /\ stage \in [Ends -> [Ids -> {"none", "alloc", "reg", "failed",
                                "pending", "held"}]]
  /\ recvCh \in [Ends -> [Ids -> Seq(Frames)]]
  /\ chClosed \in [Ends -> [Ids -> BOOLEAN]]
  /\ cancelled \in [Ends -> [Ids -> BOOLEAN]]
  /\ writer \in [Ends -> [Ids -> BOOLEAN]]
  /\ closer \in [Ends -> [Ids -> {"idle", "cancelled", "written"}]]
  /\ closes \in [Ends -> [Ids -> Nat]] /\ halfCloses \in [Ends -> [Ids -> Nat]]
  /\ faults \in Nat
  /\ sent \in [Ends -> [Ids -> Nat]] /\ rcvd \in [Ends -> [Ids -> Nat]]
  /\ finAt \in [Ends -> [Ids -> Nat \cup {-1}]]
  /\ last \in [Ends -> [Ids -> {"none", "eof", "error"}]]
  /\ rawSent \in [Ends -> Nat] /\ rawRcvd \in [Ends -> Nat]
  /\ \A e \in Ends : /\ Len(wire[e]) <= WireCap
                     /\ Len(acceptCh[e]) <= AcceptCap
                     /\ Len(rawMsgCh[e]) <= RawCap
                     /\ \A i \in Ids : Len(recvCh[e][i]) <= RecvCap

\* The read loop never sends on a recvCh it has closed and never closes one
\* twice: either would panic and take the process down.
NoPanic ==
  \A e \in Ends :
    /\ \A i \in streams[e] : ~chClosed[e][i]
    /\ loop[e] \in {"push", "error"} => ~chClosed[e][cur[e].id]

\* What is on its way to e on stream i: in recvCh, in the hands of the loop,
\* or on the wire, where the frames of other streams are too.
Hand(e, i) ==
  IF loop[e] \in {"push", "error"} /\ cur[e].id = i THEN <<cur[e]>> ELSE <<>>
Line(e, i) == recvCh[e][i] \o Hand(e, i) \o wire[e]
DataOf(i, q) == {k \in DOMAIN q : q[k].id = i /\ q[k].flag = "data"}

\* A stream delivers payloads in the order of the Sends, none twice and none
\* that was not sent, whatever either end closes or drops meanwhile.
InOrder ==
  \A e \in Ends : \A i \in Ids :
    LET q == Line(e, i) IN
    \A k \in DataOf(i, q) :
      /\ rcvd[e][i] < q[k].seq /\ q[k].seq <= sent[Peer(e)][i]
      /\ \A j \in DataOf(i, q) : j < k => q[j].seq < q[k].seq

\* No payload is lost on a stream this end has neither closed nor seen fail:
\* each one sent and not received is in recvCh, in the loop or on the wire.
Live(e, i) ==
  /\ conn[e] = "open" /\ ~ReadLoopErr(e)
  /\ closes[e][i] = 0 /\ stage[e][i] # "failed"
NoLoss ==
  \A e \in Ends : \A i \in Ids :
    Live(e, i) /\ ~cancelled[e][i] =>
      LET q == Line(e, i) IN
      {q[k].seq : k \in DataOf(i, q)} = (rcvd[e][i] + 1) .. sent[Peer(e)][i]

\* Recv says EOF on a stream only its peer has closed after it has handed out
\* every payload sent before the Close or CloseWrite ("to prevent data loss
\* when the stream is quickly closed by the peer").
EOFMeansAll ==
  \A e \in Ends : \A i \in Ids :
    Live(e, i) /\ last[e][i] = "eof" =>
      finAt[Peer(e)][i] # -1 /\ rcvd[e][i] >= finAt[Peer(e)][i]

\* "stream not found" is said only of a stream that has ended at this end,
\* never of one it has yet to register or to learn of.
RejectsOnlyEnded ==
  \A e \in Ends :
    loop[e] = "reply" =>
      LET i == cur[e].id IN cancelled[e][i] \/ stage[e][i] = "failed"

\* The Close frame is out before the stream leaves the map, so the peer has
\* dropped its stream before it can be told "stream not found": unless a write
\* gave up, an Error frame finds no stream but one its own end is closing.
NoErrorOnLive ==
  ~Cancels => \A e \in Ends : loop[e] = "error" => closes[e][cur[e].id] > 0

\* The two ends never number two streams alike: a Start frame always makes a
\* stream, and never lands in the recvCh of one that is there.
NoCollision == \A e \in Ends : loop[e] = "push" => cur[e].flag # "start"

\* Raw messages arrive in the order they were written, none lost while the
\* loop runs, beside the streams that share the channel: what is written and
\* not read is in rawMsgCh first, then with the loop, then on the wire.
RawHand(e) == IF loop[e] = "raw" THEN <<cur[e]>> ELSE <<>>
RawOf(q) == {k \in DOMAIN q : q[k].id = RawId}
RawInOrder ==
  \A e \in Ends :
    conn[e] # "closed" /\ ~ReadLoopErr(e) =>
      LET q == RawHand(e) \o wire[e]
          n == rawRcvd[e] + Len(rawMsgCh[e]) IN
      /\ \A k \in DOMAIN rawMsgCh[e] : rawMsgCh[e][k] = rawRcvd[e] + k
      /\ {q[k].seq : k \in RawOf(q)} = (n + 1) .. rawSent[Peer(e)]
      /\ \A j, k \in RawOf(q) : j < k => q[j].seq < q[k].seq

-----------------------------------------------------------------------------
\* Every payload arrives that was sent before the sender ended the stream,
\* unless the receiver ends it.
Delivered ==
  \A e \in Ends : \A i \in Ids :
    sent[Peer(e)][i] > rcvd[e][i] ~>
      \/ rcvd[e][i] = sent[Peer(e)][i]
      \/ finAt[Peer(e)][i] # -1 /\ rcvd[e][i] >= finAt[Peer(e)][i]
      \/ ~Live(e, i)

\* The loop of e waits for its application in a select of which no other case
\* can become ready: readLoopDone, which the loop itself closes on its way out
\* (conn.go 309 and 389), or the context of a stream that is not cancelled
\* (419 and 427).
LoopWaits(e) ==
  \/ loop[e] = "raw" /\ Len(rawMsgCh[e]) = RawCap
  \/ loop[e] = "accept" /\ Len(acceptCh[e]) = AcceptCap
  \/ /\ loop[e] \in {"push", "error"} /\ Len(recvCh[e][cur[e].id]) = RecvCap
     /\ ~cancelled[e][cur[e].id]
Unblocked == \A e \in Ends : ~LoopWaits(e)

\* "Close closes the stream, notifying the peer": a Close that has returned
\* releases the receivers of the stream at the peer, unless the connection is
\* closed, or a loop waits for its application, which nothing here makes take
\* anything (stream.go 137-146, conn.go 407-415).
CloseReachesPeer ==
  \A e \in Ends : \A i \in Ids :
    []<>(closes[e][i] > 0 /\ closer[e][i] = "idle" /\ Usable(e) /\ Unblocked =>
           cancelled[Peer(e)][i] /\ i \notin streams[Peer(e)])

\* A call that was made returns, whatever is closed meanwhile, unless the loop
\* of an end waits for its application (conn_routing.go 31-66, stream.go 46-61
\* and 137-146).
CallsReturn ==
  \A e \in Ends : \A i \in Ids :
    []<>(Unblocked =>
           stage[e][i] \notin {"alloc", "reg"} /\ ~writer[e][i] /\ closer[e][i] = "idle")

\* A Close on a blocking descriptor that has reached nobody.
Unheard(e) == conn[e] = "closing" /\ wire[e] = <<>> /\ Up
Closed == (\E e \in Ends : conn[e] # "open") /\ \A e \in Ends : ~Unheard(e)

\* After a MessageConn.Close at one end the loops of both ends end (conn.go 62,
\* 285, 441), with two exceptions.  A loop that waits for its application stays
\* (LoopWaits); and a Close on a blocking descriptor while the loop waits in its
\* read ends neither loop before the peer writes or goes (Unheard).
CloseEndsLoops ==
  \A e \in Ends : []<>(Closed => loop[e] = "done" \/ LoopWaits(e))

\* With the same two exceptions, a MessageConn.Close at one end cancels every
\* stream an application holds, at both ends: no Recv waits for a peer that is
\* gone (stream.go 86).
CloseEndsStreams ==
  \A e \in Ends : \A i \in Ids :
    []<>(Closed /\ Held(e, i) => cancelled[e][i] \/ LoopWaits(e))

\* A stream both ends have closed carries nothing more.
Carried(i) ==
  \E e \in Ends : \/ loop[e] = "reply" /\ cur[e].id = i
                  \/ \E k \in DOMAIN wire[e] : wire[e][k].id = i
ClosedIsQuiet ==
  \A i \in Ids :
    (\A e \in Ends : closes[e][i] > 0 /\ closer[e][i] = "idle") ~> ~Carried(i)

\* After the read loop has crashed no caller gets a stream that is alive.
NoStreamAfterCrash ==
  \A e \in Ends : \A i \in Ids :
    loop[e] = "done" /\ stage[e][i] = "held" => cancelled[e][i]

=============================================================================
