------------------------------- MODULE Calls -------------------------------
(***************************************************************************)
(* One routed call of the host, through the typed Route of both ends: the  *)
(* pattern SingleMulti, one request and many responses, or MultiSingle,    *)
(* many requests and one response.  What makes the two work is a chain of  *)
(* goroutines that hand payloads from one Go channel to the next, through  *)
(* the stream in the middle; each must pass on the end of what it copies,  *)
(* and end itself, whichever of its neighbours has gone.                   *)
(*                                                                         *)
(* The stream is what MessageConn shows it to be, without its Error        *)
(* frames: a frame for a stream that has ended is dropped, since the       *)
(* answer finds a stream its own end is closing (NoErrorOnLive), or one    *)
(* whose peer has given up its Close, where it could only end a goroutine  *)
(* that waits.  Nobody else writes to the connection, and the two seconds  *)
(* of Close and CloseWrite are enough while the loop at the other end goes *)
(* on.  A payload is the number of its Send.                               *)
(*                                                                         *)
(* The applications are outside: what takes the responses and gives the    *)
(* requests, and the code of the handler between its calls of the package. *)
(* They may do their next step or not, and nothing here makes them.        *)
(***************************************************************************)
EXTENDS Integers, Sequences

CONSTANTS
  MaxPayloads,   \* responses, or requests, of the call
  Garbled,       \* the payloads whose Unmarshal fails
  Unencodable,   \* and those whose Marshal does
  ChanCap,       \* capacity of the Go channels of payloads
  RecvCap,       \* capacity of Stream.recvCh
  WireCap        \* frames the connection buffers in one direction

ASSUME CallsAssumption ==
  /\ MaxPayloads \in Nat /\ Garbled \subseteq Nat /\ Unencodable \subseteq Nat
  /\ ChanCap \in Nat \ {0} /\ RecvCap \in Nat \ {0} /\ WireCap \in Nat \ {0}

Ends == {"host", "plugin"}
Peer(e) == IF e = "host" THEN "plugin" ELSE "host"

(* The Go channels, and the goroutines that copy one into another.         *)
Chans == {"rawResp", "resp", "reqs", "rawReqs", "rawTaken", "taken"}
From(g) == IF g = "pumpResp" THEN "rawResp"
           ELSE IF g = "pumpReqs" THEN "reqs" ELSE "rawTaken"
To(g) == IF g = "pumpResp" THEN "resp"
         ELSE IF g = "pumpReqs" THEN "rawReqs" ELSE "taken"
Pumps == {"pumpResp", "pumpReqs", "pumpTaken"}
OfHost == {"call", "copier", "pumpResp", "feeder", "pumpReqs"}
OfPlugin == {"handler", "taker", "pumpTaken"}
Goroutines == OfHost \cup OfPlugin

Flags == {"start", "data", "closewrite", "close"}
Frames == [flag : Flags, val : Nat]
Frame(flag, n) == [flag |-> flag, val |-> n]

VARIABLES
  mode,         \* the pattern of the route
  deadlines,    \* whether SetDeadline ends a write that waits: not on the
                \* blocking descriptors of plugin_unix.go and client.go
  served,       \* whether the plugin has its handler registered when the
                \* Start frame comes
  ctxDone,      \* whether the context of the call has ended
  up,           \* whether the plugin's process lives
  lost,         \* the ends that have given up a CloseWrite or Close frame
  wire, recvCh, cancelled, open,   \* the stream; open: it is in the map
  pc, hand,     \* where a goroutine is, and the payload it holds
  queue, closed,    \* the Go channels
  given,        \* requests the application has given
  sent,         \* responses the handler has sent
  early,        \* whether the handler returned before its requests' end
  got,          \* SingleMulti: the responses the application has received
                \* MultiSingle: the requests the handler has received
  reply         \* what CallMultiSingle returned

envVars    == <<mode, deadlines, served, ctxDone, up, lost>>
streamVars == <<wire, recvCh, cancelled, open>>
chanVars   == <<queue, closed>>
appVars    == <<given, sent, early, got, reply>>
vars == <<envVars, streamVars, pc, hand, chanVars, appVars>>

Init ==
  /\ mode \in {"SingleMulti", "MultiSingle"}
  /\ deadlines \in BOOLEAN /\ served \in BOOLEAN
  /\ ctxDone = FALSE /\ up = TRUE /\ lost = {}
  /\ wire = [e \in Ends |-> <<>>] /\ recvCh = [e \in Ends |-> <<>>]
  /\ cancelled = [e \in Ends |-> FALSE] /\ open = [e \in Ends |-> FALSE]
  /\ pc = [g \in Goroutines |-> "off"] /\ hand = [g \in Goroutines |-> 0]
  /\ queue = [c \in Chans |-> <<>>] /\ closed = [c \in Chans |-> FALSE]
  /\ given = 0 /\ sent = 0 /\ early = FALSE /\ got = <<>> /\ reply = "none"

\* What has no encoding comes to no Unmarshal.
Readable(n) == n \notin Garbled \cup Unencodable
\* q is what unmarshals of the payloads up to n, in their order.
ReadableUpTo(q, n) ==
  /\ \A k \in DOMAIN q : q[k] \in 1 .. n /\ Readable(q[k])
  /\ \A m \in 1 .. n : Readable(m) => \E k \in DOMAIN q : q[k] = m
  /\ \A j, k \in DOMAIN q : j < k => q[j] < q[k]

Moves(g, from, to) == pc[g] = from /\ pc' = [pc EXCEPT ![g] = to]

(***************************************************************************)
(* The stream                                                              *)
(***************************************************************************)
Room(e) == Len(wire[Peer(e)]) < WireCap
Write(e, f) ==
  /\ up /\ Room(e)
  /\ wire' = [wire EXCEPT ![Peer(e)] = Append(@, f)]
  /\ UNCHANGED <<recvCh, cancelled, open>>

Send(e, n) == ~cancelled[e] /\ Write(e, Frame("data", n))
\* The context of a Send is that of the call at the host and that of the
\* stream at the plugin.  It may have ended before the write, ...
SendFails(e) == cancelled[e] \/ ~up \/ (e = "host" /\ ctxDone)
\* ... but a write that waits already is ended by a deadline only.
GoesOn(e) ==
  \/ Room(e) \/ ~up
  \/ deadlines /\ IF e = "host" THEN ctxDone ELSE cancelled[e]

\* The loop of e waits for room in the stream, which nobody receives on: it
\* was never accepted, or who receives waits for the application itself.
Parked == pc["handler"] = "parked"
Waits(g) == hand[g] # 0 /\ Len(queue[To(g)]) = ChanCap
Behind(g, c) == pc[g] = "push" /\ Len(queue[c]) = ChanCap
LoopWaits(e) ==
  /\ IF e = "host" THEN Waits("pumpResp") /\ Behind("copier", "rawResp")
     ELSE Parked \/ (Waits("pumpTaken") /\ Behind("taker", "rawTaken"))
  /\ open[e] /\ ~cancelled[e] /\ Len(recvCh[e]) = RecvCap
  /\ wire[e] # <<>> /\ Head(wire[e]).flag \in {"data", "closewrite"}

\* A write that is given two seconds: they pass while the peer's loop waits.
Stalled(e) == up /\ ~Room(e) /\ LoopWaits(Peer(e))
WriteGivesUp(e) == ~up \/ (deadlines /\ Stalled(e))
GivesUp(e) == WriteGivesUp(e) /\ lost' = lost \cup {e}

\* Recv gives the first payload, ...
Arrived(e) == recvCh[e] # <<>> /\ Head(recvCh[e]).flag = "data"
Recv(e) ==
  /\ Arrived(e)
  /\ recvCh' = [recvCh EXCEPT ![e] = Tail(@)]
  /\ UNCHANGED <<wire, cancelled, open>>
\* ... or the end: what is left is a CloseWrite frame, or nothing.
AtEndAhead(e) ==                             \* mutant: no last look
  cancelled[e] \/ (recvCh[e] # <<>> /\ Head(recvCh[e]).flag = "closewrite")
AtEnd(e) ==
  IF recvCh[e] = <<>> THEN cancelled[e] ELSE Head(recvCh[e]).flag = "closewrite"

\* Close in two steps: the context, then the frame and the map.
Cancel(e) ==
  /\ cancelled' = [cancelled EXCEPT ![e] = TRUE]
  /\ UNCHANGED <<wire, recvCh, open>>
CloseEnd(g, e) ==
  /\ Moves(g, "closing", "done")
  /\ \/ /\ up /\ Room(e)
        /\ wire' = [wire EXCEPT ![Peer(e)] = Append(@, Frame("close", 0))]
        /\ UNCHANGED lost
     \/ GivesUp(e) /\ UNCHANGED wire
  /\ open' = [open EXCEPT ![e] = FALSE]
  /\ UNCHANGED <<mode, deadlines, served, ctxDone, up, recvCh, cancelled, hand,
                 chanVars, appVars>>

\* The loop of e dispatches a frame of the stream.
Dispatch(e) ==
  /\ wire[e] # <<>>
  /\ LET f == Head(wire[e]) IN
       /\ f.flag # "start"
       /\ \/ ~open[e] /\ UNCHANGED <<recvCh, cancelled, open>>
          \/ /\ open[e] /\ f.flag = "close"
             /\ cancelled' = [cancelled EXCEPT ![e] = TRUE]
             /\ open' = [open EXCEPT ![e] = FALSE]
             /\ UNCHANGED recvCh
          \/ /\ open[e] /\ f.flag # "close" /\ Len(recvCh[e]) < RecvCap
             /\ recvCh' = [recvCh EXCEPT ![e] = Append(@, f)]
             /\ UNCHANGED <<cancelled, open>>
          \/ /\ open[e] /\ f.flag # "close" /\ cancelled[e]
             /\ UNCHANGED <<recvCh, cancelled, open>>
  /\ wire' = [wire EXCEPT ![e] = Tail(@)]
  /\ UNCHANGED <<envVars, pc, hand, chanVars, appVars>>

\* A Start frame: the handler's goroutines start, or the stream is parked in
\* acceptCh, where the plugin of a routed call has nobody waiting.
DispatchStart ==
  /\ wire["plugin"] # <<>> /\ Head(wire["plugin"]).flag = "start"
  /\ wire' = [wire EXCEPT !["plugin"] = Tail(@)]
  /\ open' = [open EXCEPT !["plugin"] = TRUE]
  /\ pc' = [pc EXCEPT !["handler"] = IF served THEN "recv" ELSE "parked"]
  /\ UNCHANGED <<envVars, recvCh, cancelled, hand, chanVars, appVars>>

\* The read of the host's loop fails once the plugin is gone.
LoopFails ==
  /\ ~up /\ wire["host"] = <<>> /\ open["host"]
  /\ cancelled' = [cancelled EXCEPT !["host"] = TRUE]
  /\ open' = [open EXCEPT !["host"] = FALSE]
  /\ UNCHANGED <<envVars, wire, recvCh, pc, hand, chanVars, appVars>>

(***************************************************************************)
(* The Go channels                                                         *)
(***************************************************************************)
PutAlways(c, n) ==                           \* mutant: a list for a channel
  queue' = [queue EXCEPT ![c] = Append(@, n)]
Put(c, n) ==
  /\ Len(queue[c]) < ChanCap
  /\ queue' = [queue EXCEPT ![c] = Append(@, n)]
Get(c) == queue[c] # <<>> /\ queue' = [queue EXCEPT ![c] = Tail(@)]
Over(c) == queue[c] = <<>> /\ closed[c]
CloseChan(c) == closed' = [closed EXCEPT ![c] = TRUE] /\ UNCHANGED queue

\* for x := range from: what does not marshal or unmarshal is left out.
Converts(g, n) == IF g = "pumpReqs" THEN n \notin Unencodable ELSE Readable(n)
PumpTakes(g) ==
  /\ pc[g] = "run" /\ hand[g] = 0
  /\ Get(From(g))
  /\ hand' = [hand EXCEPT ![g] =
                LET n == Head(queue[From(g)]) IN IF Converts(g, n) THEN n ELSE 0]
  /\ UNCHANGED <<envVars, streamVars, pc, closed, appVars>>
PumpPuts(g) ==
  /\ pc[g] = "run" /\ hand[g] # 0
  /\ Put(To(g), hand[g])
  /\ hand' = [hand EXCEPT ![g] = 0]
  /\ UNCHANGED <<envVars, streamVars, pc, closed, appVars>>
PumpEnds(g) ==
  /\ hand[g] = 0 /\ Over(From(g))
  /\ Moves(g, "run", "done")
  /\ CloseChan(To(g))
  /\ UNCHANGED <<envVars, streamVars, hand, appVars>>

(***************************************************************************)
(* The caller                                                              *)
(***************************************************************************)
\* Route.CallMultiSingle starts its pump before the stream.
CallStart ==
  /\ pc["call"] = "off"
  /\ open' = [open EXCEPT !["host"] = TRUE]
  /\ pc' = [pc EXCEPT !["call"] = "start",
                      !["pumpReqs"] = IF mode = "MultiSingle" THEN "run" ELSE @]
  /\ UNCHANGED <<envVars, wire, recvCh, cancelled, hand, chanVars, appVars>>

CallWritesStart ==
  /\ pc["call"] = "start"
  /\ Write("host", Frame("start", 0))
  /\ pc' = [pc EXCEPT
              !["call"] = IF mode = "MultiSingle" THEN "recv" ELSE "request",
              !["feeder"] = IF mode = "MultiSingle" THEN "run" ELSE @]
  /\ UNCHANGED <<envVars, hand, chanVars, appVars>>

CallStartFails ==
  /\ Moves("call", "start", "done")
  /\ ~up \/ ctxDone
  /\ open' = [open EXCEPT !["host"] = FALSE]
  /\ reply' = "error"
  /\ UNCHANGED <<envVars, wire, recvCh, cancelled, hand, chanVars, given, sent,
                 early, got>>

\* SingleMulti: the request, its end, and the goroutines that receive.
CallSendsRequest ==
  /\ Moves("call", "request", "end")
  /\ Send("host", 0)
  /\ UNCHANGED <<envVars, hand, chanVars, appVars>>
CallEndsRequest ==
  /\ pc["call"] = "end"
  /\ Write("host", Frame("closewrite", 0))
  /\ pc' = [pc EXCEPT !["call"] = "done", !["copier"] = "recv", !["pumpResp"] = "run"]
  /\ UNCHANGED <<envVars, hand, chanVars, appVars>>
CallRequestFails ==
  /\ \/ Moves("call", "request", "closing") /\ SendFails("host")
     \/ Moves("call", "end", "closing") /\ WriteGivesUp("host")
  /\ Cancel("host")
  /\ reply' = "error"
  /\ UNCHANGED <<envVars, hand, chanVars, given, sent, early, got>>

\* A goroutine that receives on the stream of e and passes on to a channel.
Recvs(g, e) ==
  /\ Moves(g, "recv", "push")
  /\ Recv(e)
  /\ hand' = [hand EXCEPT ![g] = Head(recvCh[e]).val]
  /\ UNCHANGED <<envVars, chanVars, appVars>>
PassesOn(g, c) ==
  /\ Moves(g, "push", "recv")
  /\ Put(c, hand[g])
  /\ hand' = [hand EXCEPT ![g] = 0]
  /\ UNCHANGED <<envVars, streamVars, closed, appVars>>

CopierRecvs == Recvs("copier", "host")
CopierPushes == PassesOn("copier", "rawResp")
\* Recv fails, or the context ends: respCh is closed, then the stream.
CopierEndsIf(over) ==
  /\ over
  /\ CloseChan("rawResp")
  /\ Cancel("host")
  /\ UNCHANGED <<envVars, hand, appVars>>
CopierSkips ==                               \* mutant: continue for return
  \/ /\ Moves("copier", "recv", "closing")
     /\ CopierEndsIf(AtEnd("host") \/ (ctxDone /\ recvCh["host"] = <<>>))
  \/ /\ Moves("copier", "push", "recv") /\ ctxDone
     /\ UNCHANGED <<envVars, streamVars, hand, chanVars, appVars>>
CopierStays ==                               \* mutant: a send, not a select
  /\ Moves("copier", "recv", "closing")
  /\ CopierEndsIf(AtEnd("host") \/ (ctxDone /\ recvCh["host"] = <<>>))
CopierEnds ==
  \/ /\ Moves("copier", "recv", "closing")
     /\ CopierEndsIf(AtEnd("host") \/ (ctxDone /\ recvCh["host"] = <<>>))
  \/ Moves("copier", "push", "closing") /\ CopierEndsIf(ctxDone)

\* MultiSingle: the goroutine that sends the requests, ...
FeederTakes ==
  /\ Moves("feeder", "run", "send")
  /\ Get("rawReqs")
  /\ hand' = [hand EXCEPT !["feeder"] = Head(queue["rawReqs"])]
  /\ UNCHANGED <<envVars, streamVars, closed, appVars>>
FeederSends ==
  /\ Moves("feeder", "send", "run")
  /\ Send("host", hand["feeder"])
  /\ UNCHANGED <<envVars, hand, chanVars, appVars>>
FeederEndsEarly ==                           \* mutant: what is left in the
  /\ Moves("feeder", "run", "done")          \* channel is not sent
  /\ closed["rawReqs"]
  /\ \/ Write("host", Frame("closewrite", 0)) /\ UNCHANGED lost
     \/ GivesUp("host") /\ UNCHANGED streamVars
  /\ UNCHANGED <<mode, deadlines, served, ctxDone, up, hand, chanVars, appVars>>
FeederCloses ==                              \* mutant: Close for CloseWrite
  /\ Moves("feeder", "run", "closing") /\ Over("rawReqs")
  /\ Cancel("host")
  /\ UNCHANGED <<envVars, hand, chanVars, appVars>>
FeederEnds ==
  /\ Moves("feeder", "run", "done")
  /\ Over("rawReqs")
  /\ \/ Write("host", Frame("closewrite", 0)) /\ UNCHANGED lost
     \/ GivesUp("host") /\ UNCHANGED streamVars
  /\ UNCHANGED <<mode, deadlines, served, ctxDone, up, hand, chanVars, appVars>>
FeederFails ==
  /\ \/ Moves("feeder", "run", "closing") /\ ctxDone
     \/ Moves("feeder", "send", "closing") /\ SendFails("host")
  /\ Cancel("host")
  /\ UNCHANGED <<envVars, hand, chanVars, appVars>>

\* ... and the call, which waits for the response and closes the stream.  The
\* end of the stream without a response is no error there.
CallReturns(r) ==
  /\ pc' = [pc EXCEPT !["call"] = "closing"]
  /\ cancelled' = [cancelled EXCEPT !["host"] = TRUE]
  /\ reply' = r
  /\ UNCHANGED <<envVars, wire, open, hand, chanVars, given, sent, early, got>>
CallRecvs ==
  /\ pc["call"] = "recv"
  /\ \/ /\ Arrived("host")
        /\ recvCh' = [recvCh EXCEPT !["host"] = Tail(@)]
        /\ CallReturns("response")
     \/ AtEnd("host") /\ CallReturns("nil") /\ UNCHANGED recvCh
     \/ ctxDone /\ recvCh["host"] = <<>> /\ CallReturns("error") /\ UNCHANGED recvCh

(***************************************************************************)
(* The handler                                                             *)
(***************************************************************************)
\* SingleMulti: the request, then the responses.
HandlerRecvs ==
  /\ mode = "SingleMulti"
  /\ \/ Moves("handler", "recv", "send") /\ Recv("plugin")
     \/ Moves("handler", "recv", "quit") /\ AtEnd("plugin") /\ UNCHANGED streamVars
  /\ UNCHANGED <<envVars, hand, chanVars, appVars>>
\* A response goes out, has no encoding, or its Send fails; once the stream is
\* cancelled every other would.
HandlerCalls ==
  /\ sent < MaxPayloads /\ sent + 1 \notin Unencodable /\ ~cancelled["plugin"]
  /\ Moves("handler", "send", "sending")
  /\ UNCHANGED <<envVars, streamVars, hand, chanVars, appVars>>
HandlerSkips ==
  /\ pc["handler"] = "send" /\ sent < MaxPayloads /\ sent + 1 \in Unencodable
  /\ sent' = sent + 1
  /\ UNCHANGED <<envVars, streamVars, pc, hand, chanVars, given, early, got, reply>>
HandlerSends ==
  /\ Moves("handler", "sending", "send") /\ sent < MaxPayloads
  /\ Send("plugin", sent + 1)
  /\ sent' = sent + 1
  /\ UNCHANGED <<envVars, hand, chanVars, given, early, got, reply>>
HandlerSendFails ==
  /\ Moves("handler", "sending", "send")
  /\ SendFails("plugin")
  /\ UNCHANGED <<envVars, streamVars, hand, chanVars, appVars>>
\* The handler returns.
HandlerStops ==
  /\ Moves("handler", "send", "quit")
  /\ UNCHANGED <<envVars, streamVars, hand, chanVars, appVars>>

\* MultiSingle: the goroutine that receives the requests starts, ...
HandlerStarts ==
  /\ mode = "MultiSingle" /\ pc["handler"] = "recv"
  /\ pc' = [pc EXCEPT !["handler"] = "range", !["taker"] = "recv", !["pumpTaken"] = "run"]
  /\ UNCHANGED <<envVars, streamVars, hand, chanVars, appVars>>
TakerRecvs == Recvs("taker", "plugin")
TakerPushes == PassesOn("taker", "rawTaken")
TakerEnds ==
  /\ Moves("taker", "recv", "done")
  /\ AtEnd("plugin")
  /\ CloseChan("rawTaken")
  /\ UNCHANGED <<envVars, streamVars, hand, appVars>>

\* ... the handler takes them, to their end or not, ...
HandlerTakes ==
  /\ pc["handler"] = "range"
  /\ Get("taken")
  /\ got' = Append(got, Head(queue["taken"]))
  /\ UNCHANGED <<envVars, streamVars, pc, hand, closed, given, sent, early, reply>>
HandlerRespondsIf(over) ==
  /\ over
  /\ Moves("handler", "range", "respond")
  /\ UNCHANGED <<envVars, streamVars, hand, chanVars, given, sent, got, reply>>
HandlerResponds == HandlerRespondsIf(Over("taken")) /\ UNCHANGED early
HandlerStopsEarly == HandlerRespondsIf(~Over("taken")) /\ early' = TRUE
\* ... or returns an error, and sends nothing.
HandlerGivesUp ==
  /\ Moves("handler", "range", "quit")
  /\ early' = TRUE
  /\ UNCHANGED <<envVars, streamVars, hand, chanVars, given, sent, got, reply>>

\* The response and its end; their errors are ignored.
HandlerSendsResponse ==
  /\ Moves("handler", "respond", "end")
  /\ Send("plugin", 1) \/ (SendFails("plugin") /\ UNCHANGED streamVars)
  /\ UNCHANGED <<envVars, hand, chanVars, appVars>>
HandlerEndsResponse ==
  /\ Moves("handler", "end", "quit")
  /\ Write("plugin", Frame("closewrite", 0))
  /\ UNCHANGED <<envVars, hand, chanVars, appVars>>

\* The deferred Close.
HandlerQuits ==
  /\ Moves("handler", "quit", "closing")
  /\ Cancel("plugin")
  /\ UNCHANGED <<envVars, hand, chanVars, appVars>>

(***************************************************************************)
(* The application at the host, and the world                              *)
(***************************************************************************)
AppGives ==
  /\ mode = "MultiSingle" /\ given < MaxPayloads /\ ~closed["reqs"]
  /\ Put("reqs", given + 1)
  /\ given' = given + 1
  /\ UNCHANGED <<envVars, streamVars, pc, hand, closed, sent, early, got, reply>>
AppCloses ==
  /\ mode = "MultiSingle" /\ ~closed["reqs"]
  /\ CloseChan("reqs")
  /\ UNCHANGED <<envVars, streamVars, pc, hand, appVars>>
AppTakes ==
  /\ Get("resp")
  /\ got' = Append(got, Head(queue["resp"]))
  /\ UNCHANGED <<envVars, streamVars, pc, hand, closed, given, sent, early, reply>>

ContextEnds ==
  /\ ~ctxDone /\ ctxDone' = TRUE
  /\ UNCHANGED <<mode, deadlines, served, up, lost, streamVars, pc, hand, chanVars, appVars>>
\* The process of the plugin ends, and its goroutines with it.
Crash ==
  /\ up /\ up' = FALSE
  /\ wire' = [wire EXCEPT !["plugin"] = <<>>]
  /\ pc' = [g \in Goroutines |-> IF g \in OfPlugin THEN "done" ELSE pc[g]]
  /\ UNCHANGED <<mode, deadlines, served, ctxDone, lost, recvCh, cancelled, open,
                 hand, chanVars, appVars>>

-----------------------------------------------------------------------------
CallSteps ==
  \/ CallWritesStart \/ CallStartFails
  \/ CallSendsRequest \/ CallEndsRequest \/ CallRequestFails \/ CallRecvs
  \/ CloseEnd("call", "host")
CopierSteps ==
  CopierRecvs \/ CopierPushes \/ CopierEnds \/ CloseEnd("copier", "host")
FeederSteps ==
  FeederTakes \/ FeederSends \/ FeederEnds \/ FeederFails \/ CloseEnd("feeder", "host")
HandlerSteps ==
  \/ HandlerRecvs \/ HandlerSends \/ HandlerSendFails \/ HandlerStarts
  \/ HandlerSendsResponse \/ HandlerEndsResponse
  \/ HandlerQuits \/ CloseEnd("handler", "plugin")
TakerSteps == TakerRecvs \/ TakerPushes \/ TakerEnds
PumpSteps(g) == PumpTakes(g) \/ PumpPuts(g) \/ PumpEnds(g)

\* What the package does, and what the applications and the world decide.
Proceed ==
  \/ CallSteps \/ CopierSteps \/ FeederSteps \/ HandlerSteps \/ TakerSteps
  \/ \E g \in Pumps : PumpSteps(g)
  \/ \E e \in Ends : Dispatch(e)
  \/ DispatchStart \/ LoopFails
HandlerDecides ==
  \/ HandlerCalls \/ HandlerSkips \/ HandlerStops
  \/ HandlerTakes \/ HandlerResponds \/ HandlerStopsEarly \/ HandlerGivesUp
Decide ==
  \/ CallStart \/ AppGives \/ AppCloses \/ AppTakes \/ HandlerDecides
  \/ ContextEnds \/ Crash

Next == Proceed \/ Decide

Spec == Init /\ [][Next]_vars

\* Every goroutine of the package runs.  One that is about to write may find
\* that its context has ended, but it may as well wait in the write already:
\* its step is due only when there is room, or something ends the wait.
Writing(g) ==
  pc[g] \in IF g = "call" THEN {"start", "request"}
            ELSE IF g = "feeder" THEN {"send"} ELSE {"sending", "respond"}
Due ==
  \/ CallSteps /\ (Writing("call") => GoesOn("host"))
  \/ FeederSteps /\ (Writing("feeder") => GoesOn("host"))
  \/ HandlerSteps /\ (Writing("handler") => GoesOn("plugin"))
  \/ CopierSteps \/ TakerSteps
  \/ \E g \in Pumps : PumpSteps(g)
  \/ \E e \in Ends : Dispatch(e)
  \/ DispatchStart \/ LoopFails

\* A call has finitely many steps, so that it is enough that none that is due
\* is put off for ever.  Nothing makes an application, a context or a crash.
FairSpec == Spec /\ WF_vars(Due)

(***************************************************************************)
(* Properties                                                              *)
(***************************************************************************)
\* The channels of the stream and the Go channels never hold more than make
\* gave them.
TypeOK ==
  /\ mode \in {"SingleMulti", "MultiSingle"}
  /\ deadlines \in BOOLEAN /\ served \in BOOLEAN /\ ctxDone \in BOOLEAN /\ up \in BOOLEAN
  /\ wire \in [Ends -> Seq(Frames)] /\ recvCh \in [Ends -> Seq(Frames)]
  /\ cancelled \in [Ends -> BOOLEAN] /\ open \in [Ends -> BOOLEAN]
  /\ lost \subseteq Ends
  /\ pc \in [Goroutines -> {"off", "start", "request", "end", "recv", "push", "run",
                            "send", "sending", "range", "respond", "quit", "parked",
                            "closing", "done"}]
  /\ hand \in [Goroutines -> 0 .. MaxPayloads]
  /\ queue \in [Chans -> Seq(1 .. MaxPayloads)] /\ closed \in [Chans -> BOOLEAN]
  /\ given \in 0 .. MaxPayloads /\ sent \in 0 .. MaxPayloads
  /\ early \in BOOLEAN /\ got \in Seq(1 .. MaxPayloads)
  /\ reply \in {"none", "response", "nil", "error"}
  /\ \A e \in Ends : Len(wire[e]) <= WireCap /\ Len(recvCh[e]) <= RecvCap
  /\ \A c \in Chans : Len(queue[c]) <= ChanCap

\* What arrives at the far end of the chain is what was put in at the near
\* end, in its order and without a gap but for what does not unmarshal, also
\* when the call is cancelled, the handler gives up or the plugin crashes.
ArrivesInOrder ==
  \E n \in 0 .. (IF mode = "SingleMulti" THEN sent ELSE given) : ReadableUpTo(got, n)

\* When the channel of responses is closed, the caller whose context has not
\* ended and whose plugin lives has every response the handler has sent: the
\* close of a channel is all the caller is told.
ResponsesComplete ==
  mode = "SingleMulti" /\ Over("resp") /\ ~ctxDone /\ up =>
    pc["handler"] \in {"quit", "closing", "done"} /\ ReadableUpTo(got, sent)

\* A response of a handler that took its requests to their end is about all
\* the requests the caller gave before it closed their channel.
ResponseIsOfAll ==
  mode = "MultiSingle" /\ reply = "response" /\ ~early =>
    closed["reqs"] /\ ReadableUpTo(got, given)

\* CallMultiSingle returns no response and no error (conn_routing.go 131) only
\* when the context of the call has ended, the handler has returned before its
\* requests were over, or the plugin has crashed: not because a Close overtakes
\* the response.
NilHasACause ==
  mode = "MultiSingle" /\ reply = "nil" => ctxDone \/ early \/ ~up

\* What waits for somebody outside: for the caller to take a response or to
\* give a request, and for the handler's own code.
NotTaken == Waits("pumpResp")
NotGiven ==
  /\ pc["pumpReqs"] = "run" /\ hand["pumpReqs"] = 0
  /\ queue["reqs"] = <<>> /\ ~closed["reqs"]
Busy ==
  \/ pc["handler"] = "send"
  \/ pc["handler"] = "range" /\ (queue["taken"] # <<>> \/ closed["taken"])

\* The goroutines that wait for ever, and what for.
\*  1. pumpResp, for a caller that takes no more responses: the send of
\*     generic.go 99 has no other case, not even the end of the context.
\*  2. pumpReqs, for a request of a caller that does not close its channel
\*     (generic.go 112), or for room where nobody takes any more, as feeder was
\*     never started or has ended (generic.go 118).
\*  3. handler, in its own code, and a stream parked in acceptCh.
\*  4. pumpTaken, for a handler that takes no more requests (generic.go 174),
\*     and taker behind it (conn.go 367).
\*  5. While the context lives, any goroutine of the call behind one that
\*     waits for somebody outside, or for an end that was given up.
\*  6. At the plugin, any when the host has given up its CloseWrite or Close
\*     frame after two seconds (stream.go 131, 143): the host may be done with
\*     the stream, and nothing else tells the plugin.
\*  7. At the host, one that writes over a blocking descriptor while the loop
\*     of the plugin waits.
Excused(g) ==
  \/ g = "pumpResp" /\ NotTaken
  \/ g = "pumpReqs" /\ (NotGiven \/ (Waits(g) /\ pc["feeder"] \in {"off", "done"}))
  \/ g = "handler" /\ (Busy \/ Parked)
  \/ g = "pumpTaken" /\ Waits(g)
  \/ g = "taker" /\ Behind(g, "rawTaken") /\ Waits("pumpTaken")
  \/ g \in OfHost /\ ~ctxDone /\ (NotTaken \/ NotGiven \/ Busy \/ Parked \/ lost # {})
  \/ g \in OfPlugin /\ ~ctxDone /\ (NotTaken \/ NotGiven)
  \/ g \in OfPlugin /\ "host" \in lost
  \/ g \in OfHost /\ ~deadlines /\ Stalled("host")
\* Every goroutine of a call ends, or is one of those: its neighbours having
\* ended, failed or crashed in any order strands no other (conn_routing.go 85,
\* 110, conn.go 343, 357, 360 and generic.go 90, 110, 169).
GoroutinesEnd ==
  []<>(\A g \in Goroutines : pc[g] \in {"off", "done"} \/ Excused(g))

=============================================================================
