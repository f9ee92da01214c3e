----------------------------- MODULE IpcClient -----------------------------
(***************************************************************************)
(* Requests and responses over the raw messages of one connection: the     *)
(* ipcClient of the example host, whose goroutines call concurrently, and  *)
(* the plugin at the other end, which answers in turn: the runner in Go    *)
(* behind the read loop of its MessageConn, or the one thread in Zig.      *)
(*                                                                         *)
(* The connection is what the module MessageConn shows it to be: frames    *)
(* arrive in the order they were written, none lost while both sides are   *)
(* up.  Each direction is one bounded FIFO, which at the host stands for   *)
(* the channel and rawMsgCh together.  IDs are counted modulo IdMod, as    *)
(* activeID is a uint32; a request and its response also name the call     *)
(* they belong to, which the program does not see.                         *)
(***************************************************************************)
EXTENDS Integers, Sequences

CONSTANTS
  Calls,            \* the calls of ipcClient.Call, each in a goroutine
  NoCall, Failed,
  IdMod,            \* activeID wraps there
  ChannelCap,       \* frames the channel buffers in one direction
  RawCap,           \* capacity of rawMsgCh in a plugin in Go
  MaxStreamFrames   \* stream frames that share the channel

ASSUME IpcAssumption ==
  /\ Calls \subseteq Nat /\ {NoCall, Failed} \cap Calls = {}
  /\ NoCall # Failed
  /\ IdMod \in Nat \ {0} /\ ChannelCap \in Nat \ {0} /\ RawCap \in Nat \ {0}
  /\ MaxStreamFrames \in Nat

VARIABLES
  activeID,     \* how often Add(1) was called
  turn,         \* the value Add(1) gave the call, 0 before
  pc,           \* where the call is
  callbacks,    \* the sync.Map: whose channel is stored under an ID
  ch,           \* the call's channel of capacity 1
  result,       \* what Call returned: a response, named by its call, or Failed
  readLoop, hand,   \* the goroutine of readLoop, and what it has loaded
  ctxDone,      \* whether c.ctx is done
  closer,       \* how far Close has come
  toPlugin, toHost,
  lang,         \* what the plugin is written in
  plugin,       \* its process
  rawMsgCh,     \* in Go, what its read loop has put there
  request,      \* the request it is serving
  streamFrames  \* stream frames written so far

callVars   == <<activeID, turn, pc, callbacks, ch, result>>
clientVars == <<readLoop, hand, ctxDone, closer>>
pluginVars == <<lang, plugin, rawMsgCh, request>>
channelVars == <<toPlugin, toHost, streamFrames>>
vars == <<callVars, clientVars, channelVars, pluginVars>>

IDs == 0 .. (IdMod - 1)
Id(c) == turn[c] % IdMod
Frame(kind, c) == [kind |-> kind, call |-> c, id |-> IF c = NoCall THEN 0 ELSE Id(c)]
Frames == [kind : {"request", "stream", "response"}, call : Calls \cup {NoCall}, id : IDs]

Init ==
  /\ activeID = 0 /\ turn = [c \in Calls |-> 0]
  /\ pc = [c \in Calls |-> "idle"]
  /\ callbacks = [n \in IDs |-> NoCall]
  /\ ch = [c \in Calls |-> <<>>]
  /\ result = [c \in Calls |-> NoCall]
  /\ readLoop = "read" /\ hand = <<>>
  /\ ctxDone = FALSE /\ closer = "none"
  /\ toPlugin = <<>> /\ toHost = <<>>
  /\ lang \in {"go", "zig"} /\ plugin = "running"
  /\ rawMsgCh = <<>> /\ request = <<>> /\ streamFrames = 0

Moves(c, from, to) == pc[c] = from /\ pc' = [pc EXCEPT ![c] = to]
Broken == plugin = "exited" \/ closer = "closed"

(***************************************************************************)
(* Call                                                                    *)
(***************************************************************************)
AddNothing(c) ==                             \* mutant: Load for Add
  /\ turn' = [turn EXCEPT ![c] = activeID + 1]
  /\ UNCHANGED activeID
Add(c) ==
  /\ activeID' = activeID + 1
  /\ turn' = [turn EXCEPT ![c] = activeID + 1]

\* The calls are named in the order of their numbers.
TakeNumber(c) ==
  /\ \A d \in Calls : d < c => pc[d] # "idle"
  /\ Moves(c, "idle", "numbered")
  /\ Add(c)
  /\ UNCHANGED <<callbacks, ch, result, clientVars, channelVars, pluginVars>>

Store(c) ==
  /\ Moves(c, "numbered", "stored")
  /\ callbacks' = [callbacks EXCEPT ![Id(c)] = c]
  /\ UNCHANGED <<activeID, turn, ch, result, clientVars, channelVars, pluginVars>>

\* WriteMessage waits for room in the channel.
WriteRequest(c) ==
  /\ Moves(c, "stored", "written")
  /\ ~Broken /\ Len(toPlugin) < ChannelCap
  /\ toPlugin' = Append(toPlugin, Frame("request", c))
  /\ UNCHANGED <<activeID, turn, callbacks, ch, result, clientVars, toHost,
                 streamFrames, pluginVars>>

\* It has returned, and the response may come before the call waits for it.
Select(c) ==
  /\ Moves(c, "written", "waiting")
  /\ UNCHANGED <<activeID, turn, callbacks, ch, result, clientVars, channelVars,
                 pluginVars>>

\* Call returns: the deferred Delete is done, and its channel is garbage.
ReturnsUndeleted(c, from, r) ==              \* mutant: not after an error
  /\ Moves(c, from, "returned")
  /\ result' = [result EXCEPT ![c] = r]
  /\ callbacks' = [callbacks EXCEPT ![Id(c)] = IF r = Failed THEN @ ELSE NoCall]
  /\ ch' = [ch EXCEPT ![c] = <<>>]
  /\ UNCHANGED <<activeID, turn, clientVars, channelVars, pluginVars>>
Returns(c, from, r) ==
  /\ Moves(c, from, "returned")
  /\ result' = [result EXCEPT ![c] = r]
  /\ callbacks' = [callbacks EXCEPT ![Id(c)] = NoCall]
  /\ ch' = [ch EXCEPT ![c] = <<>>]
  /\ UNCHANGED <<activeID, turn, clientVars, channelVars, pluginVars>>

\* The write fails, or is refused because the caller's context is over.
WriteFails(c) == Broken /\ Returns(c, "stored", Failed)
WriteRefused(c) == Returns(c, "stored", Failed)

\* The select: the response, the client's context, or the caller's context
\* and the three seconds, which may be over at any time.
TakesResult(c) == ch[c] # <<>> /\ Returns(c, "waiting", Head(ch[c]))
SeesClientGone(c) == ctxDone /\ Returns(c, "waiting", Failed)
TimesOut(c) == Returns(c, "waiting", Failed)

(***************************************************************************)
(* readLoop                                                                *)
(***************************************************************************)
\* Reads a response and loads the callback of its ID: the call may return
\* between this step and the next.
LoopLoads ==
  /\ readLoop = "read" /\ toHost # <<>>
  /\ LET f == Head(toHost)
         c == callbacks[f.id] IN
       IF c = NoCall THEN UNCHANGED <<readLoop, hand>>
       ELSE readLoop' = "push" /\ hand' = <<c, f.call>>
  /\ toHost' = Tail(toHost)
  /\ UNCHANGED <<callVars, ctxDone, closer, toPlugin, streamFrames, pluginVars>>

\* A select with a default: a channel that is full keeps what it has.
OfferAlways(c, r) ==                         \* mutant: a list for a channel
  ch' = [ch EXCEPT ![c] = IF pc[c] # "returned" THEN Append(@, r) ELSE @]
OfferWaiting(c, r) ==                        \* mutant: a channel of capacity 0
  ch' = [ch EXCEPT ![c] = IF @ = <<>> /\ pc[c] = "waiting" THEN <<r>> ELSE @]
Offer(c, r) ==
  ch' = [ch EXCEPT ![c] = IF @ = <<>> /\ pc[c] # "returned" THEN <<r>> ELSE @]

LoopPushes ==
  /\ readLoop = "push"
  /\ Offer(hand[1], hand[2])
  /\ readLoop' = "read" /\ hand' = <<>>
  /\ UNCHANGED <<activeID, turn, pc, callbacks, result, ctxDone, closer,
                 channelVars, pluginVars>>

\* The read fails: the plugin is gone and all it wrote is read, or the
\* connection is closed.
LoopEndsQuietly ==                           \* mutant: cancel is missing
  /\ readLoop = "read"
  /\ (plugin = "exited" /\ toHost = <<>>) \/ closer = "closed"
  /\ readLoop' = "ended"
  /\ UNCHANGED <<callVars, hand, ctxDone, closer, channelVars, pluginVars>>
LoopEnds ==
  /\ readLoop = "read"
  /\ (plugin = "exited" /\ toHost = <<>>) \/ closer = "closed"
  /\ readLoop' = "ended"
  /\ ctxDone' = TRUE
  /\ UNCHANGED <<callVars, hand, closer, channelVars, pluginVars>>

\* A response that does not unmarshal ends the loop, and the calls, as well.
LoopChokes ==
  /\ readLoop = "read" /\ toHost # <<>>
  /\ toHost' = Tail(toHost)
  /\ readLoop' = "ended" /\ ctxDone' = TRUE
  /\ UNCHANGED <<callVars, hand, closer, toPlugin, streamFrames, pluginVars>>

\* ReadMessage returns because c.ctx is done: "Closed intentionally".
LoopStops ==
  /\ readLoop = "read" /\ ctxDone
  /\ readLoop' = "ended"
  /\ UNCHANGED <<callVars, hand, ctxDone, closer, channelVars, pluginVars>>

(***************************************************************************)
(* Close cancels c.ctx and closes the plugin: its channel, then its        *)
(* process.                                                                *)
(***************************************************************************)
CloseCancels ==
  /\ closer = "none"
  /\ closer' = "cancelled" /\ ctxDone' = TRUE
  /\ UNCHANGED <<callVars, readLoop, hand, channelVars, pluginVars>>

Exit ==
  /\ plugin' = "exited"
  /\ rawMsgCh' = <<>> /\ request' = <<>> /\ toPlugin' = <<>>
  /\ UNCHANGED <<lang, toHost>>

\* How the two interleave with the plugin is in PluginProcess.
ClosePlugin ==
  /\ closer = "cancelled" /\ closer' = "closed"
  /\ Exit
  /\ UNCHANGED <<callVars, readLoop, hand, ctxDone, streamFrames>>

(***************************************************************************)
(* The plugin                                                              *)
(***************************************************************************)
hostVars == <<callVars, clientVars, streamFrames>>

Runs(l) == plugin = "running" /\ lang = l

\* A frame of some stream of the host, among the requests.
WriteStreamFrame ==
  /\ streamFrames < MaxStreamFrames
  /\ ~Broken /\ Len(toPlugin) < ChannelCap
  /\ toPlugin' = Append(toPlugin, Frame("stream", NoCall))
  /\ streamFrames' = streamFrames + 1
  /\ UNCHANGED <<callVars, clientVars, toHost, pluginVars>>

\* In Go the read loop of the connection parts the two kinds.
GoDispatches ==
  /\ Runs("go") /\ toPlugin # <<>>
  /\ \/ /\ Head(toPlugin).kind = "stream"
        /\ UNCHANGED rawMsgCh
     \/ /\ Head(toPlugin).kind = "request" /\ Len(rawMsgCh) < RawCap
        /\ rawMsgCh' = Append(rawMsgCh, Head(toPlugin))
  /\ toPlugin' = Tail(toPlugin)
  /\ UNCHANGED <<hostVars, toHost, lang, plugin, request>>

GoReads ==
  /\ Runs("go") /\ request = <<>> /\ rawMsgCh # <<>>
  /\ request' = <<Head(rawMsgCh)>>
  /\ rawMsgCh' = Tail(rawMsgCh)
  /\ UNCHANGED <<hostVars, toPlugin, toHost, lang, plugin>>

\* The response carries the ID of the request.
Respond(f) ==
  /\ closer # "closed" /\ Len(toHost) < ChannelCap
  /\ toHost' = Append(toHost, [f EXCEPT !.kind = "response"])

GoAnswers ==
  /\ Runs("go") /\ request # <<>>
  /\ Respond(request[1])
  /\ request' = <<>>
  /\ UNCHANGED <<hostVars, toPlugin, lang, plugin, rawMsgCh>>

\* In Zig the one thread reads every frame and discards those of streams.
ZigDiscards ==
  /\ Runs("zig") /\ request = <<>> /\ toPlugin # <<>>
  /\ Head(toPlugin).kind = "stream"
  /\ toPlugin' = Tail(toPlugin)
  /\ UNCHANGED <<hostVars, toHost, pluginVars>>

ZigReads ==
  /\ Runs("zig") /\ request = <<>> /\ toPlugin # <<>>
  /\ Head(toPlugin).kind = "request"
  /\ request' = <<Head(toPlugin)>>
  /\ toPlugin' = Tail(toPlugin)
  /\ UNCHANGED <<hostVars, toHost, lang, plugin, rawMsgCh>>

ZigAnswers ==
  /\ Runs("zig") /\ request # <<>>
  /\ Respond(request[1])
  /\ request' = <<>>
  /\ UNCHANGED <<hostVars, toPlugin, lang, plugin, rawMsgCh>>

\* A request that does not unmarshal ends the plugin, in either language.
RequestChokes ==
  /\ plugin = "running" /\ request = <<>>
  /\ \/ lang = "go" /\ rawMsgCh # <<>>
     \/ lang = "zig" /\ toPlugin # <<>> /\ Head(toPlugin).kind = "request"
  /\ Exit
  /\ UNCHANGED hostVars

\* The plugin that panics while it serves a request.
Panics ==
  /\ Runs("go") /\ request # <<>>
  /\ Exit
  /\ UNCHANGED hostVars

-----------------------------------------------------------------------------
CallSteps(c) ==
  \/ Store(c) \/ WriteRequest(c) \/ Select(c) \/ WriteFails(c)
  \/ TakesResult(c) \/ SeesClientGone(c)
Loop == LoopLoads \/ LoopPushes \/ LoopEnds \/ LoopStops
Serve ==
  \/ GoDispatches \/ GoReads \/ GoAnswers
  \/ ZigDiscards \/ ZigReads \/ ZigAnswers

\* What goes on by itself, and what somebody, the clock, or the bytes of a
\* message have to decide.
Proceed == (\E c \in Calls : CallSteps(c)) \/ Loop \/ Serve \/ ClosePlugin
Decide ==
  \/ \E c \in Calls : TakeNumber(c) \/ WriteRefused(c) \/ TimesOut(c)
  \/ CloseCancels \/ WriteStreamFrame \/ LoopChokes \/ RequestChokes \/ Panics

Next == Proceed \/ Decide

Spec == Init /\ [][Next]_vars

\* Every goroutine and the plugin run: a call has finitely many steps, so that
\* it is enough that none of them is put off for ever.  Nothing is asked of
\* the clock.
FairSpec == Spec /\ WF_vars(Proceed)

(***************************************************************************)
(* Properties                                                              *)
(***************************************************************************)
InProgress(c) == pc[c] \notin {"idle", "returned"}

\* Every variable has the values the fields of ipcClient can have; a call's
\* channel holds one response at most.
TypeOK ==
  /\ activeID \in Nat /\ turn \in [Calls -> Nat]
  /\ pc \in [Calls -> {"idle", "numbered", "stored", "written", "waiting",
                      "returned"}]
  /\ callbacks \in [IDs -> Calls \cup {NoCall}]
  /\ ch \in [Calls -> {<<>>} \cup {<<c>> : c \in Calls}]
  /\ result \in [Calls -> Calls \cup {NoCall, Failed}]
  /\ readLoop \in {"read", "push", "ended"}
  /\ hand \in {<<>>} \cup (Calls \X Calls)
  /\ ctxDone \in BOOLEAN
  /\ closer \in {"none", "cancelled", "closed"}
  /\ toPlugin \in Seq(Frames) /\ Len(toPlugin) <= ChannelCap
  /\ toHost \in Seq(Frames) /\ Len(toHost) <= ChannelCap
  /\ lang \in {"go", "zig"} /\ plugin \in {"running", "exited"}
  /\ rawMsgCh \in Seq(Frames) /\ Len(rawMsgCh) <= RawCap
  /\ request \in {<<>>} \cup {<<f>> : f \in Frames}
  /\ streamFrames \in 0 .. MaxStreamFrames

\* A call returns the response to its own request, however late the responses
\* of calls that gave up come in.  Only calls whole rounds of the IDs apart
\* can be taken for each other.
OwnAnswer ==
  \A c \in Calls :
    LET d == result[c] IN
    d \in Calls \ {c} => turn[d] # turn[c] /\ Id(d) = Id(c)

\* No other call has had, or has, the ID of c.
Alone(c) == \A d \in Calls \ {c} : turn[d] = 0 \/ Id(d) # Id(c)

\* While the client and the plugin live, the response to a call that waits is
\* still to come: it is never dropped because the call was not ready for it.
Pending(c) ==
  \/ ch[c] # <<>> \/ hand = <<c, c>>
  \/ \E q \in {toPlugin, rawMsgCh, request, toHost} :
       \E k \in DOMAIN q : q[k].call = c
AnswerComes ==
  \A c \in Calls :
    /\ pc[c] \in {"written", "waiting"} /\ Alone(c)
    /\ plugin = "running" /\ ~ctxDone
    => Pending(c)

\* The map holds the channels of calls in progress and of no others, also
\* when a call fails, gives up, or has its ID taken over: it does not grow.
NothingLeftBehind ==
  \A n \in IDs : callbacks[n] # NoCall => InProgress(callbacks[n])

\* Every call returns without the help of its timer, with a response, or
\* because the plugin has ended or the client is closed.
CallsReturn == []<>(\A c \in Calls : InProgress(c) => ~Alone(c))

=============================================================================
