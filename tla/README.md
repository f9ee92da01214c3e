# A model of plugo

plugo runs plugins as processes: a host starts a program, agrees with it on a
codec over a socket pair, and from then on both exchange raw messages and
multiplexed streams over that one channel. This directory holds TLA+ modules
that model its concurrent parts, TLC configurations that check them on small
instances, and proofs for TLAPS of the facts that hold for every instance.
Paths below are relative to the repository.

## 1. Inventory

### 1.1 Components

| Component | Code | State it keeps | Operations |
|---|---|---|---|
| Connection | `conn.go`, `conn_routing.go` | `streams`, `acceptCh`, `rawMsgCh`, `readLoopErr`, `readLoopDone`, `nextStreamID`, the handlers, `wMu` | read loop; `startStream`, `AcceptStream`, `WriteData`, `ReadData`, `Handle*`, `Close` |
| Stream | `stream.go` | `recvCh`, its context | `Send`, `Recv`, `CloseWrite`, `Close` |
| Contexts | `conn.go` 74-113, `negotiate.go` 26-79 | the one deadline of the channel, a watcher for each call | `withContext`, twice |
| Negotiation | `negotiate.go` 84-226 | the two codec lists | request, choice, response |
| Lifecycle on Unix | `plugin_unix.go`, `plugin.go`, `client.go` | process, two descriptors of each socket pair | `Open`, `Attaching`, `Wait`, `Close` |
| Lifecycle on Windows | `plugin_windows.go` | process, four pipe handles | `Open` |
| Routed calls | `conn_routing.go` 68-140, `conn.go` 337-386 | a stream and one or two goroutines for each call | `CallSingleMulti`, `CallMultiSingle`, `CallBidi`, the goroutines of the handlers |
| Typed wrappers | `generic.go` | none but copying goroutines | `Route`, `TypedStream` |
| Codecs | `codec.go` | none | `Marshal`, `Unmarshal` |
| Example host | `examples/host_go/main.go` | `callbacks`, `activeID` | `Call`, `readLoop`, `Close` |
| Example plugins | `examples/plugin_go`, `examples/plugin_zig` | none | a loop that reads a request and answers it |
| Example messages | `examples/shared` | none | generated conversions |

### 1.2 How they interact

- The applications of both ends call `MessageConn` and `Stream` from any number
  of goroutines. What they share with the read loop is the map `streams` (under
  `streamsMu`), the channel and the context of each stream, and the two channels
  of the connection.
- The two read loops meet only through the byte channel. The loop is the only
  reader of its side and the only one who closes a `recvCh`; it is also a writer
  when it answers a frame of an unknown stream.
- Every write and the handshake go through `withContext`, which sets the deadline
  of the channel that the read loop is reading.
- `Open` starts the process, negotiates, and starts the loop; `Plugin.Close`
  closes the connection, kills the process and reaps it. What tells one process
  that another has gone is which of them still holds which end of the socket pair.

### 1.3 What is hard

Interleavings of application goroutines with the loop; the end of a stream
reached from both sides at once; channels at their capacity; a loop that dies,
or a connection that is closed, while goroutines wait; deadlines that outlive
their calls; crashes of a plugin at any point of its start; descriptors shared by
processes started at the same time. `PROJECT.json` lists each one at its line.

### 1.4 What makes each component correct

- **Connection**: never panics; every frame reaches the stream it is for, or
  is refused for a reason; streams do not hinder each other; after the loop has
  ended nobody waits for it; a Close ends the loops and the streams.
- **Stream**: payloads in order, none twice, none lost before EOF; EOF only after
  the peer has ended the stream; a Close reaches the peer.
- **Contexts**: a call ends when its context does, and touches no other call.
- **Negotiation**: both sides hold the same codec, the plugin's favourite.
- **Lifecycle**: a failed Open leaves nothing; the exit of a process is seen;
  Close releases everything and returns.
- **Routed calls**: a call gets the responses of its handler, all or an error, and
  leaves no goroutine behind.
- **ipcClient**: a call gets the response to its own request, once.

## 2. Modules

| Module | Models | Kind |
|---|---|---|
| `MessageConn` | both connections, their loops, streams, raw messages | component |
| `WithContext` | both `withContext`, their watchers, the deadline | component |
| `PluginProcess` | Open, negotiation, Attaching, Wait, Close | component |
| `IpcClient` | concurrent requests over raw messages: `ipcClient` and the plugins of both languages | composition over a connection |
| `Calls` | a routed call with the goroutines of caller and handler, through the typed `Route` | composition over a stream |
| `StreamLines` | what a stream promises in one direction | abstract specification |
| `StreamService` | `MessageConn` as an implementation of `StreamLines` | refinement |
| `MCMessageConn`, `MCWithContext`, `MCPluginProcess`, `MCIpcClient`, `MCCalls` | instances for TLC | model checking |
| `MessageConnProofs`, `MessageConnStageProofs` | type correctness, no panic, order, what a frame says of its stream | proofs |
| `StreamServiceProofs`, `StreamLinesProofs` | nothing lost, the refinement, and what follows from the abstract specification | proofs |
| `WithContextProofs`, `PluginProcessProofs`, `IpcClientProofs` | the invariants of the three modules | proofs |
| `CallsProofs` | the goroutines of a call as one line of places, and what the end of the line says | proofs |

`IpcClient` and `Calls` are written over what `MessageConn` is shown to be, a FIFO of
frames and a stream in order and without loss, instead of over its every step: a
composition with the full module would be out of TLC's reach, and the facts it
would repeat are checked and proved where they belong.

### 2.1 MessageConn

The two ends are `"host"` and `"plugin"`, and every variable that is a field of
`MessageConn` or `Stream` is a function of the end (and of the stream's ID). A
payload is the number of the Send that sent it; `sent`, `rcvd`, `finAt` and `last`
record what the properties are about.

| Code | Actions |
|---|---|
| `startStream` | `StartAlloc`, `StartRegister`: its two critical sections; `StartWrite` or `StartFail` |
| `Stream.Send` | `SendCheck`, then `SendWrite` or `SendFail` |
| `Stream.Recv` | `RecvFrame`, `RecvEnd`: the look at `recvCh` that decides |
| `Stream.CloseWrite`, `Stream.Close` | `CloseWrite`; `CloseCancel`, `CloseFrame` or `CloseFrameLost`, `CloseRemove` |
| `AcceptStream`, `WriteData`, `ReadData`, `HandleBidi` | actions of these names; `RegisterHandler` |
| `MessageConn.Close` | `ConnCancel`, `ConnClose` |
| `readLoop` | one action for each kind of frame it reads (`LoopRaw`, `LoopStart`, `LoopUnknown`, `LoopClose`, `LoopError`, `LoopData`), one for each place where it waits afterwards (`LoopPushRaw`, `LoopAccept`, `LoopReply`, `LoopPush`, `LoopPushError`) |
| `handleReadLoopError` and the deferred closes | `LoopFail`, `LoopExit` |

A step is one critical section, one channel operation or one write under `wMu`.
The read of a frame and the lookup of its stream are one step: what another
goroutine does between the two it could have done before the read.

Frames cross the channel whole and in order, and after a Close the peer still reads
what was written before. What a Close does to a read that waits depends on the
channel. It wakes one on `net.Pipe` (which the tests of the repository use), on a
pipe and on a pollable file. On the blocking descriptors that `plugin_unix.go` 30
and `client.go` 47 make it does not: `rwc.Close` returns, but the descriptor stays
until the read does, so that neither the own loop nor the peer learns of the Close.
The ends in `Blocking` have such a descriptor. There a `MessageConn.Close` with the
loop in its read leaves the connection `"closing"`, and the read ends with what the
peer writes next, or when the peer is gone.

Two things are simpler than in Go there. The frame that such a last read returns is
not dispatched any more, though a read of the whole of it might. And a write that
waits on a blocking descriptor when its own end is closed is taken to fail, or to
have gone before.

### 2.2 WithContext

`Open` stands for the handshake, `Steps` calls one after the other with one
context, after which the connection's loop reads; each member of `Writers` is one
write on the connection with a context of its own. The steps are those of the two
functions: the check, the deadline and the start of the watcher (`HandshakeEnter`,
`WriterEnter`, `WriterRefused`), the mutex (`Lock`), the call (`CallSucceeds` for the
handshake, `WriteHead` and `WriteSucceeds` for a frame that goes out in two pieces,
`FnFails`), the watcher's select and what it then does (`WatcherWakes`,
`WatcherActs`), `close(done)` (`CloseDone`), and what follows it, where the two
functions differ (`HandshakeLeave`, `HandshakeGiveUp`, `WriterLeave`). Which of
the three kinds of channel there is, is chosen in the initial state:

- `poll`: `SetDeadline` takes effect;
- `file`: it fails with `ErrNoDeadline`, which is ignored. This is what the files
  that `plugin_unix.go` and `client.go` make of blocking descriptors do;
- `pipe`: there is none, and the watcher closes the channel. This is what
  `pipeConn` and `pipeClientConn` are.

A context's own timer and the timer of the deadline are two: `ComesDue` lets the
deadline strike, and `Ends` closes `Done` some time later.

### 2.3 PluginProcess

For each process the module keeps which processes hold each end of its socket
pair (`hostEnd`, `childEnd`), where Open, Attaching, Close and Wait are, and what
the pair carries. `Start` gives the new process its end and, of every other end,
what close-on-exec leaves it (`Inherits`). A read gets EOF when nobody holds the
other end. The descriptors block: Close lets go of one the loop is reading only
when that read returns (`LoopEnds`), and a context ends no read here.
The process is another program: it may answer, fail or exit at any point, or do
nothing for ever.

### 2.4 IpcClient

Each member of `Calls` is one `ipcClient.Call` in a goroutine of its own; `callbacks`
is the `sync.Map`, `ch` the channel of capacity 1 that each call makes.

| Code | Actions |
|---|---|
| `Call` | `TakeNumber` (the atomic Add), `Store`, `WriteRequest` or `WriteFails`, `WriteRefused`; `Select`, then `TakesResult`, `SeesClientGone` or `TimesOut`; each way out does the deferred `Delete` |
| `readLoop` of the client | `LoopLoads` and `LoopPushes`, between which the call may return; `LoopEnds` when a read fails, `LoopChokes` when a response does not unmarshal, `LoopStops` when the context is done |
| `ipcClient.Close` | `CloseCancels`, `ClosePlugin` |
| the plugin in Go | `GoDispatches` (the read loop of its connection), `GoReads`, `GoAnswers`; `RequestChokes` when a request does not unmarshal, which ends it; `Panics` for `plugin_go/abnormal` |
| the plugin in Zig | `ZigDiscards`, `ZigReads`, `ZigAnswers`, `RequestChokes`: one thread, which throws frames of streams away |
| a stream beside them | `WriteStreamFrame` |

IDs are counted modulo `IdMod`, as `activeID` is a `uint32`. A frame also names the
call it is about, which the program does not see: with it `OwnAnswer` can say that
a call has got somebody else's response, which is possible only between calls that
lie whole rounds of the IDs apart.

### 2.5 Calls

The mode is the pattern of the route. In `SingleMulti` the call sends one request,
a `copier` receives the responses and `pumpResp` unmarshals them; in `MultiSingle`
`pumpReqs` marshals, the `feeder` sends, and the call receives the one response. At
the plugin the `handler` runs in the goroutine of `conn.go` 337-386, and for
`MultiSingle` a `taker` receives for it and `pumpTaken` unmarshals. Every operation
on a Go channel, on the stream or on the context is an action, named after its
goroutine; the deferred `Close` is `Cancel` followed by `CloseEnd`. A `pump` leaves out
what its conversion refuses: `Unencodable` payloads where it marshals, `Garbled` ones
where it unmarshals (`Converts`).

The applications are outside, and the module makes them do nothing. The caller gives
requests, closes their channel and takes responses (`AppGives`, `AppCloses`, `AppTakes`),
and the code of a handler takes requests, calls `Send`, skips a response that does not
marshal, stops early or returns (`HandlerDecides`). A handler that is in `Send`
(`"sending"`) can do nothing else until `Send` returns. The context may end
(`ContextEnds`), the process may crash (`Crash`), and the handler may not be registered when
the Start frame comes, in which case the stream is parked in `acceptCh`.

A write that finds its context ended fails at once (`SendFails`). One that waits already is
ended by a deadline only, and `deadlines` says whether the channel has any: the blocking
descriptors of `plugin_unix.go` and `client.go` have none (`GoesOn`). `CloseWrite` and `Close`
give up after two seconds where there are deadlines, which pass when the loop of the peer
waits for an application (`LoopWaits`, `Stalled`); `lost` names the ends that have.

`GoroutinesEnd` says that every one of these goroutines ends, but those `Excused` names,
which the code does leave waiting:

1. `pumpResp`, when the caller takes no more responses. The send of `generic.go` 99 has no
   other case, so that a caller that stops when its context ends leaves it for ever.
2. `pumpReqs`, when the caller does not close its channel of requests (`generic.go` 112), or
   when the call was cut short and nobody takes its payload any more (`generic.go` 118).
3. `handler`, in its own code, and a stream that is parked in `acceptCh`.
4. `pumpTaken`, when the handler takes no more requests (`generic.go` 174), and `taker` behind
   it (`conn.go` 367).
5. While the context of the call lives, any goroutine behind one that waits for somebody
   outside, or for an end that was given up.
6. At the plugin, any, once the host has given up its CloseWrite or Close frame
   (`stream.go` 131, 143): nothing else tells the plugin.
7. At the host, one that writes over a blocking descriptor while the loop of the plugin
   waits for its application.

### 2.6 StreamLines and StreamService

`StreamLines` has no loops, frames or channels. A line is one direction of one stream,
with the payloads that are pending on it; `Send`, `Finish`, `Receive`, `SayEOF`,
`SayError` and `End` say what an application may see. `StreamService` maps a state of
`MessageConn` to it:

| StreamLines | MessageConn |
|---|---|
| `sent`, `rcvd` | the payloads the sender has sent, and the last one the receiver has received |
| `pending` | the payloads in `recvCh`, in the hands of the loop, and on the wire |
| `finAt` | what had been sent when the Close or CloseWrite frame was written |
| `ended` (`Over`) | the receiver has called Close, its loop or its connection has ended, or its context is cancelled while `recvCh` is open, as a refusal by the peer leaves it |
| `eof` | the last `Recv` without a payload said `io.EOF` |

A Close of the peer cancels the receiver's context too, but closes `recvCh` in the
same step: it does not end the line, and everything sent before it must still be
received. What is sent after the sender's own Close (`Send` looks at the context
first and writes later) may be lost, and `Past` names it.

The property `StreamsKeepPromises` is that specification under this mapping, and
`EOFAfterAll` is what it implies of a `Recv` that says EOF.

## 3. Runs

Each run needs less than five minutes with two workers.

| Run | Module | Question | Distinct states |
|---|---|---|---|
| `Streams` | MessageConn | Is anything lost on a stream, is EOF last, is a stream refused too early or told of an error it did not make? | 90,378 |
| `Failures` | MessageConn | With reads and writes that fail and the connection closed, can the loop panic or payloads change order, is EOF last, and does every stream keep the promises of `StreamLines`? | 617,822 |
| `Delivery` | MessageConn | Do IDs collide, and does everything arrive at applications that go on receiving? | 6,865 |
| `ConnClose` | MessageConn | Do raw messages keep their order beside a stream, do calls return, does a Close reach the peer, does closing the connection end loops and streams, over a blocking descriptor at the plugin too? | 177,750 |
| `Deadlines` | WithContext | Does the handshake hand the loop a clean channel, do timers end with their calls, are frames whole, do a handshake and a write end with their context? | 16,472 |
| `Plugins` | PluginProcess | Do codecs agree, does a failed Open leave anything, is every exit seen, does Close release everything? | 28,561 |
| `Ipc` | IpcClient | Does a call get its own response, is one ever dropped that is waited for, does the map of callbacks stay clean, does every call return without its timer? | 280,423 |
| `Calls` | Calls | Do payloads arrive in order and complete, is a response about all the requests, when is there none, does every goroutine of the package end? | 867,749 |

The runs `PingPong`, `Orphan`, `Leftover` and `OpenHangs` show where the code does
not do what its documentation says (section 6).

### 3.1 Bounds

| Constant | Values | Why they are enough |
|---|---|---|
| `MaxStreams` | 1 for each end | streams share only the channel and the loop; `Delivery` has two, one of each end, which is what numbering and waiting for each other need |
| `MaxSends` | 2 | order and loss are about two payloads of one stream; with the end of the stream they make three frames behind a channel of one |
| `MaxCloses` | 1 for each end | the second Close of an end finds what the first has left |
| `MaxFaults` | 1 | a loop that has failed reads no more, so each end fails at most once; `Failures` and `Orphan` have one |
| `RecvCap`, `AcceptCap`, `RawCap` | 1 (100 in the code) | every wait on a full channel happens; the proofs are for any capacity |
| `WireCap` | 1 or 2 | the channel is full as soon as the peer's loop waits; 2 lets two frames cross |
| `Steps` | 3 | the write and two reads of the host's handshake |
| `Writers` | 2 | one that has a deadline and may be cancelled, one with `context.Background()` |
| `Calls` of `IpcClient`, `IdMod` | 3, 2 | the third call has the ID of the first, and the second stands between them |
| `ChannelCap`, `RawCap`, `MaxStreamFrames` | 1 | each place a frame can wait in is full while two calls wait for it |
| `Blocking` | the plugin's end in `ConnClose`, none elsewhere | a plugin that closes is the case in which the peer, the host, is not told; the host's end, which wakes, closes in the same run |
| `MaxPayloads` | 3 from `Init`, 9 from `Crowded` | three payloads make every goroutine wait for its neighbour. It takes nine to fill every place from an application that has taken nothing back to a writer that waits: `Crowded` is that state, one for each pattern, to which steps of `Next` lead from `Init` |
| `Unencodable`, `Garbled` | the first, the second | a payload is left out where it is marshalled and another where it is unmarshalled, and the third comes after both |
| `deadlines` | true from `Init`, both from `Crowded` | it matters to a write that waits only, and where one waits for an application the line is full |
| `ChanCap`, `RecvCap`, `WireCap` of `Calls` | 1 (10 and 100 in the code) | each place holds one payload, so that each is full in turn; the safety properties are proved for any capacity |
| `Plugins` | 2 | one that is started while the other holds an open end |
| codec lists | none, two, two in the other order, another | mutual codecs: none, one to choose among two, no list at all |

`CHECK_DEADLOCK FALSE` is in every cfg, because every system here stops: the
applications have done what their bounds allow, the loops have ended, the
plugins are closed. What may not stop is said by the liveness properties.

No symmetry is used: the ends differ in their IDs and `Plugins` has liveness.

### 3.2 Fairness

- `MessageConn!Progress`: the scheduler of Go runs every goroutine that can run:
  weak fairness of each loop and of a Close of the connection, strong fairness
  of the steps of a call in progress, because a writer competes with others for
  room, and `sync.Mutex` hands itself to its waiters in order.
- `MessageConn!Attentive(S)`: an application that never stops accepting, reading
  raw messages, and receiving on the streams in S. It is an assumption on the
  user, stated only where the property is for such users; nothing makes an
  application send, close or start anything.
- `WithContext!Progress`: the goroutines run; nothing makes a peer send, and no
  context has to end.
- `PluginProcess!FairSpec`: the goroutines of the host run and a process that was
  killed exits. There is no fairness for the plugin's own program, and none for
  the failures of system calls, so that `OpenReturns` is not met by failing.
- `IpcClient!FairSpec`: weak fairness of `Proceed`, the disjunction of all that goes on by
  itself. No step of it can be repeated for ever, so that this is no stronger than
  fairness of each goroutine: what stays enabled is taken in the end. Nothing is asked
  of the clock, of a message that does not unmarshal, of a crash, of a panic or of a
  context: a call that returns in `CallsReturn` was not rescued by its timeout.
- `Calls!FairSpec`, and `CallsSpec` of its instance: weak fairness of `Due`, the steps of the
  package's own goroutines, which are finitely many. Nothing is asked of the caller, of
  the code of a handler, of a context or of a crash (`Decide`). A write that waits is due
  only when there is room, or something the channel supports ends the wait.

`Attentive` is used by `Delivery` alone. `ConnClose` runs under `Progress`: nobody has to take
anything there, and its properties name the loop that waits for its application
(`LoopWaits`) and the Close that has reached nobody (`Unheard`) instead.

The properties of `ConnClose` and `Calls` that are stated as `[]<>(condition => outcome)` are
about conditions that may come and go, as a full channel does: a behaviour breaks them when
from some point on the condition holds and the outcome does not.

## 4. Proofs

All are checked by TLAPS for every value of the constants that satisfies the
named assumption of the module (`ConstantsAssumption`, `ContextAssumption`,
`PluginAssumption`, `IpcAssumption`, `CallsAssumption`).

| Module | Theorem | States | Argument |
|---|---|---|---|
| `MessageConnProofs` | `TypeCorrect` | `Spec => []TypeOK` | inductive with `CurInv`, the shape of what the loop holds |
| | `NeverPanics` | `Spec => []NoPanic` | inductive given `TypeInv` |
| | `PayloadsInOrder` | `Spec => []InOrder` | `LineInv` |
| | `RawMessagesInOrder` | `Spec => []RawInOrder` | `RawInv`, and what a step does to the raw messages of an end |
| `MessageConnStageProofs` | `OnlyEndedRejected` | `Spec => []RejectsOnlyEnded` | `StageInv` |
| | `NumbersApart` | `Spec => []NoCollision` | `StageInv` |
| | `ErrorsAreLate` | `Spec => []NoErrorOnLive` | `TellInv`: Close frames on one wire, Error frames on the other |
| `StreamServiceProofs` | `NothingLost` | `Spec => []NoLoss` | `FlowInv`, and what a step does to a line |
| | `PromisesKept` | `Spec => StreamsKeepPromises` | each step is one of `StreamLines`, or none |
| | `EOFComesLast` | `Spec => []EOFAfterAll` | `PromisesKept` and the theorem of this name of `StreamLinesProofs` |
| | `EOFAfterClose` | `Spec => [](~Cancels => EOFMeansAll)` | `EOFComesLast`, `TellInv` and `AliveInv` |
| `StreamLinesProofs` | `NothingTwice`, `NothingSkipped`, `EOFComesLast` | `Spec => []NoneTwice`, `[]NoGap`, `[]EOFIsLast` | `LinesInv`, the three together |
| `WithContextProofs` | `TypeCorrect` | `Spec => []TypeOK` | the holder of `wMu` is writing; `StepInv` counts the handshake |
| | `CleanHandover` | `Spec => []HandoverIsClean` | who may have set the deadline |
| | `TimersEnd` | `Spec => []NoTimerOutlivesCall` | a timer is armed and cleared within its call |
| | `WholeFrames` | `Spec => []FramesAreWhole` | `WholeInv`: one writer between its two pieces, and it holds `wMu` |
| `PluginProcessProofs` | `TypeCorrect` | `Spec => []TypeOK` | `IInv` |
| | `NothingLeft` | `Spec => []FailedOpenLeavesNothing` | `IInv`, its part `Held` |
| | `OneCodec` | `Spec => []CodecsAgree` | `IInv`, its part `Agreed`, and `BestIsFirst` |
| `IpcClientProofs` | `TypeCorrect` | `Spec => []TypeOK` | `IInv` |
| | `OwnAnswers` | `Spec => []OwnAnswer` | `IInv`: IDs travel with their calls |
| | `NothingStays` | `Spec => []NothingLeftBehind` | `IInv`, its part `MapInv` |
| | `AnswerStillComes` | `Spec => []AnswerComes` | `PInv`: the callback stays, and every place passes the response on |
| `CallsProofs` | `TypeCorrect` | `Spec => []TypeOK` | `TypeInv` and `StartInv`: the Start frame is the first |
| | `ArrivalInOrder` | `Spec => []ArrivesInOrder` | `RespInv` and `ReqInv`: seven and eleven places in a line |
| | `CompleteResponses` | `Spec => []ResponsesComplete` | `RespInv`, its parts `RespPipe` and `RespWhole` |
| | `ResponseOfAll` | `Spec => []ResponseIsOfAll` | `EndInv`: what says the end comes after the last request |
| | `NilIsExcused` | `Spec => []NilHasACause` | `HearInv`: nothing that ends the stream comes before the response |

**TypeCorrect, NeverPanics** (`MessageConnProofs`). `TypeOK` is not inductive alone:
a loop that waits to push, to accept or to reply uses the ID of the frame it
holds as that of a stream, and only `CurInv` says that it is one. `TypeInv` is the
two together. `NoPanic` says that the streams in the map and the one the loop is
pushing to have an open channel; it is inductive given `TypeInv`, because a channel
is closed in the step that takes its stream out of the map, and a frame is pushed
only to a stream that was found there by a loop that closes nothing meanwhile.
Only the steps that change the map, close a channel or give the loop a frame can
disturb it, and each of them has its own step in the proof.

**PayloadsInOrder** (`MessageConnProofs`). What is on its way to an end on one
stream is in three places: `recvCh`, the hands of the loop, the wire. `Ordered` says
of the three that the payloads of the stream have increasing numbers, above those
received and not above those sent. It is stated of values, and there is one lemma
for each thing that can happen to the three: a frame is written at the end of the
wire, read into the loop's hands, pushed, dropped, or received. The invariant is
`LineInv`: `OrderInv`, which says `Ordered` of every end and stream, and `PlainInv`,
which says that frames that are no payloads have no number and that `recvCh` holds
frames of its own stream only; without it a frame that is received could be one
whose number says nothing. `OrderImplied` then joins the three places into the one
sequence `InOrder` is about.

**RawMessagesInOrder** (`MessageConnProofs`). `RawInv` says where the numbers of the raw
messages are while the loop of an end runs: those after the last one read are in
`rawMsgCh`, without a gap; the next is with the loop, if it holds one; the raw frames on
the wire are the rest, in order, up to the last one written. `RawMoves` says what any
step may do to this line (`RawMove`: nothing, a frame is written, read, pushed, taken),
`RawKept` that each of the five keeps it. Frames of streams are in between on the wire, so
that the wire's part is said of the set of its raw frames and of their order.

**CleanHandover, TimersEnd** (`WithContextProofs`). The deadline is of a call that is
in progress, or was set by the watcher of a call whose context has ended; the
watcher of the handshake has exited before the deadline is cleared for the last
time, so that what strikes the loop later is of a writer. That is the role of
`exited` in `negotiate.go`, and the mutant without it breaks `HandoverIsClean`.

**WholeFrames, TypeCorrect** (`WithContextProofs`). `WholeInv` says that the writer that
holds `wMu` is the only one in `io` or `half`, and that a first piece with nothing
after it is the last of the wire and of the writer in `half`. A write that fails
there leaves its piece, which the property allows, because `out` says so.

**OnlyEndedRejected, NumbersApart** (`MessageConnStageProofs`). Both need to know what a
frame on the wire says of its stream. `NumInv`: an end numbers its streams below
`nextStreamID`, one by odd and the other by even numbers. `LifeInv`: a stream in the
map is at a stage at which it was put there, and one that has left it is
cancelled. `RoadInv`: a frame on its way to the end that started a stream is no
Start frame, and the other end has had the stream; on the way from it, one Start
frame comes before all others as long as the other end does not have the stream.
`HandInv`: the same of what the loop has read. A reply is then for a stream the end
has had and that is no longer in its map, and a Start frame never finds its
number in the map. The lemmas about wires are stated of values, as those of the
order proof are.

**ErrorsAreLate** (`MessageConnStageProofs`). An Error frame is the answer of an end whose
stream is gone from its map, and the property says that it finds no stream there but one
that its own end is closing. That needs both directions at once, and `TellInv` says of each
end and stream: an Error frame on the wire comes from an end where the stream is gone; a
Close frame on the wire comes from an end that has called Close; an end that has neither
closed the stream nor lost it finds a Close frame before any Error frame on its wire; and
once the peer has written its Close frame, or its stream is gone, either the end knows or
the Close frame is on the way to it. An end that answers "stream not found" is one whose
stream is gone, so by the last two its Close frame is on the wire already or the other end
is aware. `TellMoves` reduces a step to what it may do to one end and stream (`Acts`) and to
one wire (`Carries`); the other lemmas show that each action does no more. The theorem is
about the connection where writes do not give up: a Close that gives up on its frame still
leaves the map, and then an Error frame does find a live stream.

**EOFAfterClose** (`StreamServiceProofs`). `EOFComesLast` says that EOF means all on a line that
is not over. `AliveInv` says that a stream which is `Live` is not over: the steps that end a
line without a Close at its own end are an Error frame, which `TellInv` excludes, a loop that
fails and a connection that closes. The hypothesis `~Cancels` is the one of `ErrorsAreLate`.

**NothingLost, PromisesKept** (`StreamServiceProofs`). Order and stages do not say what the
end of a stream has to do with the payloads on their way; `FlowInv` does. `FinInv`: behind
a Close or CloseWrite frame come only payloads with numbers above `finAt`. `KindInv`: what
kinds of frame each place can hold. `CancelInv`: a context is cancelled because the end
has closed, because the channel is closed with it, or because an Error frame has been
read, and a stream with an Error frame in `recvCh` is over. `ShutInv`: when the peer's Close
has closed `recvCh`, all that is left on the wire was sent past it. The proof goes in three
layers. `StepNext` reduces the actions to the few things that can happen to one
line (`LineMove`) and to the life of one stream (`CtxMove`). `FlowNext` and `MoveOn` are
proved from those moves alone: a step keeps what is pending on a line, adds the payload
that is sent, takes the first, or loses some of a line that is over or past its end.
The last layer is the mapping: the five actions that change `sent`, `rcvd`, `finAt` or
`last` are each shown to be the step of `StreamLines` that has their name
(`SendMaps`, `FinishMaps`, `RecvFrameMaps`, `RecvEndMaps`), and every other one (`Silent`) is
an `End`, by `MoveOn`.

**NothingTwice, NothingSkipped, EOFComesLast** (`StreamLinesProofs`). `EOFIsLast` needs
`NoGap`: if payload `finAt` had not arrived it would still be pending, and EOF could not
be said. `StreamServiceProofs` carries the last over to the code: `PromisesKept` makes
every behaviour of `MessageConn` one of `StreamLines`.

**TypeCorrect, OwnAnswers, NothingStays** (`IpcClientProofs`). `TurnInv`: numbers are
given once. `FrameInv`: each request and response, wherever it is, carries the ID of
its call. `MapInv`: a callback is stored under the ID of a call in progress. From
these, `AnswerInv`: what is in the loop's hands, in a channel or returned has the ID
of the call it goes to. Two calls of one ID have different numbers, so that
`OwnAnswer` is what is left when the wrap is all that can confuse them.

**AnswerStillComes** (`IpcClientProofs`). `AnswerComes` follows a request and its response
through `toPlugin`, `rawMsgCh`, the plugin and `toHost` into the loop's hands and the call's
channel. The step that could lose it is the loop's: it reads the response and finds no
callback. `StoredInv` excludes that: as long as no other call has the ID, the callback stays
in the map from `Store` until the call returns, and `FrameInv` says that the response carries
this ID. With two calls of one ID it is false, because the Delete of one removes the callback
of the other; `Alone` is in the property for that reason. `StreamInv` says that a frame the
plugin throws away is no call's. `PInv` adds the three to `IInv`; it was checked on the
instance of `Ipc` before it was proved.

**ArrivalInOrder** (`CallsProofs`). The payloads of a call stand in places: what the
application has got, then each Go channel and the hand of each goroutine, `recvCh` and the
wire, back to the end that gives them. `Responses` is that line for `SingleMulti`, with
seven places, `Requests` for `MultiSingle`, with eleven. `Line` says of the places read one
after the other that the numbers are those given (`Within`), increase (`Climbs`), and that
none that unmarshals is missing before one that is there (`NoGap`). Five things happen to a
line, and one lemma for each says that it stays one: a payload goes to the next place
(`PassLine`), is dropped where it does not unmarshal (`DropLine`), is added at the near end
(`AddLine`, `EnterLine`), or all places behind one are lost (`CutLine`). `RespMoves` and
`ReqMoves` say which of these each step of the program is. Behind a cut nothing may enter,
or there would be a gap; that nobody passes on what is behind is said by `ReadInv` and
`ReqFlags`: an end whose context is cancelled has nobody any more who receives from
`recvCh`, and a Close frame comes from a handler that is done, or from a caller that has
cancelled. `FarEnd` reads the property off a line whose first places are `Filtered`.

**CompleteResponses** (`CallsProofs`). All the caller is told is that its channel is closed.
`RespPipe` carries that back along the pipe: a channel is closed by a goroutine that has
ended, with nothing in its hand, after the channel it took from was closed and empty.
`RespWhole` is the other end of it: when the `copier` closes the first channel, its context
has not ended and the process lives, the handler has written its Close frame, which comes
after every response, so that the places left in the line hold all of them.

**ResponseOfAll** (`CallsProofs`). A handler responds when `range` over its requests ends, and
the property is about the caller, who sees the response later: between the two lie the
channels of both ends and a crash, a cancel or a Close at any point. `ReqPipe` carries
closed channels back as `RespPipe` does; `Sealed` says that a CloseWrite frame is the last of
the data in its direction and written by a feeder that is done. `WaitInv` is about a call
that still awaits its response (`Awaiting`): nothing of its stream was cut but by its own
feeder, and no Close frame is on its way to a handler that takes. `OverInv` combines them:
where a handler that takes for such a call is told of the end, the line holds every request
that unmarshals (`ReqsOver`). `Settled` is what the handler then knows, that it stopped early
or has taken everything; no step undoes it, and `AnswerInv` carries it along the path of
the response: in the handler, on the wire, in `recvCh`, and with the caller. `EndInv`, the
conjunction, was checked on the instance of `Calls` before it was proved.

**NilIsExcused** (`CallsProofs`). A call returns nil when its stream ends before a response has
come. `HearInv` is about a call that still waits, whose context and whose plugin live and
whose handler has not stopped early (`Hearing`): its stream is open and not cancelled, nothing
is on its way to it before the handler has answered (`Answered`), and from then on the response
is the first of what is in `recvCh` and on the wire. The steps that could break it are a Close
of the feeder, which `Hearing` excludes because the feeder closes only when the context has
ended or a write has failed, and a Close frame of the handler, which comes after its response.

**TypeCorrect, NothingLeft, OneCodec** (`PluginProcessProofs`). `Held` says which end of its
socket pair the host holds at each point of Open and what the process is then;
`Agreed` follows the list and the answer: a response is the codec of an Attaching
that has succeeded, which `BestIsFirst` shows to be the first of the plugin's list
that the host has named, a minimum that exists because numbers are well founded.

Only model-checked: the liveness properties, because the prover does not reach fairness
(`Delivered`, `CloseEndsLoops`, `CloseEndsStreams`, `CallsReturn`, `CloseReachesPeer`,
`HandshakeEnds`, `WriteEnds`, `LoopSeesExit`, `OpenReturns`, `CloseReleases`,
`GoroutinesEnd`). Every safety property of a passing run is a theorem.

## 5. What is not modelled

- What a reader makes of a frame that a deadline has cut short: `FramesAreWhole` says
  that only the writer's own error tears one, and the models of the connection
  let frames cross whole.
- Two writers with timeouts at once: one that leaves clears the deadline by which
  the watcher of the other has just ended its write (`conn.go` 82-107). `WriteEnds` is
  stated for the only writer with a timer.
- `ReadData` on a connection without a loop: both constructors of the package start it.
- The wrap of `nextStreamID` after 2^31 streams of one end.
- The Windows launcher. It differs in its handles, which are closed in straight-line
  code; what a Close does to a read that waits on a blocking pipe handle is decided
  in the runtime of Go, and a model of it would rest on a guess. Its channel is the
  `pipe` of `WithContext`.
- Codecs, generated messages and the conversions of `TypedStream`: no state.
- The scripts: `main` of the example host and the commands of its plugins.
- In `PluginProcess`, what travels after the negotiation, and frames that are
  still in the socket when a process exits.

## 6. Where code and documentation differ

| Run | Property | What TLC shows |
|---|---|---|
| `PingPong` | `ClosedIsQuiet` | Both ends close a stream. The Close frame that arrives second finds no stream and is answered with an Error frame, which finds none at the other end and is answered too, and so on for ever (`conn.go` 395-404). |
| `Orphan` | `NoStreamAfterCrash` | The loop dies after `startStream` has looked at `readLoopErr` and before it registers the stream. The caller gets a stream that nothing will ever end (`conn_routing.go` 41-45). |
| `Leftover` | `NoLeftover` | The watcher of a write that has returned sets the deadline to now, where it stays and fails the loop (`conn.go` 94-104). |
| `OpenHangs` | `HandshakeEnds` | The context of `Open` has ended, the plugin is silent, and `Open` waits on a descriptor that has no deadline (`plugin_unix.go` 30). |

Some limits of the code are not findings, because nothing says otherwise:

- A stream nobody receives on holds up all the others of its connection (`conn.go` 429).
  `Delivered` is stated for applications that go on taking what arrives, for that reason.
- A loop that waits for a reader of raw messages, or for somebody to accept a stream, does
  not notice that its connection is closed (`conn.go` 308-313, 387-394). `CloseEndsLoops`,
  `CloseEndsStreams`, `CloseReachesPeer` and `CallsReturn` name it.
- A Close on a blocking descriptor reaches neither loop before the peer writes or goes
  (`conn.go` 70 with `plugin_unix.go` 30 and `client.go` 47): a host that is silent does not
  learn that its plugin has closed the connection and lives on. `CloseEndsLoops` and
  `CloseEndsStreams` name it.
- `CallMultiSingle` returns nil and no error when its stream ends without a response
  (`conn_routing.go` 131). `NilHasACause` says when. Through the typed `Route` the caller gets
  the error of unmarshalling nothing instead.
- The goroutines of a call that wait for ever are those of section 2.5, with `generic.go` 99
  the first.

## 7. Plan

Done, in this order: `MessageConn` and its proofs, `WithContext` and its proofs,
`PluginProcess`, `IpcClient` and its proofs, `Calls`, `StreamLines` with the refinement,
the frames of `WithContext`, the proofs of `PluginProcess`, those of the stages of a
stream, the proof that streams lose nothing and implement `StreamLines`, those of Error
frames and raw messages, those of `Calls`, and the one that responses of `IpcClient` are not
lost; then blocking descriptors in `MessageConn`, and applications in `Calls` that may stop at
any step. To come:

1. The stream of `Calls` as an implementation of `StreamLines` too, so that what the proofs
   of calls use of a stream is what those of the connection show.
2. Torn frames as a reader sees them, and `nextStreamID` with a small width.
