------------------------- MODULE WithContextProofs -------------------------
(***************************************************************************)
(* What the contexts of finished calls can still do, for any set of        *)
(* writers, any contexts and any number of steps of the handshake.         *)
(***************************************************************************)
EXTENDS WithContext, TLAPS

Types ==
  /\ kind \in Channels
  /\ due \in [Callers -> BOOLEAN] /\ ended \in [Callers -> BOOLEAN]
  /\ pc \in [Callers -> {"idle", "lock", "io", "half", "returned", "closed", "over"}]
  /\ watcher \in [Callers -> {"none", "waiting", "woken", "exited"}]
  /\ deadline \in {"none", "past"} \cup Callers
  /\ loop \in {"off", "reading", "failed"}

\* Between its calls, and for good once it is over, the handshake has no
\* watcher, and while there is a loop the handshake is over.
QuietInv ==
  /\ pc[Open] \in {"idle", "over"} => Left(watcher[Open])
  /\ loop # "off" => pc[Open] = "over"

\* Only a channel without deadlines is closed under the loop.
ClosedInv == kind # "pipe" /\ closed => pc[Open] = "over" /\ loop = "off"

\* A watcher is there while its call is, wakes only when the context ends, and
\* a writer that has not called has none.
WatcherInv ==
  \A c \in Callers :
    /\ InCall(c) /\ HasDone(c) => watcher[c] # "none"
    /\ watcher[c] = "woken" => ended[c]
    /\ c \in Writers /\ pc[c] = "idle" => watcher[c] = "none"

\* Whose deadline the channel has.
DeadlineInv ==
  /\ kind # "poll" => deadline = "none"
  /\ deadline \in Callers => deadline \in Timed /\ InCall(deadline)
  /\ loop # "off" /\ deadline = "past" =>
       \E w \in Writers : ended[w] /\ watcher[w] # "none"

Inv == /\ Types /\ QuietInv /\ ClosedInv /\ WatcherInv /\ DeadlineInv
       /\ HandoverIsClean

LEMMA Names ==
  /\ Open \notin Writers /\ Open \in Callers /\ Writers \subseteq Callers
  /\ "none" \notin Callers /\ "past" \notin Callers
  /\ \A c \in Callers : c = Open \/ c \in Writers
  BY ContextAssumption DEF Callers, Open

LEMMA InvInit == Init => Inv
  BY Names, ContextAssumption
  DEF Init, Inv, Types, QuietInv, ClosedInv, WatcherInv, DeadlineInv,
      HandoverIsClean, InCall, Left

\* The steps of the contexts.
LEMMA InvContext ==
  ASSUME Inv, NEW c \in Callers, Context(c)
  PROVE  Inv'
<1> USE DEF Inv, Types, ctxVars, callVars, chanVars, connVars, Context, ComesDue, Ends
<1>1. Types'
  <2>1. CASE ComesDue(c)
    BY <2>1
  <2>2. CASE Ends(c)
    BY <2>2
  <2> QED
    BY <2>1, <2>2
<1>2. QuietInv' /\ ClosedInv'
  BY DEF QuietInv, ClosedInv, Left
<1>3. \A d \in Callers : ended[d] => ended'[d]
  OBVIOUS
<1>4. WatcherInv'
  BY <1>3 DEF WatcherInv, InCall, HasDone
<1>5. DeadlineInv'
  BY <1>3, Names DEF DeadlineInv, InCall
<1>6. HandoverIsClean'
  BY Names DEF HandoverIsClean, Expiring
<1> QED
  BY <1>1, <1>2, <1>4, <1>5, <1>6

\* The steps of the handshake.
LEMMA InvHandshake ==
  ASSUME Inv, Handshake
  PROVE  Inv'
<1> USE DEF Inv, Types, ctxVars, callVars, chanVars, connVars
<1> USE Names
<1>1. CASE HandshakeEnter
  <2> USE <1>1 DEF HandshakeEnter, SetDeadline, Arms
  <2>1. Types' /\ QuietInv' /\ ClosedInv'
    BY DEF QuietInv, ClosedInv, Left
  <2>2. WatcherInv'
    BY DEF WatcherInv, InCall, HasDone
  <2>3. loop = "off"
    BY DEF QuietInv
  <2>4. DeadlineInv'
    BY <2>3 DEF DeadlineInv, InCall
  <2>5. HandoverIsClean'
    BY <2>3 DEF HandoverIsClean
  <2> QED
    BY <2>1, <2>2, <2>4, <2>5
<1>2. CASE HandshakeLeave
  <2> USE <1>2 DEF HandshakeLeave, SetDeadline
  <2>1. Types' /\ QuietInv' /\ ClosedInv'
    BY DEF QuietInv, ClosedInv
  <2>2. WatcherInv'
    BY DEF WatcherInv, InCall
  <2>3. deadline' = "none"
    BY DEF DeadlineInv
  <2>4. DeadlineInv'
    BY <2>3 DEF DeadlineInv
  <2>5. loop = "off"
    BY DEF QuietInv
  <2>6. HandoverIsClean'
    BY <2>5 DEF HandoverIsClean
  <2> QED
    BY <2>1, <2>2, <2>4, <2>6
<1>3. CASE HandshakeGiveUp
  <2> USE <1>3 DEF HandshakeGiveUp, SetDeadline
  <2>1. Types' /\ QuietInv' /\ loop = "off"
    BY DEF QuietInv
  <2>2. ClosedInv'
    BY <2>1 DEF ClosedInv
  <2>3. WatcherInv'
    BY DEF WatcherInv, InCall
  <2>4. deadline' = "none"
    BY DEF DeadlineInv
  <2>5. DeadlineInv'
    BY <2>4 DEF DeadlineInv
  <2>6. HandoverIsClean'
    BY <2>1 DEF HandoverIsClean
  <2> QED
    BY <2>1, <2>2, <2>3, <2>5, <2>6
<1> QED
  BY <1>1, <1>2, <1>3 DEF Handshake

\* The steps of a writer.
LEMMA InvWriter ==
  ASSUME Inv, NEW w \in Writers, Writer(w)
  PROVE  Inv'
<1> USE DEF Inv, Types, ctxVars, callVars, chanVars, connVars
<1> USE Names
<1>1. CASE WriterEnter(w)
  <2> USE <1>1 DEF WriterEnter, SetDeadline, Arms
  <2>1. Types' /\ QuietInv' /\ ClosedInv'
    BY DEF QuietInv, ClosedInv
  <2>2. WatcherInv'
    BY DEF WatcherInv, InCall, HasDone
  <2>3. watcher[w] = "none"
    BY DEF WatcherInv
  <2>4. \A v \in Writers : watcher[v] # "none" => watcher'[v] # "none"
    BY <2>3
  <2>5. DeadlineInv'
    BY <2>4 DEF DeadlineInv, InCall, Expiring
  <2>6. HandoverIsClean'
    BY <2>4 DEF HandoverIsClean, Expiring
  <2> QED
    BY <2>1, <2>2, <2>5, <2>6
<1>2. CASE Lock(w)
  <2> USE <1>2 DEF Lock
  <2>1. Types' /\ QuietInv' /\ ClosedInv'
    BY DEF QuietInv, ClosedInv
  <2>2. WatcherInv' /\ DeadlineInv'
    BY DEF WatcherInv, DeadlineInv, InCall
  <2>3. HandoverIsClean'
    BY DEF HandoverIsClean, Expiring
  <2> QED
    BY <2>1, <2>2, <2>3
<1>3. CASE WriterLeave(w)
  <2> USE <1>3 DEF WriterLeave, SetDeadline
  <2>1. Types' /\ QuietInv' /\ ClosedInv'
    BY DEF QuietInv, ClosedInv
  <2>2. WatcherInv'
    BY DEF WatcherInv, InCall
  <2>3. DeadlineInv'
    BY DEF DeadlineInv, InCall
  <2>4. HandoverIsClean'
    BY DEF HandoverIsClean, Expiring
  <2> QED
    BY <2>1, <2>2, <2>3, <2>4
<1>4. CASE WriterRefused(w)
  <2> USE <1>4 DEF WriterRefused
  <2>1. Types' /\ QuietInv' /\ ClosedInv'
    BY DEF QuietInv, ClosedInv
  <2>2. WatcherInv' /\ DeadlineInv'
    BY DEF WatcherInv, DeadlineInv, InCall
  <2>3. HandoverIsClean'
    BY DEF HandoverIsClean, Expiring
  <2> QED
    BY <2>1, <2>2, <2>3
<1> QED
  BY <1>1, <1>2, <1>3, <1>4 DEF Writer

\* A step of fn goes from one stage of the call to another and touches
\* nothing Inv speaks of.
FnStep(c) ==
  /\ pc[c] \in {"io", "half", "returned"} /\ pc'[c] \in {"half", "returned", "closed"}
  /\ pc' = [pc EXCEPT ![c] = pc'[c]]
  /\ UNCHANGED <<kind, due, ended, watcher, deadline, closed, loop>>

LEMMA InvFn ==
  ASSUME Inv, NEW c \in Callers, FnStep(c)
  PROVE  Inv'
<1> USE DEF Inv, Types, FnStep
<1>1. pc[c] \notin {"idle", "over"} /\ pc'[c] \notin {"idle", "over"}
  OBVIOUS
<1>2. Types' /\ QuietInv' /\ ClosedInv'
  BY <1>1, Names DEF QuietInv, ClosedInv
<1>3. \A d \in Callers : InCall(d)' <=> InCall(d)
  BY <1>1 DEF InCall
<1>4. WatcherInv' /\ DeadlineInv'
  BY <1>3 DEF WatcherInv, DeadlineInv
<1>5. HandoverIsClean'
  BY DEF HandoverIsClean, Expiring
<1> QED
  BY <1>2, <1>4, <1>5

LEMMA InvTransfer ==
  ASSUME Inv, Transfer
  PROVE  Inv'
<1> USE DEF Inv, Types, Returns
<1>1. CASE CallSucceeds
  <2>1. FnStep(Open)
    BY <1>1, Names DEF CallSucceeds, FnStep, ctxVars, chanVars
  <2> QED
    BY <2>1, InvFn, Names
<1>2. ASSUME NEW w \in Writers, WriteHead(w) \/ WriteSucceeds(w)
      PROVE  Inv'
  <2>1. FnStep(w)
    BY <1>2, Names DEF WriteHead, WriteSucceeds, FnStep, ctxVars, chanVars
  <2> QED
    BY <2>1, InvFn, Names
<1> QED
  BY <1>1, <1>2 DEF Transfer

\* The steps of the watchers and the end of fn.
LEMMA InvCall ==
  ASSUME Inv, NEW c \in Callers, Watcher(c) \/ CloseDone(c) \/ FnFails(c)
  PROVE  Inv'
<1> USE DEF Inv, Types, ctxVars, callVars, chanVars, connVars
<1> USE Names
<1>1. CASE WatcherWakes(c)
  <2> USE <1>1 DEF WatcherWakes
  <2>1. Types' /\ QuietInv' /\ ClosedInv'
    BY DEF QuietInv, ClosedInv, Left
  <2>2. \A d \in Callers : watcher[d] # "none" <=> watcher'[d] # "none"
    OBVIOUS
  <2>3. WatcherInv' /\ DeadlineInv'
    BY <2>2 DEF WatcherInv, DeadlineInv, InCall
  <2>4. HandoverIsClean'
    BY <2>2 DEF HandoverIsClean, Expiring
  <2> QED
    BY <2>1, <2>3, <2>4
<1>2. CASE WatcherActs(c)
  <2> USE <1>2 DEF WatcherActs, SetDeadline
  <2>1. ended[c] /\ watcher'[c] = "exited"
    BY DEF WatcherInv
  <2>2. loop # "off" => c \in Writers
    BY DEF QuietInv, Left
  <2>3. Types' /\ QuietInv' /\ ClosedInv'
    BY DEF QuietInv, ClosedInv, Left
  <2>4. \A d \in Callers : watcher[d] # "none" => watcher'[d] # "none"
    OBVIOUS
  <2>5. WatcherInv'
    BY <2>4 DEF WatcherInv, InCall
  <2>6. DeadlineInv'
    BY <2>1, <2>2, <2>4 DEF DeadlineInv, InCall
  <2>7. HandoverIsClean'
    BY <2>4 DEF HandoverIsClean, Expiring
  <2> QED
    BY <2>3, <2>5, <2>6, <2>7
<1>3. CASE CloseDone(c) \/ FnFails(c)
  <2>1. FnStep(c)
    BY <1>3 DEF CloseDone, FnFails, Returns, FnStep
  <2> QED
    BY <2>1, InvFn
<1> QED
  BY <1>1, <1>2, <1>3 DEF Watcher

\* The loop fails of a passed deadline, which is a writer's.
LEMMA InvLoop ==
  ASSUME Inv, LoopFails
  PROVE  Inv'
<1> USE DEF Inv, Types, ctxVars, callVars, chanVars, connVars, LoopFails
<1> USE Names
<1>1. Types' /\ QuietInv' /\ ClosedInv' /\ WatcherInv' /\ DeadlineInv'
  BY DEF QuietInv, ClosedInv, WatcherInv, DeadlineInv, InCall
<1>2. kind # "pipe" => \E w \in Writers : Expiring(w) /\ watcher[w] # "none"
  <2> SUFFICES ASSUME kind # "pipe"
               PROVE  \E w \in Writers : Expiring(w) /\ watcher[w] # "none"
    OBVIOUS
  <2>1. Passed
    BY DEF Fails, ClosedInv
  <2>2. CASE deadline = "past"
    BY <2>2 DEF DeadlineInv, Expiring
  <2>3. CASE deadline \in Callers /\ due[deadline]
    <3>1. InCall(deadline) /\ deadline \in Timed
      BY <2>3 DEF DeadlineInv
    <3>2. deadline \in Writers
      BY <2>3, <3>1 DEF QuietInv, InCall
    <3>3. watcher[deadline] # "none"
      BY <2>3, <3>1 DEF WatcherInv, HasDone
    <3> QED
      BY <2>3, <3>2, <3>3 DEF Expiring
  <2> QED
    BY <2>1, <2>2, <2>3 DEF Passed
<1>3. HandoverIsClean'
  BY <1>2 DEF HandoverIsClean, Expiring
<1> QED
  BY <1>1, <1>3

LEMMA InvNext == Inv /\ [Next]_vars => Inv'
<1> SUFFICES ASSUME Inv, [Next]_vars PROVE Inv'
  OBVIOUS
<1>1. CASE UNCHANGED vars
  BY <1>1 DEF vars, ctxVars, callVars, chanVars, connVars, Inv, Types, QuietInv,
              ClosedInv, WatcherInv, DeadlineInv, HandoverIsClean, InCall,
              Expiring, Left
<1>2. CASE Next
  BY <1>2, InvContext, InvHandshake, InvWriter, InvTransfer, InvCall, InvLoop DEF Next
<1> QED
  BY <1>1, <1>2

\* A read loop fails of no deadline but one of a call made on the connection:
\* the contexts the handshake used can do nothing to it, whenever they end.
THEOREM CleanHandover == Spec => []HandoverIsClean
<1>1. Inv => HandoverIsClean
  BY DEF Inv
<1> QED
  BY <1>1, InvInit, InvNext, PTL DEF Spec

\* No call, of the handshake or of the connection, leaves its own deadline on
\* the channel when it returns.
THEOREM TimersEnd == Spec => []NoTimerOutlivesCall
<1>1. Inv => NoTimerOutlivesCall
  BY DEF Inv, DeadlineInv, NoTimerOutlivesCall
<1> QED
  BY <1>1, InvInit, InvNext, PTL DEF Spec

(***************************************************************************)
(* The frames of two writers                                               *)
(***************************************************************************)
Writing(w) == pc[w] \in {"io", "half"}
Failed(w) == out[w] \in {"context", "timeout"}
Pieces == [by : Writers, part : {"head", "body"}]

\* wMu is held by the one who writes.
MutexInv ==
  /\ pc \in [Callers -> {"idle", "lock", "io", "half", "returned", "closed", "over"}]
  /\ out \in [Callers -> {"none", "ok", "context", "timeout"}]
  /\ wMu \in Writers \cup {NoOne}
  /\ \A w \in Writers : Writing(w) <=> wMu = w
  /\ pc[Open] # "half"

\* Who has written nothing, and who has written half: whoever else has a first
\* piece at the end has failed.
WireInv ==
  /\ wire \in Seq(Pieces)
  /\ \A w \in Writers : pc[w] \in {"idle", "lock", "io"} =>
       \A k \in DOMAIN wire : wire[k].by # w
  /\ \A w \in Writers : pc[w] = "half" =>
       /\ Len(wire) > 0 /\ wire[Len(wire)] = Piece(w, "head")
       /\ \A k \in DOMAIN wire : k # Len(wire) => wire[k].by # w
  /\ Len(wire) > 0 /\ wire[Len(wire)].part = "head" =>
       LET w == wire[Len(wire)].by IN pc[w] = "half" \/ Failed(w)

WholeInv == MutexInv /\ WireInv /\ FramesAreWhole

NotYet(w) == pc[w] \in {"idle", "lock", "io"}

\* Steps that write nothing, take nobody's lock and undo no failure.
Mild ==
  /\ UNCHANGED <<wire, wMu>>
  /\ pc' \in [Callers -> {"idle", "lock", "io", "half", "returned", "closed", "over"}]
  /\ out' \in [Callers -> {"none", "ok", "context", "timeout"}]
  /\ pc'[Open] # "half"
  /\ \A w \in Writers : /\ Writing(w)' <=> Writing(w)
                        /\ pc'[w] = "half" <=> pc[w] = "half"
                        /\ NotYet(w)' => NotYet(w)
                        /\ Failed(w) => Failed(w)'

\* What a member of a sequence of pieces is.
LEMMA PieceOf ==
  ASSUME NEW q \in Seq(Pieces), NEW k \in DOMAIN q
  PROVE  q[k].by \in Writers /\ q[k].part \in {"head", "body"}
<1>1. q[k] \in Pieces
  OBVIOUS
<1> QED
  BY <1>1 DEF Pieces

LEMMA WholeInit == Init => WholeInv
<1> SUFFICES ASSUME Init PROVE WholeInv
  OBVIOUS
<1>1. MutexInv
  BY ContextAssumption, Names DEF Init, MutexInv, Writing, NoOne
<1>2. wire = <<>>
  BY DEF Init
<1>3. WireInv /\ FramesAreWhole
  BY <1>2, Names DEF Init, WireInv, FramesAreWhole
<1> QED
  BY <1>1, <1>3 DEF WholeInv

LEMMA WholeMild == WholeInv /\ Mild => WholeInv'
<1> SUFFICES ASSUME WholeInv, Mild PROVE WholeInv'
  OBVIOUS
<1> USE DEF WholeInv, Mild
<1>1. MutexInv'
  BY DEF MutexInv
<1>2. WireInv'
  <2>1. wire' = wire /\ wire \in Seq(Pieces)
    BY DEF WireInv
  <2>2. \A w \in Writers : NotYet(w)' => \A k \in DOMAIN wire : wire[k].by # w
    BY DEF WireInv, NotYet
  <2>3. \A w \in Writers : pc'[w] = "half" =>
          /\ Len(wire) > 0 /\ wire[Len(wire)] = Piece(w, "head")
          /\ \A k \in DOMAIN wire : k # Len(wire) => wire[k].by # w
    BY DEF WireInv
  <2>4. Len(wire) > 0 /\ wire[Len(wire)].part = "head" =>
          LET w == wire[Len(wire)].by IN pc'[w] = "half" \/ Failed(w)'
    <3> SUFFICES ASSUME Len(wire) > 0, wire[Len(wire)].part = "head"
                 PROVE  LET w == wire[Len(wire)].by IN pc'[w] = "half" \/ Failed(w)'
      OBVIOUS
    <3>1. wire[Len(wire)].by \in Writers
      <4>1. Len(wire) \in DOMAIN wire
        BY <2>1
      <4> QED
        BY <2>1, <4>1, PieceOf
    <3> QED
      BY <3>1 DEF WireInv
  <2> QED
    BY <2>1, <2>2, <2>3, <2>4 DEF WireInv, NotYet, Piece
<1>3. FramesAreWhole'
  <2>1. wire' = wire /\ wire \in Seq(Pieces)
    BY DEF WireInv
  <2>2. \A k \in DOMAIN wire : wire[k].by \in Writers
    BY <2>1, PieceOf
  <2> QED
    BY <2>1, <2>2 DEF FramesAreWhole, Failed, Piece
<1> QED
  BY <1>1, <1>2, <1>3

\* The steps that are mild: those of the contexts, the watchers and the
\* handshake, and the ways into a write and out of it.
LEMMA MildSteps ==
  ASSUME WholeInv,
         \/ Handshake \/ LoopFails \/ CallSucceeds
         \/ \E w \in Writers : WriterEnter(w) \/ WriterLeave(w) \/ WriterRefused(w)
         \/ \E c \in Callers : Context(c) \/ Watcher(c) \/ CloseDone(c)
         \/ FnFails(Open)
  PROVE  Mild
<1> USE Names, ContextAssumption
<1> USE DEF WholeInv, MutexInv, Writing, NotYet, Failed, connVars, callVars
<1>1. CASE Handshake
  <2>1. CASE HandshakeEnter
    BY <2>1 DEF HandshakeEnter, Arms, Mild
  <2>2. CASE HandshakeLeave
    BY <2>2 DEF HandshakeLeave, Mild
  <2>3. CASE HandshakeGiveUp
    BY <2>3 DEF HandshakeGiveUp, Mild
  <2> QED
    BY <1>1, <2>1, <2>2, <2>3 DEF Handshake
<1>2. CASE LoopFails
  BY <1>2 DEF LoopFails, Mild
<1>3. CASE CallSucceeds \/ FnFails(Open)
  <2>1. wMu # Open
    BY DEF Open, NoOne
  <2> QED
    BY <1>3, <2>1 DEF CallSucceeds, FnFails, Returns, Unlock, Mild
<1>4. ASSUME NEW w \in Writers, WriterEnter(w) \/ WriterLeave(w) \/ WriterRefused(w)
      PROVE  Mild
  BY <1>4 DEF WriterEnter, WriterLeave, WriterRefused, Arms, Mild
<1>5. ASSUME NEW c \in Callers, Context(c) \/ Watcher(c) \/ CloseDone(c)
      PROVE  Mild
  BY <1>5 DEF Context, ComesDue, Ends, Watcher, WatcherWakes, WatcherActs, CloseDone, Mild
<1> QED
  BY <1>1, <1>2, <1>3, <1>4, <1>5

\* The steps of a write.
LEMMA WholeLock ==
  ASSUME WholeInv, NEW w \in Writers, Lock(w)
  PROVE  WholeInv'
<1> USE Names, ContextAssumption DEF WholeInv, Lock
<1>1. MutexInv'
  BY DEF MutexInv, Writing, Open, NoOne
<1>2. WireInv'
  BY DEF MutexInv, WireInv, Failed, Piece
<1>3. FramesAreWhole'
  BY DEF FramesAreWhole, Piece
<1> QED
  BY <1>1, <1>2, <1>3

LEMMA WholeHead ==
  ASSUME WholeInv, NEW w \in Writers, WriteHead(w)
  PROVE  WholeInv'
<1> USE Names, ContextAssumption DEF WholeInv, WriteHead
<1>1. MutexInv'
  BY DEF MutexInv, Writing
<1>2. /\ wire \in Seq(Pieces) /\ Piece(w, "head") \in Pieces
      /\ wire' = Append(wire, Piece(w, "head"))
  BY DEF WireInv, Pieces, Piece
<1>3. /\ wire' \in Seq(Pieces) /\ Len(wire') = Len(wire) + 1
      /\ wire'[Len(wire')] = Piece(w, "head")
      /\ \A k \in DOMAIN wire : wire'[k] = wire[k]
      /\ DOMAIN wire = 1 .. Len(wire) /\ DOMAIN wire' = 1 .. Len(wire')
      /\ Len(wire) \in Nat
  BY <1>2
<1>4. \A k \in DOMAIN wire : wire[k].by # w
  BY DEF WireInv
<1>5. \A v \in Writers : v # w => ~Writing(v)
  BY DEF MutexInv, Writing
<1>6. WireInv'
  <2>1. \A v \in Writers : pc'[v] \in {"idle", "lock", "io"} =>
          \A k \in DOMAIN wire' : wire'[k].by # v
    <3> SUFFICES ASSUME NEW v \in Writers, pc'[v] \in {"idle", "lock", "io"},
                        NEW k \in DOMAIN wire'
                 PROVE  wire'[k].by # v
      OBVIOUS
    <3>1. v # w /\ pc[v] = pc'[v]
      BY DEF MutexInv
    <3>2. CASE k = Len(wire')
      BY <3>1, <3>2, <1>3 DEF Piece
    <3>3. CASE k # Len(wire')
      <4>1. k \in DOMAIN wire
        BY <3>3, <1>3
      <4> QED
        BY <4>1, <3>1, <1>3 DEF WireInv
    <3> QED
      BY <3>2, <3>3
  <2>2. \A v \in Writers : pc'[v] = "half" => v = w
    BY <1>5 DEF MutexInv, Writing
  <2>3. \A k \in DOMAIN wire' : k # Len(wire') => wire'[k].by # w
    BY <1>3, <1>4
  <2>4. pc'[w] = "half"
    BY DEF MutexInv
  <2> QED
    BY <2>1, <2>2, <2>3, <2>4, <1>3 DEF WireInv, Piece
<1>7. FramesAreWhole'
  <2> SUFFICES ASSUME NEW k \in DOMAIN wire'
               PROVE  LET v == wire'[k].by IN
                      IF wire'[k].part = "body"
                      THEN k > 1 /\ wire'[k - 1] = Piece(v, "head")
                      ELSE \/ k = Len(wire') \/ wire'[k + 1] = Piece(v, "body")
                           \/ out'[v] \in {"context", "timeout"}
    BY DEF FramesAreWhole, Piece
  <2>1. CASE k = Len(wire')
    <3>1. wire'[k].part # "body"
      BY <2>1, <1>3 DEF Piece
    <3> QED
      BY <2>1, <3>1
  <2>2. CASE k = Len(wire) /\ wire[k].part # "body"
    <3>1. wire[k].part = "head" /\ wire[k].by \in Writers
      <4>1. k \in DOMAIN wire
        BY <2>2, <1>3
      <4> QED
        BY <2>2, <4>1, <1>2, PieceOf
    <3>2. wire[k].by # w /\ Len(wire) > 0
      BY <1>3, <1>4, <2>2
    <3>3. pc[wire[k].by] # "half"
      BY <3>1, <3>2, <1>5 DEF Writing
    <3>4. Failed(wire[k].by)
      BY <2>2, <3>1, <3>2, <3>3 DEF WireInv
    <3> QED
      BY <2>2, <3>1, <3>4, <1>3 DEF Failed
  <2>3. CASE k # Len(wire') /\ ~(k = Len(wire) /\ wire[k].part # "body")
    <3>1. /\ k \in DOMAIN wire /\ wire'[k] = wire[k]
          /\ k > 1 => wire'[k - 1] = wire[k - 1]
          /\ k # Len(wire) => wire'[k + 1] = wire[k + 1]
      BY <2>3, <1>3
    <3> QED
      BY <2>3, <3>1 DEF FramesAreWhole
  <2> QED
    BY <2>1, <2>2, <2>3
<1> QED
  BY <1>1, <1>6, <1>7

LEMMA WholeBody ==
  ASSUME WholeInv, NEW w \in Writers, WriteSucceeds(w)
  PROVE  WholeInv'
<1> USE Names, ContextAssumption DEF WholeInv, WriteSucceeds, Returns
<1>1. wMu = w /\ wMu' = NoOne /\ NoOne \notin Writers
  BY DEF MutexInv, Writing, Unlock, NoOne
<1>2. MutexInv'
  BY <1>1 DEF MutexInv, Writing, Open
<1>3. /\ wire \in Seq(Pieces) /\ Piece(w, "body") \in Pieces
      /\ wire' = Append(wire, Piece(w, "body"))
  BY DEF WireInv, Pieces, Piece
<1>4. /\ wire' \in Seq(Pieces) /\ Len(wire') = Len(wire) + 1
      /\ wire'[Len(wire')] = Piece(w, "body")
      /\ \A k \in DOMAIN wire : wire'[k] = wire[k]
      /\ DOMAIN wire = 1 .. Len(wire) /\ DOMAIN wire' = 1 .. Len(wire')
      /\ Len(wire) \in Nat
  BY <1>3
<1>5. /\ Len(wire) > 0 /\ wire[Len(wire)] = Piece(w, "head")
      /\ \A k \in DOMAIN wire : k # Len(wire) => wire[k].by # w
  BY DEF WireInv
<1>6. \A v \in Writers : v # w => ~Writing(v)
  BY <1>1 DEF MutexInv
<1>7. WireInv'
  <2>1. \A v \in Writers : pc'[v] \in {"idle", "lock", "io"} =>
          \A k \in DOMAIN wire' : wire'[k].by # v
    <3> SUFFICES ASSUME NEW v \in Writers, pc'[v] \in {"idle", "lock", "io"},
                        NEW k \in DOMAIN wire'
                 PROVE  wire'[k].by # v
      OBVIOUS
    <3>1. v # w /\ pc[v] = pc'[v]
      BY DEF MutexInv
    <3>2. CASE k = Len(wire')
      BY <3>1, <3>2, <1>4 DEF Piece
    <3>3. CASE k # Len(wire')
      <4>1. k \in DOMAIN wire
        BY <3>3, <1>4
      <4> QED
        BY <4>1, <3>1, <1>4 DEF WireInv
    <3> QED
      BY <3>2, <3>3
  <2>2. \A v \in Writers : pc'[v] # "half"
    BY <1>6 DEF MutexInv, Writing
  <2>3. wire'[Len(wire')].part # "head"
    BY <1>4 DEF Piece
  <2> QED
    BY <2>1, <2>2, <2>3, <1>4 DEF WireInv
<1>8. FramesAreWhole'
  <2> SUFFICES ASSUME NEW k \in DOMAIN wire'
               PROVE  LET v == wire'[k].by IN
                      IF wire'[k].part = "body"
                      THEN k > 1 /\ wire'[k - 1] = Piece(v, "head")
                      ELSE \/ k = Len(wire') \/ wire'[k + 1] = Piece(v, "body")
                           \/ out'[v] \in {"context", "timeout"}
    BY DEF FramesAreWhole, Piece
  <2>1. CASE k = Len(wire')
    <3>1. wire'[k].by = w /\ k > 1 /\ k - 1 = Len(wire)
      BY <2>1, <1>4, <1>5 DEF Piece
    <3>2. wire'[k - 1] = Piece(w, "head")
      BY <3>1, <1>4, <1>5
    <3> QED
      BY <2>1, <3>1, <3>2
  <2>2. CASE k = Len(wire)
    <3>1. wire'[k].by = w /\ wire'[k].part # "body"
      BY <2>2, <1>4, <1>5 DEF Piece
    <3>2. wire'[k + 1] = Piece(w, "body")
      BY <2>2, <1>4
    <3> QED
      BY <3>1, <3>2
  <2>3. CASE k # Len(wire') /\ k # Len(wire)
    <3>1. /\ k \in DOMAIN wire /\ wire'[k] = wire[k]
          /\ k > 1 => wire'[k - 1] = wire[k - 1]
          /\ wire'[k + 1] = wire[k + 1]
      BY <2>3, <1>4
    <3>2. wire[k].by # w /\ wire[k].by \in Writers
      BY <3>1, <2>3, <1>3, <1>5, PieceOf
    <3>3. out'[wire[k].by] = out[wire[k].by]
      BY <3>2 DEF MutexInv
    <3> QED
      BY <2>3, <3>1, <3>3 DEF FramesAreWhole
  <2> QED
    BY <2>1, <2>2, <2>3
<1> QED
  BY <1>2, <1>7, <1>8

LEMMA WholeFails ==
  ASSUME WholeInv, NEW w \in Writers, FnFails(w)
  PROVE  WholeInv'
<1> USE Names, ContextAssumption DEF WholeInv, FnFails, Returns
<1>1. wMu = w /\ wMu' = NoOne /\ NoOne \notin Writers
  BY DEF MutexInv, Writing, Unlock, NoOne
<1>2. MutexInv'
  BY <1>1 DEF MutexInv, Writing, Open
<1>3. wire \in Seq(Pieces) /\ wire' = wire
  BY DEF WireInv
<1>4. \A v \in Writers : v # w => ~Writing(v)
  BY <1>1 DEF MutexInv
<1>5. Failed(w)' /\ pc'[w] = "returned"
  BY DEF MutexInv, Failed
<1>6. \A v \in Writers : v # w => pc'[v] = pc[v] /\ (Failed(v)' <=> Failed(v))
  BY DEF MutexInv, Failed
<1>7. WireInv'
  <2>1. \A v \in Writers : pc'[v] \in {"idle", "lock", "io"} =>
          \A k \in DOMAIN wire : wire[k].by # v
    BY <1>5, <1>6 DEF WireInv
  <2>2. \A v \in Writers : pc'[v] # "half"
    BY <1>4, <1>5, <1>6 DEF Writing
  <2>3. Len(wire) > 0 /\ wire[Len(wire)].part = "head" => Failed(wire[Len(wire)].by)'
    <3> SUFFICES ASSUME Len(wire) > 0, wire[Len(wire)].part = "head"
                 PROVE  Failed(wire[Len(wire)].by)'
      OBVIOUS
    <3>1. Len(wire) \in DOMAIN wire
      BY <1>3
    <3>2. wire[Len(wire)].by \in Writers
      BY <1>3, <3>1, PieceOf
    <3>3. CASE wire[Len(wire)].by = w
      BY <3>3, <1>5 DEF Failed
    <3>4. CASE wire[Len(wire)].by # w
      <4>1. pc[wire[Len(wire)].by] # "half"
        BY <3>2, <3>4, <1>4 DEF Writing
      <4>2. Failed(wire[Len(wire)].by)
        BY <4>1 DEF WireInv
      <4> QED
        BY <4>2, <3>2, <3>4, <1>3, <1>6 DEF Failed
    <3> QED
      BY <3>3, <3>4
  <2> QED
    BY <1>3, <2>1, <2>2, <2>3 DEF WireInv, Failed
<1>8. FramesAreWhole'
  <2>1. \A k \in DOMAIN wire : wire[k].by \in Writers
    BY <1>3, PieceOf
  <2> QED
    BY <2>1, <1>3, <1>5, <1>6 DEF FramesAreWhole, Failed, Piece
<1> QED
  BY <1>2, <1>7, <1>8

LEMMA WholeNext == WholeInv /\ [Next]_vars => WholeInv'
<1> SUFFICES ASSUME WholeInv, [Next]_vars PROVE WholeInv'
  OBVIOUS
<1>1. CASE UNCHANGED vars
  BY <1>1 DEF vars, callVars, connVars, WholeInv, MutexInv, WireInv,
              FramesAreWhole, Writing, Failed, Piece
<1>2. CASE Next
  <2>1. ASSUME NEW w \in Writers, Writer(w)
        PROVE  WholeInv'
    BY <2>1, MildSteps, WholeMild, WholeLock DEF Writer
  <2>2. CASE Transfer
    BY <2>2, MildSteps, WholeMild, WholeHead, WholeBody DEF Transfer
  <2>3. ASSUME NEW c \in Callers, FnFails(c)
        PROVE  WholeInv'
    BY <2>3, MildSteps, WholeMild, WholeFails, Names
  <2>4. CASE \/ Handshake \/ LoopFails
             \/ \E c \in Callers : Context(c) \/ Watcher(c) \/ CloseDone(c)
    BY <2>4, MildSteps, WholeMild
  <2> QED
    BY <1>2, <2>1, <2>2, <2>3, <2>4 DEF Next
<1> QED
  BY <1>1, <1>2

\* No frame is torn but by a write that reports an error: what two writers put
\* on the channel is never mixed, whatever becomes of their contexts.
THEOREM WholeFrames == Spec => []FramesAreWhole
<1>1. WholeInv => FramesAreWhole
  BY DEF WholeInv
<1> QED
  BY <1>1, WholeInit, WholeNext, PTL DEF Spec

(***************************************************************************)
(* The types of all variables                                              *)
(***************************************************************************)
\* The steps of the handshake are counted when one ends, and none begins after
\* the last.
StepInv ==
  /\ closed \in BOOLEAN /\ step \in 0 .. Steps
  /\ pc[Open] \notin {"idle", "over"} => step < Steps

LEMMA StepNext == Types /\ StepInv /\ [Next]_vars => StepInv'
<1> SUFFICES ASSUME Types, StepInv, [Next]_vars PROVE StepInv'
  OBVIOUS
<1> USE Names, ContextAssumption DEF StepInv, Types, ctxVars, callVars, chanVars, connVars
<1>1. CASE UNCHANGED vars
  BY <1>1 DEF vars
<1>2. CASE HandshakeEnter
  BY <1>2 DEF HandshakeEnter, Arms
<1>3. CASE HandshakeLeave
  <2>1. step < Steps /\ step' = step + 1 /\ closed' = closed
    BY <1>3 DEF HandshakeLeave
  <2>2. pc' = [pc EXCEPT ![Open] = IF step' = Steps THEN "over" ELSE "idle"]
    BY <1>3 DEF HandshakeLeave
  <2>3. pc'[Open] \in {"idle", "over"}
    BY <2>2
  <2> QED
    BY <2>1, <2>3
<1>4. CASE HandshakeGiveUp
  BY <1>4 DEF HandshakeGiveUp
<1>5. CASE CallSucceeds
  BY <1>5 DEF CallSucceeds, Returns
<1>6. ASSUME NEW w \in Writers, WriteHead(w) \/ WriteSucceeds(w) \/ Writer(w)
      PROVE  StepInv'
  BY <1>6 DEF WriteHead, WriteSucceeds, Returns, Writer, WriterEnter, Arms, Lock,
              WriterLeave, WriterRefused
<1>7. ASSUME NEW c \in Callers,
             Context(c) \/ Watcher(c) \/ CloseDone(c) \/ FnFails(c)
      PROVE  StepInv'
  BY <1>7 DEF Context, ComesDue, Ends, Watcher, WatcherWakes, WatcherActs,
              CloseDone, FnFails, Returns
<1>8. CASE LoopFails
  BY <1>8 DEF LoopFails
<1> HIDE DEF StepInv, Types, ctxVars, callVars, chanVars, connVars
<1>9. CASE Next
  <2>1. CASE Handshake
    BY <2>1, <1>2, <1>3, <1>4 DEF Handshake
  <2>2. CASE Transfer
    BY <2>2, <1>5, <1>6 DEF Transfer
  <2> QED
    BY <1>9, <2>1, <2>2, <1>6, <1>7, <1>8 DEF Next
<1> QED
  BY <1>1, <1>9

\* Every variable keeps its type: the handshake counts no call past its last,
\* and wMu is held by a writer that is writing, or by nobody.
THEOREM TypeCorrect == Spec => []TypeOK
<1>1. Init => StepInv
  <2> SUFFICES ASSUME Init PROVE StepInv
    OBVIOUS
  <2>1. pc[Open] = "idle"
    BY Names DEF Init
  <2>2. closed = FALSE /\ step = 0
    BY DEF Init
  <2>3. 0 \in 0 .. Steps
    BY ContextAssumption
  <2> QED
    BY <2>1, <2>2, <2>3 DEF StepInv
<1>2. Inv => Types
  BY DEF Inv
<1>3. Inv /\ WholeInv /\ StepInv => TypeOK
  <2> SUFFICES ASSUME Inv, WholeInv, StepInv PROVE TypeOK
    OBVIOUS
  <2>1. wMu \in {NoOne} \cup {w \in Writers : pc[w] \in {"io", "half"}}
    BY DEF WholeInv, MutexInv, Writing
  <2>2. wire \in Seq([by : Writers, part : {"head", "body"}])
    BY DEF WholeInv, WireInv, Pieces
  <2> QED
    BY <2>1, <2>2 DEF Inv, Types, WholeInv, MutexInv, StepInv, TypeOK
<1> QED
  BY <1>1, <1>2, <1>3, InvInit, InvNext, WholeInit, WholeNext, StepNext, PTL DEF Spec

=============================================================================
