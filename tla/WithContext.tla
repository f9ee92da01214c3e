---------------------------- MODULE WithContext ----------------------------
(***************************************************************************)
(* How a context ends a call that waits in the channel.  A call arms the   *)
(* one deadline the channel has, for reads and writes alike, and starts a  *)
(* watcher, a goroutine that sets the deadline to now when the context     *)
(* ends.  There are two such functions, both called withContext:           *)
(*   - the handshake's, negotiate.go: its calls come one after the other,  *)
(*     all with the context of Open or Attaching;                          *)
(*   - the connection's, conn.go: its calls come from any goroutine, each  *)
(*     with a context of its own, while the read loop waits in the same    *)
(*     channel with no context at all.                                     *)
(* The connection begins when the handshake has ended well.  A frame goes  *)
(* out in two pieces, as an rwc.Write may do that waits for room: wMu keeps*)
(* the frames of two writers apart, and a deadline may strike in between.  *)
(***************************************************************************)
EXTENDS Naturals, Sequences

CONSTANTS
  Writers,      \* calls on the connection, named by their contexts
  Steps,        \* the calls of the handshake: a write, two reads
  Timed,        \* the contexts that have a deadline
  Cancellable,  \* the contexts that can be cancelled
  Kinds         \* what the rwc may be: see Channels

Open == "open"                  \* the handshake, and its context
Callers == Writers \cup {Open}
NoOne == "nobody"               \* the holder of a mutex that is free

(* "poll": SetDeadline takes effect, as on a net.Conn or a pollable file.  *)
(* "file": it fails with ErrNoDeadline, as on the blocking descriptors of  *)
(* plugin_unix.go and client.go, and the failure is ignored.  "pipe": there*)
(* is no SetDeadline, as on pipeClientConn, and the watcher closes the rwc.*)
Channels == {"poll", "file", "pipe"}

ASSUME ContextAssumption ==
  /\ Writers \cap {Open, NoOne, "none", "past"} = {} /\ Steps \in Nat \ {0}
  /\ Timed \subseteq Callers /\ Cancellable \subseteq Callers
  /\ Kinds \subseteq Channels

VARIABLES
  kind,         \* what the rwc is, one of Channels
  due,          \* whether the time of the context's deadline has come
  ended,        \* whether its Done is closed
  pc,           \* where the call is
  watcher,      \* where its watcher is
  out,          \* what the call has returned
  deadline,     \* the channel's: "none", "past", or that of a context
  closed,       \* whether the rwc is closed
  wMu,          \* who writes
  step,         \* calls of the handshake that have returned
  loop,         \* the read loop
  wire          \* the pieces of frames the writers have put on the channel

ctxVars  == <<due, ended>>
callVars == <<pc, watcher, out>>
chanVars == <<deadline, closed>>
connVars == <<wMu, step, loop, wire>>
vars == <<kind, ctxVars, callVars, chanVars, connVars>>

Init ==
  /\ kind \in Kinds
  /\ due = [c \in Callers |-> FALSE] /\ ended = [c \in Callers |-> FALSE]
  /\ pc = [c \in Callers |-> "idle"]
  /\ watcher = [c \in Callers |-> "none"]
  /\ out = [c \in Callers |-> "none"]
  /\ deadline = "none" /\ closed = FALSE
  /\ wMu = NoOne /\ step = 0 /\ loop = "off" /\ wire = <<>>

-----------------------------------------------------------------------------
(* Contexts.  The timer of the context is not the one of the channel: Done *)
(* is closed some time after the deadline has come.                        *)
ComesDue(c) ==
  /\ c \in Timed /\ ~due[c]
  /\ due' = [due EXCEPT ![c] = TRUE]
  /\ UNCHANGED <<kind, ended, callVars, chanVars, connVars>>

Ends(c) ==
  /\ ~ended[c] /\ (due[c] \/ c \in Cancellable)
  /\ ended' = [ended EXCEPT ![c] = TRUE]
  /\ UNCHANGED <<kind, due, callVars, chanVars, connVars>>

HasDone(c) == c \in Timed \cup Cancellable

-----------------------------------------------------------------------------
(* The channel.                                                            *)
SetDeadline(d) == deadline' = IF kind = "poll" THEN d ELSE deadline
Passed == deadline = "past" \/ (deadline \in Callers /\ due[deadline])

\* What a call that waits in the channel gets: its bytes, or an error.
Transfers == ~Passed /\ ~closed
Fails == Passed \/ closed

-----------------------------------------------------------------------------
(* Both functions: check the context, arm the deadline, start the watcher. *)
Arms(c) == /\ pc' = [pc EXCEPT ![c] = IF c = Open THEN "io" ELSE "lock"]
           /\ watcher' = [watcher EXCEPT ![c] =
                            IF HasDone(c) THEN "waiting" ELSE "none"]

\* The handshake's clears what an earlier call may have left.
HandshakeEnter ==
  /\ pc[Open] = "idle" /\ step < Steps /\ ~ended[Open]
  /\ SetDeadline(IF Open \in Timed THEN Open ELSE "none")
  /\ Arms(Open)
  /\ UNCHANGED <<kind, ctxVars, out, closed, connVars>>

WriterEnter(w) ==
  /\ pc[w] = "idle" /\ loop # "off" /\ ~ended[w]
  /\ IF w \in Timed THEN SetDeadline(w) ELSE UNCHANGED deadline
  /\ Arms(w)
  /\ UNCHANGED <<kind, ctxVars, out, closed, connVars>>

\* fn of a write takes wMu first.
LockShared(w) ==                             \* mutant: an RLock
  /\ pc[w] = "lock"
  /\ wMu' = w
  /\ pc' = [pc EXCEPT ![w] = "io"]
  /\ UNCHANGED <<kind, ctxVars, watcher, out, chanVars, step, loop, wire>>
Lock(w) ==
  /\ pc[w] = "lock" /\ wMu = NoOne
  /\ wMu' = w
  /\ pc' = [pc EXCEPT ![w] = "io"]
  /\ UNCHANGED <<kind, ctxVars, watcher, out, chanVars, step, loop, wire>>

Piece(w, part) == [by |-> w, part |-> part]

\* A part of the frame is on the channel, and Write waits for room.
WriteHead(w) ==
  /\ pc[w] = "io" /\ Transfers
  /\ wire' = Append(wire, Piece(w, "head"))
  /\ pc' = [pc EXCEPT ![w] = "half"]
  /\ UNCHANGED <<kind, ctxVars, watcher, out, chanVars, wMu, step, loop>>

\* fn returns, and the writer gives wMu up.
UnlockForgotten(c) == UNCHANGED wMu          \* mutant: Unlock is missing
Unlock(c) == wMu' = IF c = wMu THEN NoOne ELSE wMu

Returns(c, result) ==
  /\ pc' = [pc EXCEPT ![c] = "returned"]
  /\ out' = [out EXCEPT ![c] = result]
  /\ Unlock(c)
  /\ UNCHANGED <<kind, ctxVars, watcher, chanVars, step, loop>>

CallSucceeds ==
  /\ pc[Open] = "io" /\ Transfers
  /\ Returns(Open, "ok")
  /\ UNCHANGED wire

WriteSucceeds(w) ==
  /\ pc[w] = "half" /\ Transfers
  /\ wire' = Append(wire, Piece(w, "body"))
  /\ Returns(w, "ok")

\* The error is the context's when the context has ended by now.  What is on
\* the channel stays there.
FnFails(c) ==
  /\ pc[c] \in {"io", "half"} /\ Fails
  /\ Returns(c, IF ended[c] THEN "context" ELSE "timeout")
  /\ UNCHANGED wire

\* The watcher's select, in which both cases may be ready, ...
WatcherWakes(c) ==
  /\ watcher[c] = "waiting"
  /\ \/ ended[c] /\ watcher' = [watcher EXCEPT ![c] = "woken"]
     \/ pc[c] \in {"closed", "over"} /\ watcher' = [watcher EXCEPT ![c] = "exited"]
  /\ UNCHANGED <<kind, ctxVars, pc, out, chanVars, connVars>>

\* ... and what it does when the context was the one.
WatcherSleeps(c) ==                          \* mutant: it only exits
  /\ watcher[c] = "woken"
  /\ watcher' = [watcher EXCEPT ![c] = "exited"]
  /\ UNCHANGED <<kind, ctxVars, pc, out, chanVars, connVars>>
WatcherActs(c) ==
  /\ watcher[c] = "woken"
  /\ SetDeadline("past")
  /\ closed' = (closed \/ kind = "pipe")
  /\ watcher' = [watcher EXCEPT ![c] = "exited"]
  /\ UNCHANGED <<kind, ctxVars, pc, out, connVars>>

\* close(done).
CloseDone(c) ==
  /\ pc[c] = "returned"
  /\ pc' = [pc EXCEPT ![c] = "closed"]
  /\ UNCHANGED <<kind, ctxVars, watcher, out, chanVars, connVars>>

\* The connection's clears the deadline if it has set one, and is gone.
WriterLeavesIt(w) ==                         \* mutant: the defer is missing
  /\ pc[w] = "closed"
  /\ pc' = [pc EXCEPT ![w] = "over"]
  /\ UNCHANGED <<kind, ctxVars, watcher, out, chanVars, connVars>>
WriterLeave(w) ==
  /\ pc[w] = "closed"
  /\ IF w \in Timed THEN SetDeadline("none") ELSE UNCHANGED deadline
  /\ pc' = [pc EXCEPT ![w] = "over"]
  /\ UNCHANGED <<kind, ctxVars, watcher, out, closed, connVars>>

\* The handshake's waits for its watcher first, and always clears.  After the
\* last call the loop starts.
Left(w) == w \in {"none", "exited"}
HandshakeHurries ==                          \* mutant: <-exited is missing
  /\ pc[Open] = "closed" /\ out[Open] = "ok"
  /\ SetDeadline("none")
  /\ step' = step + 1
  /\ pc' = [pc EXCEPT ![Open] = IF step' = Steps THEN "over" ELSE "idle"]
  /\ loop' = IF step' = Steps THEN "reading" ELSE loop
  /\ UNCHANGED <<kind, ctxVars, watcher, out, closed, wMu, wire>>
HandshakeLeave ==
  /\ pc[Open] = "closed" /\ out[Open] = "ok" /\ Left(watcher[Open])
  /\ SetDeadline("none")
  /\ step' = step + 1
  /\ pc' = [pc EXCEPT ![Open] = IF step' = Steps THEN "over" ELSE "idle"]
  /\ loop' = IF step' = Steps THEN "reading" ELSE loop
  /\ UNCHANGED <<kind, ctxVars, watcher, out, closed, wMu, wire>>

\* It gives up at a call that fails or that its context does not let begin;
\* Open and Attaching then close the rwc.
HandshakeGiveUp ==
  /\ \/ pc[Open] = "closed" /\ out[Open] # "ok" /\ Left(watcher[Open])
     \/ pc[Open] = "idle" /\ ended[Open]
  /\ SetDeadline("none")
  /\ closed' = TRUE
  /\ pc' = [pc EXCEPT ![Open] = "over"]
  /\ out' = [out EXCEPT ![Open] = IF ended[Open] THEN "context" ELSE @]
  /\ UNCHANGED <<kind, ctxVars, watcher, connVars>>

\* A writer whose context has ended before returns at once.
WriterRefused(w) ==
  /\ pc[w] = "idle" /\ loop # "off" /\ ended[w]
  /\ pc' = [pc EXCEPT ![w] = "over"]
  /\ out' = [out EXCEPT ![w] = "context"]
  /\ UNCHANGED <<kind, ctxVars, watcher, chanVars, connVars>>

\* The loop's ReadFull has no context of its own.
LoopFails ==
  /\ loop = "reading" /\ Fails
  /\ loop' = "failed"
  /\ UNCHANGED <<kind, ctxVars, callVars, chanVars, wMu, step, wire>>

-----------------------------------------------------------------------------
Handshake == \/ HandshakeEnter \/ HandshakeLeave \/ HandshakeGiveUp
Writer(w) == \/ WriterEnter(w) \/ Lock(w) \/ WriterLeave(w) \/ WriterRefused(w)
Transfer == CallSucceeds \/ \E w \in Writers : WriteHead(w) \/ WriteSucceeds(w)
Watcher(c) == WatcherWakes(c) \/ WatcherActs(c)
Context(c) == ComesDue(c) \/ Ends(c)

Next ==
  \/ Handshake \/ Transfer \/ LoopFails
  \/ \E w \in Writers : Writer(w)
  \/ \E c \in Callers : Context(c) \/ Watcher(c) \/ CloseDone(c) \/ FnFails(c)

Spec == Init /\ [][Next]_vars

\* The scheduler runs every goroutine that can run.  Nothing makes the peer
\* send, and no context has to end.
Progress ==
  /\ WF_vars(Handshake) /\ WF_vars(LoopFails)
  /\ \A w \in Writers : WF_vars(Writer(w))
  /\ \A c \in Callers : WF_vars(Watcher(c)) /\ WF_vars(CloseDone(c))
                        /\ WF_vars(FnFails(c))
FairSpec == Spec /\ Progress

-----------------------------------------------------------------------------
\* Every variable has the values its field or local can have, and wMu is held
\* by a writer that is writing.
TypeOK ==
  /\ kind \in Channels
  /\ due \in [Callers -> BOOLEAN] /\ ended \in [Callers -> BOOLEAN]
  /\ pc \in [Callers -> {"idle", "lock", "io", "half", "returned", "closed", "over"}]
  /\ watcher \in [Callers -> {"none", "waiting", "woken", "exited"}]
  /\ out \in [Callers -> {"none", "ok", "context", "timeout"}]
  /\ deadline \in {"none", "past"} \cup Callers
  /\ closed \in BOOLEAN
  /\ wMu \in {NoOne} \cup {w \in Writers : pc[w] \in {"io", "half"}}
  /\ step \in 0 .. Steps /\ loop \in {"off", "reading", "failed"}
  /\ wire \in Seq([by : Writers, part : {"head", "body"}])

Expiring(c) == due[c] \/ ended[c]
InCall(c) == pc[c] \notin {"idle", "over"}

\* "exited is used to ensure the goroutine exits before clearing the deadline":
\* whatever becomes of the context of Open once Open has returned, the read
\* loop it started fails only of a call made on the connection later.  (Over a
\* "pipe" the watcher may close the rwc of a handshake that succeeds.)
HandoverIsClean ==
  kind # "pipe" /\ loop = "failed" => \E w \in Writers : Expiring(w) /\ watcher[w] # "none"

\* A deadline that lies ahead is that of a call in progress: none survives to
\* strike an operation of another context.
NoTimerOutlivesCall == deadline \in Callers => InCall(deadline)

\* "writes it atomically to the underlying channel": the second piece of a
\* frame follows the first, and nothing but the second piece does, unless the
\* write has failed: a frame is torn by an error its writer is told of, never
\* by another writer.
FramesAreWhole ==
  \A k \in DOMAIN wire :
    LET w == wire[k].by IN
    IF wire[k].part = "body" THEN k > 1 /\ wire[k - 1] = Piece(w, "head")
    ELSE \/ k = Len(wire) \/ wire[k + 1] = Piece(w, "body")
         \/ out[w] \in {"context", "timeout"}

\* A write whose context has ended returns, though the peer reads nothing and
\* another writer holds wMu, when it is the only one whose context has a
\* deadline: the end of another such write would clear the deadline the
\* watcher of the first has set.
OnlyTimer(w) == \A v \in Writers \ {w} : v \notin Timed
WriteEnds == \A w \in Writers : OnlyTimer(w) => (ended[w] ~> pc[w] \in {"idle", "over"})

\* A handshake whose context has ended returns, though the peer is silent.
HandshakeEnds == ended[Open] ~> pc[Open] = "over"

\* The loop fails of a deadline only while a call is there whose context is
\* ending: calls that have returned leave nothing behind.
NoLeftover ==
  [][loop = "reading" /\ loop' = "failed" =>
       \E w \in Writers : InCall(w) /\ Expiring(w)]_vars

=============================================================================
