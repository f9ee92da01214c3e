--------------------------- MODULE PluginProcess ---------------------------
(***************************************************************************)
(* The life of plugin processes on Unix: Open makes a socket pair, starts  *)
(* the process with one end as its descriptor 3, negotiates the codec and  *)
(* starts the read loop; Attaching is the other side; Close ends it all.   *)
(* One host opens several plugins at once.                                 *)
(*                                                                         *)
(* What decides who learns of whose end is which process holds which end   *)
(* of which socket pair: a read gets EOF when nobody holds the other end.  *)
(* The descriptors block, so closing one a read waits on lets go of it     *)
(* only when the read returns, and contexts end no read (WithContext).  A  *)
(* length and its JSON are written at once and read here as one message.   *)
(***************************************************************************)
EXTENDS Naturals, Sequences

CONSTANTS
  Plugins,      \* the processes started, by the calls of Open that start them
  HostLists,    \* what codecs a host may support,
  PluginLists,  \* and a plugin, preferred first
  Failures      \* whether calls of the system fail and contexts end

Host == "host"
Processes == Plugins \cup {Host}
NoCodec == "none"
CodecsOf(list) == {list[k] : k \in DOMAIN list}

ASSUME PluginAssumption ==
  /\ Host \notin Plugins /\ Failures \in BOOLEAN
  /\ \A list \in HostLists \cup PluginLists :
       list \in Seq(CodecsOf(list)) /\ NoCodec \notin CodecsOf(list)

VARIABLES
  hostList, pluginList, \* the codecs given to Open and to Attaching
  opening,      \* where Open is
  attaching,    \* where Attaching is
  proc,         \* the process: "none", "running", "exited", "reaped"
  killed,       \* whether it has been sent SIGKILL
  hostEnd,      \* who holds the host's end of the socket pair
  childEnd,     \* and the child's
  request, response,        \* what the socket pair carries, or NoCodec
  hostCodec, pluginCodec,   \* what the two MessageConns were made with
  loop,         \* the read loop of the host
  closing,      \* where Plugin.Close is
  waiting       \* where a call of Plugin.Wait is

lists == <<hostList, pluginList>>
ends  == <<hostEnd, childEnd>>
wires == <<request, response>>
codecs == <<hostCodec, pluginCodec>>
vars == <<lists, opening, attaching, proc, killed, ends, wires, codecs, loop,
          closing, waiting>>

Each(v) == [p \in Plugins |-> v]

Init ==
  /\ hostList \in [Plugins -> HostLists]
  /\ pluginList \in [Plugins -> PluginLists]
  /\ opening = Each("called") /\ attaching = Each("none")
  /\ proc = Each("none") /\ killed = Each(FALSE)
  /\ hostEnd = Each({}) /\ childEnd = Each({})
  /\ request = Each({}) /\ response = Each(NoCodec)
  /\ hostCodec = Each(NoCodec) /\ pluginCodec = Each(NoCodec)
  /\ loop = Each("off") /\ closing = Each("no") /\ waiting = Each("no")

HostEOF(p) == childEnd[p] = {}
PluginEOF(p) == hostEnd[p] = {}

-----------------------------------------------------------------------------
(* Open.                                                                   *)
SocketPair(p) ==
  /\ opening[p] = "called"
  /\ hostEnd' = [hostEnd EXCEPT ![p] = {Host}]
  /\ childEnd' = [childEnd EXCEPT ![p] = {Host}]
  /\ opening' = [opening EXCEPT ![p] = "paired"]
  /\ UNCHANGED <<lists, attaching, proc, killed, wires, codecs, loop, closing,
                 waiting>>

SocketPairFails(p) ==
  /\ opening[p] = "called" /\ Failures
  /\ opening' = [opening EXCEPT ![p] = "failed"]
  /\ UNCHANGED <<lists, attaching, proc, killed, ends, wires, codecs, loop,
                 closing, waiting>>

\* A new process gets the end in ExtraFiles and, SOCK_CLOEXEC being set on
\* all others, no more.
InheritsAll(p) ==                            \* mutant: SOCK_CLOEXEC is not set
  /\ hostEnd' = [q \in Plugins |-> IF Host \in hostEnd[q]
                                   THEN hostEnd[q] \cup {p} ELSE hostEnd[q]]
  /\ childEnd' = [q \in Plugins |-> IF Host \in childEnd[q]
                                    THEN childEnd[q] \cup {p} ELSE childEnd[q]]
Inherits(p) ==
  /\ childEnd' = [childEnd EXCEPT ![p] = @ \cup {p}]
  /\ UNCHANGED hostEnd

Start(p) ==
  /\ opening[p] = "paired"
  /\ Inherits(p)
  /\ proc' = [proc EXCEPT ![p] = "running"]
  /\ attaching' = [attaching EXCEPT ![p] = "reading"]
  /\ opening' = [opening EXCEPT ![p] = "started"]
  /\ UNCHANGED <<lists, killed, wires, codecs, loop, closing, waiting>>

StartFailsLeaking(p) ==                      \* mutant: childFd stays open
  /\ opening[p] = "paired" /\ Failures
  /\ hostEnd' = [hostEnd EXCEPT ![p] = {}]
  /\ opening' = [opening EXCEPT ![p] = "failed"]
  /\ UNCHANGED <<lists, attaching, proc, killed, childEnd, wires, codecs, loop,
                 closing, waiting>>
StartFails(p) ==
  /\ opening[p] = "paired" /\ Failures
  /\ hostEnd' = [hostEnd EXCEPT ![p] = @ \ {Host}]
  /\ childEnd' = [childEnd EXCEPT ![p] = @ \ {Host}]
  /\ opening' = [opening EXCEPT ![p] = "failed"]
  /\ UNCHANGED <<lists, attaching, proc, killed, wires, codecs, loop, closing,
                 waiting>>

\* "The host must immediately close its reference to childFd!"
CloseChildLater(p) ==                        \* mutant: it does not
  /\ opening[p] = "started"
  /\ opening' = [opening EXCEPT ![p] = "alone"]
  /\ UNCHANGED <<lists, attaching, proc, killed, ends, wires, codecs, loop,
                 closing, waiting>>
CloseChild(p) ==
  /\ opening[p] = "started"
  /\ childEnd' = [childEnd EXCEPT ![p] = @ \ {Host}]
  /\ opening' = [opening EXCEPT ![p] = "alone"]
  /\ UNCHANGED <<lists, attaching, proc, killed, hostEnd, wires, codecs, loop,
                 closing, waiting>>

\* negotiateFromHostToPlugin: the names of the host's codecs go out, ...
SendRequest(p) ==
  /\ opening[p] = "alone"
  /\ hostList[p] # <<>> /\ ~HostEOF(p)
  /\ request' = [request EXCEPT ![p] = CodecsOf(hostList[p])]
  /\ opening' = [opening EXCEPT ![p] = "asked"]
  /\ UNCHANGED <<lists, attaching, proc, killed, ends, response, codecs, loop,
                 closing, waiting>>

\* ... the plugin's choice comes back and must be one of them, ...
ReadResponse(p) ==
  /\ opening[p] = "asked"
  /\ response[p] # NoCodec /\ response[p] \in CodecsOf(hostList[p])
  /\ hostCodec' = [hostCodec EXCEPT ![p] = response[p]]
  /\ response' = [response EXCEPT ![p] = NoCodec]
  /\ loop' = [loop EXCEPT ![p] = "reading"]
  /\ opening' = [opening EXCEPT ![p] = "open"]
  /\ UNCHANGED <<lists, attaching, proc, killed, ends, request, pluginCodec,
                 closing, waiting>>

\* ... or it fails: no codecs, a dead peer, a strange choice, ...
NegotiationFails(p) ==
  \/ opening[p] = "alone" /\ (hostList[p] = <<>> \/ HostEOF(p))
  \/ /\ opening[p] = "asked"
     /\ \/ response[p] = NoCodec /\ HostEOF(p)
        \/ response[p] # NoCodec /\ response[p] \notin CodecsOf(hostList[p])

\* ... an error of the system, a context that ends between two calls.
NegotiationBreaks(p) == Failures /\ opening[p] \in {"alone", "asked"}

\* Open then closes its end, kills the process and reaps it.
GivesUp(p) ==
  /\ hostEnd' = [hostEnd EXCEPT ![p] = @ \ {Host}]
  /\ killed' = [killed EXCEPT ![p] = TRUE]
  /\ opening' = [opening EXCEPT ![p] = "reaping"]
  /\ UNCHANGED <<lists, attaching, proc, childEnd, wires, codecs, loop,
                 closing, waiting>>
OpenKills(p) == NegotiationFails(p) /\ GivesUp(p)
OpenBreaks(p) == NegotiationBreaks(p) /\ GivesUp(p)

OpenReaps(p) ==
  /\ opening[p] = "reaping" /\ proc[p] = "exited"
  /\ proc' = [proc EXCEPT ![p] = "reaped"]
  /\ opening' = [opening EXCEPT ![p] = "failed"]
  /\ UNCHANGED <<lists, attaching, killed, ends, wires, codecs, loop, closing,
                 waiting>>

-----------------------------------------------------------------------------
(* The plugin process.                                                     *)
\* The first of the plugin's codecs that the host has too.
BestLast(list, names) ==                     \* mutant: break is missing
  LET mutual == {k \in DOMAIN list : list[k] \in names} IN
  IF mutual = {} THEN NoCodec
  ELSE list[CHOOSE k \in mutual : \A j \in mutual : j <= k]
Best(list, names) ==
  LET mutual == {k \in DOMAIN list : list[k] \in names} IN
  IF mutual = {} THEN NoCodec
  ELSE list[CHOOSE k \in mutual : \A j \in mutual : k <= j]

\* negotiateFromPluginToHost: read the names, answer with the choice.
Answer(p) ==
  /\ attaching[p] = "reading" /\ proc[p] = "running"
  /\ pluginList[p] # <<>> /\ request[p] # {} /\ ~PluginEOF(p)
  /\ LET c == Best(pluginList[p], request[p]) IN
       /\ c # NoCodec
       /\ response' = [response EXCEPT ![p] = c]
       /\ pluginCodec' = [pluginCodec EXCEPT ![p] = c]
  /\ request' = [request EXCEPT ![p] = {}]
  /\ attaching' = [attaching EXCEPT ![p] = "attached"]
  /\ UNCHANGED <<lists, opening, proc, killed, ends, hostCodec, loop, closing,
                 waiting>>

\* No codecs, none in common, a dead host, an ended context: Attaching closes
\* the descriptor.
AttachFails(p) ==
  /\ attaching[p] = "reading" /\ proc[p] = "running"
  /\ \/ pluginList[p] = <<>>
     \/ request[p] # {} /\ Best(pluginList[p], request[p]) = NoCodec
     \/ PluginEOF(p)
     \/ Failures
  /\ childEnd' = [childEnd EXCEPT ![p] = @ \ {p}]
  /\ attaching' = [attaching EXCEPT ![p] = "failed"]
  /\ UNCHANGED <<lists, opening, proc, killed, hostEnd, wires, codecs, loop,
                 closing, waiting>>

\* The process ends: at will, in a crash, or killed.
Exit(p) ==
  /\ proc[p] = "running"
  /\ proc' = [proc EXCEPT ![p] = "exited"]
  /\ hostEnd' = [q \in Plugins |-> hostEnd[q] \ {p}]
  /\ childEnd' = [q \in Plugins |-> childEnd[q] \ {p}]
  /\ UNCHANGED <<lists, opening, attaching, killed, wires, codecs, loop,
                 closing, waiting>>

-----------------------------------------------------------------------------
(* The host's side of an open plugin.                                      *)
\* The loop reads until EOF, and then lets go of a descriptor that was closed
\* meanwhile.
LoopEnds(p) ==
  /\ loop[p] = "reading" /\ HostEOF(p)
  /\ loop' = [loop EXCEPT ![p] = "done"]
  /\ hostEnd' = [hostEnd EXCEPT ![p] = IF closing[p] = "no" THEN @ ELSE @ \ {Host}]
  /\ UNCHANGED <<lists, opening, attaching, proc, killed, childEnd, wires,
                 codecs, closing, waiting>>

\* Close: the connection, ...
CloseConn(p) ==
  /\ opening[p] = "open" /\ closing[p] = "no"
  /\ closing' = [closing EXCEPT ![p] = "closed"]
  /\ hostEnd' = [hostEnd EXCEPT ![p] = IF loop[p] = "done" THEN @ \ {Host} ELSE @]
  /\ UNCHANGED <<lists, opening, attaching, proc, killed, childEnd, wires,
                 codecs, loop, waiting>>

\* ... the process, whether or not it has seen EOF, ...
CloseTrusts(p) ==                            \* mutant: Kill is missing
  /\ closing[p] = "closed"
  /\ closing' = [closing EXCEPT ![p] = "killed"]
  /\ UNCHANGED <<lists, opening, attaching, proc, killed, ends, wires, codecs,
                 loop, waiting>>
CloseKills(p) ==
  /\ closing[p] = "closed"
  /\ killed' = [killed EXCEPT ![p] = TRUE]
  /\ closing' = [closing EXCEPT ![p] = "killed"]
  /\ UNCHANGED <<lists, opening, attaching, proc, ends, wires, codecs, loop,
                 waiting>>

\* ... and its slot, unless a call of Wait is ahead of it: then the error of
\* cmd.Wait is the result.
Ended(p) == proc[p] \in {"exited", "reaped"}
CloseReaps(p) ==
  /\ closing[p] = "killed" /\ Ended(p)
  /\ proc' = [proc EXCEPT ![p] = "reaped"]
  /\ closing' = [closing EXCEPT ![p] = IF proc[p] = "exited" THEN "done" ELSE "error"]
  /\ UNCHANGED <<lists, opening, attaching, killed, ends, wires, codecs, loop,
                 waiting>>

\* Wait may be called by another goroutine at any time.
Wait(p) ==
  /\ opening[p] = "open" /\ waiting[p] = "no"
  /\ waiting' = [waiting EXCEPT ![p] = "waits"]
  /\ UNCHANGED <<lists, opening, attaching, proc, killed, ends, wires, codecs,
                 loop, closing>>

WaitReaps(p) ==
  /\ waiting[p] = "waits" /\ Ended(p)
  /\ proc' = [proc EXCEPT ![p] = "reaped"]
  /\ waiting' = [waiting EXCEPT ![p] = IF proc[p] = "exited" THEN "done" ELSE "error"]
  /\ UNCHANGED <<lists, opening, attaching, killed, ends, wires, codecs, loop,
                 closing>>

-----------------------------------------------------------------------------
Opening(p) ==
  \/ SocketPair(p) \/ Start(p) \/ CloseChild(p) \/ SendRequest(p)
  \/ ReadResponse(p) \/ OpenKills(p) \/ OpenReaps(p)
Failing(p) == SocketPairFails(p) \/ StartFails(p) \/ OpenBreaks(p)
Process(p) == Answer(p) \/ AttachFails(p) \/ Exit(p)
Closing(p) == CloseKills(p) \/ CloseReaps(p)

Next ==
  \E p \in Plugins :
    \/ Opening(p) \/ Failing(p) \/ Process(p) \/ LoopEnds(p)
    \/ CloseConn(p) \/ Closing(p) \/ Wait(p) \/ WaitReaps(p)

Spec == Init /\ [][Next]_vars

\* The goroutines of the host run, and a killed process ends.  The plugin is
\* another program: nothing makes it answer, or exit.  Nothing has to fail.
FairSpec ==
  /\ Spec
  /\ \A p \in Plugins :
       /\ WF_vars(Opening(p)) /\ WF_vars(LoopEnds(p)) /\ WF_vars(Closing(p))
       /\ WF_vars(WaitReaps(p)) /\ WF_vars(killed[p] /\ Exit(p))

-----------------------------------------------------------------------------
\* The fields have their values, and an end of a pair is held by the processes
\* it was meant for: nobody else can keep a dead connection alive.
TypeOK ==
  /\ opening \in [Plugins -> {"called", "paired", "started", "alone", "asked",
                             "open", "reaping", "failed"}]
  /\ attaching \in [Plugins -> {"none", "reading", "attached", "failed"}]
  /\ proc \in [Plugins -> {"none", "running", "exited", "reaped"}]
  /\ killed \in [Plugins -> BOOLEAN]
  /\ loop \in [Plugins -> {"off", "reading", "done"}]
  /\ closing \in [Plugins -> {"no", "closed", "killed", "done", "error"}]
  /\ waiting \in [Plugins -> {"no", "waits", "done", "error"}]
  /\ hostEnd \in [Plugins -> SUBSET {Host}]
  /\ childEnd \in [Plugins -> SUBSET Processes]
  /\ \A p \in Plugins : /\ childEnd[p] \subseteq {Host, p}
                        /\ hostCodec[p] \in CodecsOf(hostList[p]) \cup {NoCodec}

\* Both sides speak the codec the plugin likes best of those the host knows
\* ("matches the best mutual codec", "based on plugin precedence"), and Open
\* succeeds with no other.
CodecsAgree ==
  \A p \in Plugins :
    opening[p] = "open" =>
      LET c == hostCodec[p]
          known == CodecsOf(hostList[p])
          list == pluginList[p] IN
      /\ c = pluginCodec[p]
      /\ \E k \in DOMAIN list : /\ list[k] = c /\ c \in known
                                /\ \A j \in 1 .. (k - 1) : list[j] \notin known

\* An Open that fails leaves no process, no zombie and no descriptor.
FailedOpenLeavesNothing ==
  \A p \in Plugins :
    opening[p] = "failed" =>
      /\ proc[p] \in {"none", "reaped"}
      /\ Host \notin hostEnd[p] /\ Host \notin childEnd[p]

\* "Otherwise ... the host won't receive EOF when the plugin exits/crashes":
\* the loop of the host ends when the process has, whatever other plugins do.
LoopSeesExit ==
  \A p \in Plugins : Ended(p) /\ loop[p] = "reading" ~> loop[p] = "done"

\* Open returns when the process dies, at whatever point it does.
OpenReturns ==
  \A p \in Plugins : Ended(p) ~> opening[p] \in {"open", "failed"}

\* Close returns with the process gone and its slot free, the loop ended and
\* the descriptor released, though the process ignores EOF and another
\* goroutine is in Wait.
CloseReleases ==
  \A p \in Plugins :
    closing[p] # "no" ~>
      /\ closing[p] \in {"done", "error"} /\ proc[p] = "reaped"
      /\ loop[p] = "done" /\ hostEnd[p] = {}

=============================================================================
