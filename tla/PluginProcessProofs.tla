------------------------ MODULE PluginProcessProofs ------------------------
(***************************************************************************)
(* What Open leaves behind when it fails, and what both ends have agreed on*)
(* when it does not: for any number of plugins, opened at once, and any    *)
(* lists of codecs.                                                        *)
(***************************************************************************)
EXTENDS PluginProcess, WellFoundedInduction, TLAPS

\* The first codec of the list that is among the names.
First(c, list, names) ==
  c \in names /\ \E k \in DOMAIN list : /\ list[k] = c
                                        /\ \A j \in 1 .. (k - 1) : list[j] \notin names

\* "matches the best mutual codec": negotiateFromPluginToHost chooses the
\* first codec of its list that the host has named.
LEMMA BestIsFirst ==
  ASSUME NEW S, NEW list \in Seq(S), NEW names, Best(list, names) # NoCodec
  PROVE  First(Best(list, names), list, names)
<1> DEFINE mutual == {k \in DOMAIN list : list[k] \in names}
<1>1. mutual # {} /\ mutual \subseteq Nat
  BY DEF Best
<1> DEFINE less == OpToRel(<, Nat)
<1>2. \A j, k \in Nat : j < k => <<j, k>> \in less
  BY DEF OpToRel
<1>3. \E k \in mutual : \A j \in mutual : k <= j
  <2>1. IsWellFoundedOn(less, Nat)
    BY NatLessThanWellFounded
  <2> HIDE DEF less, mutual
  <2>2. \E k \in mutual : \A j \in mutual : <<j, k>> \notin less
    BY <1>1, <2>1, WFMin
  <2>3. PICK k \in mutual : \A j \in mutual : <<j, k>> \notin less
    BY <2>2
  <2>4. ASSUME NEW j \in mutual PROVE k <= j
    <3>1. j \in Nat /\ k \in Nat
      BY <1>1
    <3>2. ~(j < k)
      BY <1>2, <2>3, <3>1
    <3> QED
      BY <3>1, <3>2
  <2> QED
    BY <2>4
<1> DEFINE n == CHOOSE k \in mutual : \A j \in mutual : k <= j
<1>4. n \in mutual /\ \A j \in mutual : n <= j
  BY <1>3
<1>5. Best(list, names) = list[n]
  BY <1>1 DEF Best
<1>6. \A j \in 1 .. (n - 1) : list[j] \notin names
  BY <1>4
<1> HIDE DEF n
<1> QED
  BY <1>4, <1>5, <1>6 DEF First

(***************************************************************************)
(* The invariant                                                           *)
(***************************************************************************)
\* The wires and the codecs have a value for each plugin.
Shape ==
  /\ DOMAIN request = Plugins /\ DOMAIN response = Plugins
  /\ DOMAIN hostCodec = Plugins /\ DOMAIN pluginCodec = Plugins
  /\ hostList \in [Plugins -> HostLists] /\ pluginList \in [Plugins -> PluginLists]

\* What the host has by the time Open has come to a point.
Held(p) ==
  /\ opening[p] \in {"called", "paired"} => proc[p] = "none"
  /\ opening[p] \in {"called", "reaping", "failed"} => Host \notin hostEnd[p]
  /\ Host \in childEnd[p] => opening[p] \in {"paired", "started"}
  /\ opening[p] = "failed" => proc[p] \in {"none", "reaped"}

\* What the two sides have agreed on by then.
Agreed(p) ==
  /\ opening[p] \in {"called", "paired"} => attaching[p] = "none"
  /\ request[p] \in {{}, CodecsOf(hostList[p])}
  /\ attaching[p] = "attached" =>
       First(pluginCodec[p], pluginList[p], CodecsOf(hostList[p]))
  /\ response[p] # NoCodec => attaching[p] = "attached" /\ response[p] = pluginCodec[p]
  /\ opening[p] = "open" => attaching[p] = "attached" /\ hostCodec[p] = pluginCodec[p]

IInv == TypeOK /\ Shape /\ (\A p \in Plugins : Held(p) /\ Agreed(p))

LEMMA IInvInit == Init => IInv
  BY PluginAssumption DEF Init, Each, IInv, TypeOK, Shape, Held, Agreed, Processes

LEMMA StepSocketPair == ASSUME IInv, NEW p \in Plugins, SocketPair(p) PROVE IInv'
<1> USE DEF SocketPair, IInv, lists, wires, codecs, ends
<1>1. TypeOK'
  BY PluginAssumption DEF TypeOK, Processes
<1>2. Shape'
  BY DEF Shape
<1>3. ASSUME NEW q \in Plugins PROVE Held(q)'
  BY PluginAssumption DEF TypeOK, Held
<1>4. ASSUME NEW q \in Plugins PROVE Agreed(q)'
  BY PluginAssumption DEF TypeOK, Shape, Agreed
<1> QED
  BY <1>1, <1>2, <1>3, <1>4

LEMMA StepSocketPairFails == ASSUME IInv, NEW p \in Plugins, SocketPairFails(p) PROVE IInv'
<1> USE DEF SocketPairFails, IInv, lists, wires, codecs, ends
<1>1. TypeOK'
  BY PluginAssumption DEF TypeOK, Processes
<1>2. Shape'
  BY DEF Shape
<1>3. ASSUME NEW q \in Plugins PROVE Held(q)'
  BY PluginAssumption DEF TypeOK, Held
<1>4. ASSUME NEW q \in Plugins PROVE Agreed(q)'
  BY PluginAssumption DEF TypeOK, Shape, Agreed
<1> QED
  BY <1>1, <1>2, <1>3, <1>4

LEMMA StepStart == ASSUME IInv, NEW p \in Plugins, Start(p) PROVE IInv'
<1> USE DEF Start, Inherits, IInv, lists, wires, codecs, ends
<1>1. TypeOK'
  BY PluginAssumption DEF TypeOK, Processes
<1>2. Shape'
  BY DEF Shape
<1>3. ASSUME NEW q \in Plugins PROVE Held(q)'
  BY PluginAssumption DEF TypeOK, Held
<1>4. ASSUME NEW q \in Plugins PROVE Agreed(q)'
  BY PluginAssumption DEF TypeOK, Shape, Agreed
<1> QED
  BY <1>1, <1>2, <1>3, <1>4

LEMMA StepStartFails == ASSUME IInv, NEW p \in Plugins, StartFails(p) PROVE IInv'
<1> USE DEF StartFails, IInv, lists, wires, codecs, ends
<1>1. TypeOK'
  BY PluginAssumption DEF TypeOK, Processes
<1>2. Shape'
  BY DEF Shape
<1>3. ASSUME NEW q \in Plugins PROVE Held(q)'
  BY PluginAssumption DEF TypeOK, Held
<1>4. ASSUME NEW q \in Plugins PROVE Agreed(q)'
  BY PluginAssumption DEF TypeOK, Shape, Agreed
<1> QED
  BY <1>1, <1>2, <1>3, <1>4

LEMMA StepCloseChild == ASSUME IInv, NEW p \in Plugins, CloseChild(p) PROVE IInv'
<1> USE DEF CloseChild, IInv, lists, wires, codecs, ends
<1>1. TypeOK'
  BY PluginAssumption DEF TypeOK, Processes
<1>2. Shape'
  BY DEF Shape
<1>3. ASSUME NEW q \in Plugins PROVE Held(q)'
  BY PluginAssumption DEF TypeOK, Held
<1>4. ASSUME NEW q \in Plugins PROVE Agreed(q)'
  BY PluginAssumption DEF TypeOK, Shape, Agreed
<1> QED
  BY <1>1, <1>2, <1>3, <1>4

LEMMA StepSendRequest == ASSUME IInv, NEW p \in Plugins, SendRequest(p) PROVE IInv'
<1> USE DEF SendRequest, IInv, lists, wires, codecs, ends
<1>1. TypeOK'
  BY PluginAssumption DEF TypeOK, Processes
<1>2. Shape'
  BY DEF Shape
<1>3. ASSUME NEW q \in Plugins PROVE Held(q)'
  BY PluginAssumption DEF TypeOK, Held
<1>4. ASSUME NEW q \in Plugins PROVE Agreed(q)'
  BY PluginAssumption DEF TypeOK, Shape, Agreed
<1> QED
  BY <1>1, <1>2, <1>3, <1>4

LEMMA StepReadResponse == ASSUME IInv, NEW p \in Plugins, ReadResponse(p) PROVE IInv'
<1> USE DEF ReadResponse, IInv, lists, wires, codecs, ends
<1>1. TypeOK'
  BY PluginAssumption DEF TypeOK, Processes
<1>2. Shape'
  BY DEF Shape
<1>3. ASSUME NEW q \in Plugins PROVE Held(q)'
  BY PluginAssumption DEF TypeOK, Held
<1>4. ASSUME NEW q \in Plugins PROVE Agreed(q)'
  BY PluginAssumption DEF TypeOK, Shape, Agreed
<1> QED
  BY <1>1, <1>2, <1>3, <1>4

LEMMA StepOpenKills == ASSUME IInv, NEW p \in Plugins, OpenKills(p) PROVE IInv'
<1> USE DEF OpenKills, GivesUp, NegotiationFails, IInv, lists, wires, codecs, ends
<1>1. TypeOK'
  BY PluginAssumption DEF TypeOK, Processes
<1>2. Shape'
  BY DEF Shape
<1>3. ASSUME NEW q \in Plugins PROVE Held(q)'
  BY PluginAssumption DEF TypeOK, Held
<1>4. ASSUME NEW q \in Plugins PROVE Agreed(q)'
  BY PluginAssumption DEF TypeOK, Shape, Agreed
<1> QED
  BY <1>1, <1>2, <1>3, <1>4

LEMMA StepOpenBreaks == ASSUME IInv, NEW p \in Plugins, OpenBreaks(p) PROVE IInv'
<1> USE DEF OpenBreaks, GivesUp, NegotiationBreaks, IInv, lists, wires, codecs, ends
<1>1. TypeOK'
  BY PluginAssumption DEF TypeOK, Processes
<1>2. Shape'
  BY DEF Shape
<1>3. ASSUME NEW q \in Plugins PROVE Held(q)'
  BY PluginAssumption DEF TypeOK, Held
<1>4. ASSUME NEW q \in Plugins PROVE Agreed(q)'
  BY PluginAssumption DEF TypeOK, Shape, Agreed
<1> QED
  BY <1>1, <1>2, <1>3, <1>4

LEMMA StepOpenReaps == ASSUME IInv, NEW p \in Plugins, OpenReaps(p) PROVE IInv'
<1> USE DEF OpenReaps, IInv, lists, wires, codecs, ends
<1>1. TypeOK'
  BY PluginAssumption DEF TypeOK, Processes
<1>2. Shape'
  BY DEF Shape
<1>3. ASSUME NEW q \in Plugins PROVE Held(q)'
  BY PluginAssumption DEF TypeOK, Held
<1>4. ASSUME NEW q \in Plugins PROVE Agreed(q)'
  BY PluginAssumption DEF TypeOK, Shape, Agreed
<1> QED
  BY <1>1, <1>2, <1>3, <1>4

LEMMA StepAnswer == ASSUME IInv, NEW p \in Plugins, Answer(p) PROVE IInv'
<1> USE DEF Answer, IInv, lists, wires, codecs, ends
<1>1. TypeOK'
  BY PluginAssumption DEF TypeOK, Processes
<1>2. Shape'
  BY DEF Shape
<1>3. ASSUME NEW q \in Plugins PROVE Held(q)'
  BY PluginAssumption DEF TypeOK, Held
<1>4. ASSUME NEW q \in Plugins PROVE Agreed(q)'
  <2> DEFINE c == Best(pluginList[p], request[p])
  <2>1. request[p] = CodecsOf(hostList[p]) /\ c # NoCodec
    BY DEF Agreed
  <2>2. pluginList[p] \in Seq(CodecsOf(pluginList[p]))
    BY PluginAssumption DEF Shape
  <2>3. First(c, pluginList[p], CodecsOf(hostList[p]))
    BY <2>1, <2>2, BestIsFirst
  <2>4. /\ response' = [response EXCEPT ![p] = c]
        /\ pluginCodec' = [pluginCodec EXCEPT ![p] = c]
    OBVIOUS
  <2> HIDE DEF c
  <2> QED
    BY <2>3, <2>4 DEF TypeOK, Shape, Agreed
<1> QED
  BY <1>1, <1>2, <1>3, <1>4

LEMMA StepAttachFails == ASSUME IInv, NEW p \in Plugins, AttachFails(p) PROVE IInv'
<1> USE DEF AttachFails, IInv, lists, wires, codecs, ends
<1>1. TypeOK'
  BY PluginAssumption DEF TypeOK, Processes
<1>2. Shape'
  BY DEF Shape
<1>3. ASSUME NEW q \in Plugins PROVE Held(q)'
  BY PluginAssumption DEF TypeOK, Held
<1>4. ASSUME NEW q \in Plugins PROVE Agreed(q)'
  BY PluginAssumption DEF TypeOK, Shape, Agreed
<1> QED
  BY <1>1, <1>2, <1>3, <1>4

LEMMA StepExit == ASSUME IInv, NEW p \in Plugins, Exit(p) PROVE IInv'
<1> USE DEF Exit, IInv, lists, wires, codecs, ends
<1>1. TypeOK'
  BY PluginAssumption DEF TypeOK, Processes
<1>2. Shape'
  BY DEF Shape
<1>3. ASSUME NEW q \in Plugins PROVE Held(q)'
  BY PluginAssumption DEF TypeOK, Held
<1>4. ASSUME NEW q \in Plugins PROVE Agreed(q)'
  BY PluginAssumption DEF TypeOK, Shape, Agreed
<1> QED
  BY <1>1, <1>2, <1>3, <1>4

LEMMA StepLoopEnds == ASSUME IInv, NEW p \in Plugins, LoopEnds(p) PROVE IInv'
<1> USE DEF LoopEnds, IInv, lists, wires, codecs, ends
<1>1. TypeOK'
  BY PluginAssumption DEF TypeOK, Processes
<1>2. Shape'
  BY DEF Shape
<1>3. ASSUME NEW q \in Plugins PROVE Held(q)'
  BY PluginAssumption DEF TypeOK, Held
<1>4. ASSUME NEW q \in Plugins PROVE Agreed(q)'
  BY PluginAssumption DEF TypeOK, Shape, Agreed
<1> QED
  BY <1>1, <1>2, <1>3, <1>4

LEMMA StepCloseConn == ASSUME IInv, NEW p \in Plugins, CloseConn(p) PROVE IInv'
<1> USE DEF CloseConn, IInv, lists, wires, codecs, ends
<1>1. TypeOK'
  BY PluginAssumption DEF TypeOK, Processes
<1>2. Shape'
  BY DEF Shape
<1>3. ASSUME NEW q \in Plugins PROVE Held(q)'
  BY PluginAssumption DEF TypeOK, Held
<1>4. ASSUME NEW q \in Plugins PROVE Agreed(q)'
  BY PluginAssumption DEF TypeOK, Shape, Agreed
<1> QED
  BY <1>1, <1>2, <1>3, <1>4

LEMMA StepCloseKills == ASSUME IInv, NEW p \in Plugins, CloseKills(p) PROVE IInv'
<1> USE DEF CloseKills, IInv, lists, wires, codecs, ends
<1>1. TypeOK'
  BY PluginAssumption DEF TypeOK, Processes
<1>2. Shape'
  BY DEF Shape
<1>3. ASSUME NEW q \in Plugins PROVE Held(q)'
  BY PluginAssumption DEF TypeOK, Held
<1>4. ASSUME NEW q \in Plugins PROVE Agreed(q)'
  BY PluginAssumption DEF TypeOK, Shape, Agreed
<1> QED
  BY <1>1, <1>2, <1>3, <1>4

LEMMA StepCloseReaps == ASSUME IInv, NEW p \in Plugins, CloseReaps(p) PROVE IInv'
<1> USE DEF CloseReaps, Ended, IInv, lists, wires, codecs, ends
<1>1. TypeOK'
  BY PluginAssumption DEF TypeOK, Processes
<1>2. Shape'
  BY DEF Shape
<1>3. ASSUME NEW q \in Plugins PROVE Held(q)'
  BY PluginAssumption DEF TypeOK, Held
<1>4. ASSUME NEW q \in Plugins PROVE Agreed(q)'
  BY PluginAssumption DEF TypeOK, Shape, Agreed
<1> QED
  BY <1>1, <1>2, <1>3, <1>4

LEMMA StepWait == ASSUME IInv, NEW p \in Plugins, Wait(p) PROVE IInv'
<1> USE DEF Wait, IInv, lists, wires, codecs, ends
<1>1. TypeOK'
  BY PluginAssumption DEF TypeOK, Processes
<1>2. Shape'
  BY DEF Shape
<1>3. ASSUME NEW q \in Plugins PROVE Held(q)'
  BY PluginAssumption DEF TypeOK, Held
<1>4. ASSUME NEW q \in Plugins PROVE Agreed(q)'
  BY PluginAssumption DEF TypeOK, Shape, Agreed
<1> QED
  BY <1>1, <1>2, <1>3, <1>4

LEMMA StepWaitReaps == ASSUME IInv, NEW p \in Plugins, WaitReaps(p) PROVE IInv'
<1> USE DEF WaitReaps, Ended, IInv, lists, wires, codecs, ends
<1>1. TypeOK'
  BY PluginAssumption DEF TypeOK, Processes
<1>2. Shape'
  BY DEF Shape
<1>3. ASSUME NEW q \in Plugins PROVE Held(q)'
  BY PluginAssumption DEF TypeOK, Held
<1>4. ASSUME NEW q \in Plugins PROVE Agreed(q)'
  BY PluginAssumption DEF TypeOK, Shape, Agreed
<1> QED
  BY <1>1, <1>2, <1>3, <1>4

LEMMA IInvNext == IInv /\ [Next]_vars => IInv'
<1> SUFFICES ASSUME IInv, [Next]_vars PROVE IInv'
  OBVIOUS
<1>1. CASE UNCHANGED vars
  BY <1>1 DEF vars, lists, ends, wires, codecs, IInv, TypeOK, Shape, Held, Agreed
<1>2. CASE Next
  <2>1. PICK p \in Plugins :
           \/ Opening(p) \/ Failing(p) \/ Process(p) \/ LoopEnds(p)
           \/ CloseConn(p) \/ Closing(p) \/ Wait(p) \/ WaitReaps(p)
    BY <1>2 DEF Next
  <2>2. CASE Opening(p)
    BY <2>2, StepSocketPair, StepStart, StepCloseChild, StepSendRequest,
       StepReadResponse, StepOpenKills, StepOpenReaps DEF Opening
  <2>3. CASE Failing(p)
    BY <2>3, StepSocketPairFails, StepStartFails, StepOpenBreaks DEF Failing
  <2>4. CASE Process(p)
    BY <2>4, StepAnswer, StepAttachFails, StepExit DEF Process
  <2> QED
    BY <2>1, <2>2, <2>3, <2>4, StepLoopEnds, StepCloseConn, StepCloseKills,
       StepCloseReaps, StepWait, StepWaitReaps DEF Closing
<1> QED
  BY <1>1, <1>2

THEOREM IInvAlways == Spec => []IInv
  BY IInvInit, IInvNext, PTL DEF Spec

(***************************************************************************)
(* What the run checks                                                     *)
(***************************************************************************)
\* The descriptors of a plugin are held by its host and by itself, never by
\* another plugin, however many are started at once.
THEOREM TypeCorrect == Spec => []TypeOK
<1>1. IInv => TypeOK
  BY DEF IInv
<1> QED
  BY <1>1, IInvAlways, PTL

\* Open has given back both descriptors and the process when it fails.
THEOREM NothingLeft == Spec => []FailedOpenLeavesNothing
<1>1. IInv => FailedOpenLeavesNothing
  BY DEF IInv, Held, FailedOpenLeavesNothing
<1> QED
  BY <1>1, IInvAlways, PTL

\* When Open succeeds, both ends have the plugin's favourite among the codecs
\* of the host.
THEOREM OneCodec == Spec => []CodecsAgree
<1>1. IInv => CodecsAgree
  <2> SUFFICES ASSUME IInv, NEW p \in Plugins, opening[p] = "open"
               PROVE  LET c == hostCodec[p]
                          known == CodecsOf(hostList[p])
                          list == pluginList[p] IN
                      /\ c = pluginCodec[p]
                      /\ \E k \in DOMAIN list : /\ list[k] = c /\ c \in known
                                                /\ \A j \in 1 .. (k - 1) : list[j] \notin known
    BY DEF CodecsAgree
  <2>1. hostCodec[p] = pluginCodec[p]
    BY DEF IInv, Agreed
  <2>2. First(hostCodec[p], pluginList[p], CodecsOf(hostList[p]))
    BY <2>1 DEF IInv, Agreed
  <2> QED
    BY <2>1, <2>2 DEF First
<1> QED
  BY <1>1, IInvAlways, PTL

=============================================================================
