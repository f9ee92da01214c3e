--------------------------- MODULE StreamService ---------------------------
(***************************************************************************)
(* Every stream of a connection keeps, in each direction, the promises of  *)
(* StreamLines: what is pending for an end is what lies in recvCh, in the  *)
(* hands of its loop and on the wire.                                      *)
(***************************************************************************)
EXTENDS MessageConn

Lines == Ends \X Ids   \* the line to an end, on a stream

\* The numbers of the payloads of stream i among the frames of q.
Payloads(i, q) == {q[k].seq : k \in DataOf(i, q)}

\* The end has closed the stream or its connection, its loop has failed, or
\* the peer has refused the stream: only a Close of the peer closes recvCh of
\* a stream without any of these.
Over(e, i) == ~Live(e, i) \/ (cancelled[e][i] /\ ~chClosed[e][i])

Sent     == [l \in Lines |-> sent[Peer(l[1])][l[2]]]
Received == [l \in Lines |-> rcvd[l[1]][l[2]]]
Pending  == [l \in Lines |-> Payloads(l[2], Line(l[1], l[2]))]
FinAt    == [l \in Lines |-> finAt[Peer(l[1])][l[2]]]
Ended    == [l \in Lines |-> Over(l[1], l[2])]
SaidEOF  == [l \in Lines |-> last[l[1]][l[2]] = "eof"]

Abstract == INSTANCE StreamLines WITH
  sent <- Sent, rcvd <- Received, pending <- Pending, finAt <- FinAt,
  ended <- Ended, eof <- SaidEOF

\* The streams keep their promises whatever the applications close, whichever
\* writes give up and whenever a loop fails.
StreamsKeepPromises == Abstract!Spec

\* What follows from it for a Recv that says EOF: unless its own end has closed
\* the stream, or seen it fail, it has handed out every payload that was sent
\* before the peer's Close or CloseWrite, also when writes give up.
EOFAfterAll == Abstract!EOFIsLast

=============================================================================
