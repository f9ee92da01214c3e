---------------------------- MODULE StreamLines ----------------------------
(***************************************************************************)
(* What the streams of a connection promise, said without loops, frames or *)
(* channels.  A line is one direction of one stream.  The n-th Send on a   *)
(* line makes payload n pending; Recv hands out the pending payloads in    *)
(* their order; none is lost that was sent before the sender's Close or    *)
(* CloseWrite, unless the receiving end has closed the stream or seen it   *)
(* fail; and Recv says EOF only when that has happened, or when nothing is *)
(* pending of what was sent before the sender's Close or CloseWrite.       *)
(***************************************************************************)
EXTENDS Integers

CONSTANT Lines

VARIABLES
  sent,      \* payloads sent
  rcvd,      \* the last payload received, 0 before
  pending,   \* payloads sent that may still be received
  finAt,     \* what had been sent when the sender ended the stream, -1 before
  ended,     \* whether the receiver has closed the stream, or seen it fail:
             \* the sender's Close does not count
  eof        \* whether the last Recv said EOF

vars == <<sent, rcvd, pending, finAt, ended, eof>>

Init ==
  /\ sent = [l \in Lines |-> 0] /\ rcvd = [l \in Lines |-> 0]
  /\ pending = [l \in Lines |-> {}]
  /\ finAt = [l \in Lines |-> -1]
  /\ ended = [l \in Lines |-> FALSE] /\ eof = [l \in Lines |-> FALSE]

Send(l) ==
  /\ sent' = [sent EXCEPT ![l] = @ + 1]
  /\ pending' = [pending EXCEPT ![l] = @ \cup {sent[l] + 1}]
  /\ UNCHANGED <<rcvd, finAt, ended, eof>>

Finish(l) ==
  /\ finAt[l] = -1
  /\ finAt' = [finAt EXCEPT ![l] = sent[l]]
  /\ UNCHANGED <<sent, rcvd, pending, ended, eof>>

Receive(l) ==
  \E n \in pending[l] :
    /\ \A m \in pending[l] : n <= m
    /\ rcvd' = [rcvd EXCEPT ![l] = n]
    /\ pending' = [pending EXCEPT ![l] = @ \ {n}]
    /\ UNCHANGED <<sent, finAt, ended, eof>>

\* Payload m was sent after the sender had ended the stream.
Past(l, m) == finAt[l] # -1 /\ m > finAt[l]

SayEOF(l) ==
  /\ ended[l] \/ (finAt[l] # -1 /\ \A m \in pending[l] : Past(l, m))
  /\ eof' = [eof EXCEPT ![l] = TRUE]
  /\ UNCHANGED <<sent, rcvd, pending, finAt, ended>>

\* The peer has refused the stream, and Recv says so.
SayError(l) ==
  /\ ended' = [ended EXCEPT ![l] = TRUE]
  /\ eof' = [eof EXCEPT ![l] = FALSE]
  /\ UNCHANGED <<sent, rcvd, pending, finAt>>

\* Lines end, one or all of the connection.  What is pending on a line that
\* has ended may be lost, and what was sent past its end.
End ==
  /\ \A l \in Lines : /\ ended[l] => ended'[l]
                      /\ pending'[l] \subseteq pending[l]
                      /\ ~ended'[l] =>
                           \A m \in pending[l] \ pending'[l] : Past(l, m)
  /\ DOMAIN ended' = Lines /\ DOMAIN pending' = Lines
  /\ UNCHANGED <<sent, rcvd, finAt, eof>>

Next ==
  \/ \E l \in Lines : Send(l) \/ Finish(l) \/ Receive(l) \/ SayEOF(l) \/ SayError(l)
  \/ End

Spec == Init /\ [][Next]_vars

(***************************************************************************)
(* What follows for whoever uses the streams                               *)
(***************************************************************************)
\* Nothing is pending but what was sent and comes after what was received.
NoneTwice ==
  \A l \in Lines : \A m \in pending[l] : rcvd[l] < m /\ m <= sent[l]

\* Until its end at the receiver, a line loses nothing that was sent before
\* the sender ended it: no payload is skipped.
NoGap ==
  \A l \in Lines : ~ended[l] =>
    \A m \in (rcvd[l] + 1) .. sent[l] : m \in pending[l] \/ Past(l, m)

\* An EOF the receiver has not caused itself comes after every payload that
\* was sent before the sender ended the stream.
EOFIsLast ==
  \A l \in Lines : ~ended[l] /\ eof[l] => finAt[l] # -1 /\ rcvd[l] >= finAt[l]

=============================================================================
