------------------------- MODULE StreamLinesProofs -------------------------
(***************************************************************************)
(* What StreamLines promises is enough for whoever uses the streams: no    *)
(* payload arrives twice, none is skipped, and EOF comes last.             *)
(***************************************************************************)
EXTENDS StreamLines, TLAPS

LineTypes ==
  /\ sent \in [Lines -> Nat] /\ rcvd \in [Lines -> Nat]
  /\ finAt \in [Lines -> Nat \cup {-1}]
  /\ DOMAIN pending = Lines /\ DOMAIN ended = Lines /\ DOMAIN eof = Lines
  /\ \A l \in Lines : pending[l] \subseteq Nat /\ finAt[l] <= sent[l] /\ rcvd[l] <= sent[l]

LinesInv == LineTypes /\ NoneTwice /\ NoGap /\ EOFIsLast

LEMMA LinesInit == Init => LinesInv
BY DEF Init, LinesInv, LineTypes, NoneTwice, NoGap, EOFIsLast

\* A step of one line leaves the others what they were.
Others(l) ==
  \A k \in Lines : k # l =>
    /\ sent'[k] = sent[k] /\ rcvd'[k] = rcvd[k] /\ pending'[k] = pending[k]
    /\ finAt'[k] = finAt[k] /\ ended'[k] = ended[k] /\ eof'[k] = eof[k]

\* What LinesInv says of one line.
LineAt(l) ==
  /\ pending[l] \subseteq Nat /\ finAt[l] <= sent[l] /\ rcvd[l] <= sent[l]
  /\ \A m \in pending[l] : rcvd[l] < m /\ m <= sent[l]
  /\ ~ended[l] => \A m \in (rcvd[l] + 1) .. sent[l] : m \in pending[l] \/ Past(l, m)
  /\ ~ended[l] /\ eof[l] => finAt[l] # -1 /\ rcvd[l] >= finAt[l]
Shape ==
  /\ sent \in [Lines -> Nat] /\ rcvd \in [Lines -> Nat]
  /\ finAt \in [Lines -> Nat \cup {-1}]
  /\ DOMAIN pending = Lines /\ DOMAIN ended = Lines /\ DOMAIN eof = Lines

LEMMA LinesAt == LinesInv <=> Shape /\ \A l \in Lines : LineAt(l)
BY DEF LinesInv, LineTypes, NoneTwice, NoGap, EOFIsLast, LineAt, Shape

LEMMA OneLine ==
  ASSUME LinesInv, NEW l \in Lines, Others(l), Shape', LineAt(l)'
  PROVE  LinesInv'
<1>1. ASSUME NEW k \in Lines PROVE LineAt(k)'
  <2>1. LineAt(k)
    BY LinesAt
  <2>2. CASE k # l
    BY <2>1, <2>2 DEF Others, LineAt, Past
  <2> QED
    BY <2>2
<1> QED
  BY <1>1 DEF LinesInv, LineTypes, NoneTwice, NoGap, EOFIsLast, LineAt, Shape

LEMMA LinesNext == LinesInv /\ [Next]_vars => LinesInv'
<1> SUFFICES ASSUME LinesInv, [Next]_vars PROVE LinesInv'
  OBVIOUS
<1>1. Shape /\ \A l \in Lines : LineAt(l)
  BY LinesAt
<1>2. ASSUME NEW l \in Lines
      PROVE  /\ sent[l] \in Nat /\ rcvd[l] \in Nat /\ finAt[l] \in Nat \cup {-1}
             /\ LineAt(l)
  BY <1>1 DEF Shape
<1>3. ASSUME NEW l \in Lines, Send(l) PROVE LinesInv'
  <2>1. Shape'
    BY <1>1, <1>3 DEF Send, Shape
  <2>2. Others(l)
    BY <1>1, <1>3 DEF Send, Others, Shape
  <2>3. /\ sent'[l] = sent[l] + 1 /\ pending'[l] = pending[l] \cup {sent[l] + 1}
        /\ rcvd'[l] = rcvd[l] /\ finAt'[l] = finAt[l] /\ ended'[l] = ended[l]
        /\ eof'[l] = eof[l]
    BY <1>1, <1>3 DEF Send, Shape
  <2>4. LineAt(l)'
    BY <1>2, <2>3 DEF LineAt, Past
  <2> QED
    BY <2>1, <2>2, <2>4, OneLine
<1>4. ASSUME NEW l \in Lines, Finish(l) PROVE LinesInv'
  <2>1. Shape'
    BY <1>1, <1>4 DEF Finish, Shape
  <2>2. Others(l)
    BY <1>1, <1>4 DEF Finish, Others, Shape
  <2>3. /\ finAt[l] = -1 /\ finAt'[l] = sent[l] /\ sent'[l] = sent[l]
        /\ pending'[l] = pending[l] /\ rcvd'[l] = rcvd[l] /\ ended'[l] = ended[l]
        /\ eof'[l] = eof[l]
    BY <1>1, <1>4 DEF Finish, Shape
  <2>4. LineAt(l)'
    BY <1>2, <2>3 DEF LineAt, Past
  <2> QED
    BY <2>1, <2>2, <2>4, OneLine
<1>5. ASSUME NEW l \in Lines, Receive(l) PROVE LinesInv'
  <2>1. PICK n \in pending[l] :
          /\ \A m \in pending[l] : n <= m
          /\ rcvd' = [rcvd EXCEPT ![l] = n]
          /\ pending' = [pending EXCEPT ![l] = pending[l] \ {n}]
          /\ UNCHANGED <<sent, finAt, ended, eof>>
    BY <1>5 DEF Receive
  <2>2. n \in Nat /\ rcvd[l] < n /\ n <= sent[l]
    BY <1>2 DEF LineAt
  <2>3. Shape'
    BY <1>1, <2>1, <2>2 DEF Shape
  <2>4. Others(l)
    BY <1>1, <2>1 DEF Others, Shape
  <2>5. /\ rcvd'[l] = n /\ pending'[l] = pending[l] \ {n}
        /\ sent'[l] = sent[l] /\ finAt'[l] = finAt[l] /\ ended'[l] = ended[l]
        /\ eof'[l] = eof[l]
    BY <1>1, <2>1 DEF Shape
  <2>6. LineAt(l)'
    <3>1. /\ pending'[l] \subseteq Nat /\ finAt'[l] <= sent'[l] /\ rcvd'[l] <= sent'[l]
          /\ \A m \in pending'[l] : rcvd'[l] < m /\ m <= sent'[l]
      BY <1>2, <2>1, <2>2, <2>5 DEF LineAt
    <3>2. ASSUME ~ended'[l], NEW m \in (rcvd'[l] + 1) .. sent'[l]
          PROVE  m \in pending'[l] \/ Past(l, m)'
      <4>1. m \in (rcvd[l] + 1) .. sent[l] /\ m # n
        BY <1>2, <2>2, <2>5, <3>2
      <4>2. m \in pending[l] \/ Past(l, m)
        BY <1>2, <2>5, <3>2, <4>1 DEF LineAt
      <4> QED
        BY <2>5, <4>1, <4>2 DEF Past
    <3>3. ASSUME ~ended'[l], eof'[l] PROVE finAt'[l] # -1 /\ rcvd'[l] >= finAt'[l]
      <4>1. finAt[l] # -1 /\ rcvd[l] >= finAt[l]
        BY <1>2, <2>5, <3>3 DEF LineAt
      <4> QED
        BY <1>2, <2>2, <2>5, <4>1
    <3> QED
      BY <3>1, <3>2, <3>3 DEF LineAt
  <2> QED
    BY <2>3, <2>4, <2>6, OneLine
<1>6. ASSUME NEW l \in Lines, SayEOF(l) PROVE LinesInv'
  <2>1. Shape'
    BY <1>1, <1>6 DEF SayEOF, Shape
  <2>2. Others(l)
    BY <1>1, <1>6 DEF SayEOF, Others, Shape
  <2>3. /\ ended[l] \/ (finAt[l] # -1 /\ \A m \in pending[l] : Past(l, m))
        /\ sent'[l] = sent[l] /\ pending'[l] = pending[l] /\ rcvd'[l] = rcvd[l]
        /\ finAt'[l] = finAt[l] /\ ended'[l] = ended[l]
    BY <1>1, <1>6 DEF SayEOF, Shape
  \* Had payload finAt[l] not arrived, it would be pending.
  <2>4. ~ended[l] => finAt[l] # -1 /\ rcvd[l] >= finAt[l]
    <3> SUFFICES ASSUME ~ended[l], rcvd[l] < finAt[l] PROVE FALSE
      BY <1>2, <2>3
    <3>1. finAt[l] \in (rcvd[l] + 1) .. sent[l]
      BY <1>2 DEF LineAt
    <3>2. ~Past(l, finAt[l])
      BY <1>2 DEF Past
    <3> QED
      BY <1>2, <2>3, <3>1, <3>2 DEF LineAt
  <2>5. LineAt(l)'
    BY <1>2, <2>3, <2>4 DEF LineAt, Past
  <2> QED
    BY <2>1, <2>2, <2>5, OneLine
<1>7. ASSUME NEW l \in Lines, SayError(l) PROVE LinesInv'
  <2>1. Shape'
    BY <1>1, <1>7 DEF SayError, Shape
  <2>2. Others(l)
    BY <1>1, <1>7 DEF SayError, Others, Shape
  <2>3. /\ ended'[l] /\ sent'[l] = sent[l] /\ pending'[l] = pending[l]
        /\ rcvd'[l] = rcvd[l] /\ finAt'[l] = finAt[l]
    BY <1>1, <1>7 DEF SayError, Shape
  <2>4. LineAt(l)'
    BY <1>2, <2>3 DEF LineAt, Past
  <2> QED
    BY <2>1, <2>2, <2>4, OneLine
<1>8. CASE End
  <2>1. Shape'
    BY <1>1, <1>8 DEF End, Shape
  <2>2. ASSUME NEW l \in Lines PROVE LineAt(l)'
    <3>1. /\ ended[l] => ended'[l]
          /\ pending'[l] \subseteq pending[l]
          /\ ~ended'[l] => \A m \in pending[l] \ pending'[l] : Past(l, m)
          /\ sent' = sent /\ rcvd' = rcvd /\ finAt' = finAt /\ eof' = eof
      BY <1>8 DEF End
    <3> QED
      BY <1>2, <3>1 DEF LineAt, Past
  <2> QED
    BY <2>1, <2>2 DEF LinesInv, LineTypes, NoneTwice, NoGap, EOFIsLast, LineAt, Shape
<1>9. CASE UNCHANGED vars
  BY <1>9 DEF vars, LinesInv, LineTypes, NoneTwice, NoGap, EOFIsLast, Past
<1> QED
  BY <1>3, <1>4, <1>5, <1>6, <1>7, <1>8, <1>9 DEF Next

\* No payload is received twice, or out of order: what may still arrive comes
\* after what has.
THEOREM NothingTwice == Spec => []NoneTwice
BY LinesInit, LinesNext, PTL DEF Spec, LinesInv

\* A line loses nothing its sender sent before ending the stream, until it
\* ends at the receiver.
THEOREM NothingSkipped == Spec => []NoGap
BY LinesInit, LinesNext, PTL DEF Spec, LinesInv

\* EOF is said after the last payload sent before the sender's Close or
\* CloseWrite, unless the receiver's end has ended the stream.
THEOREM EOFComesLast == Spec => []EOFIsLast
BY LinesInit, LinesNext, PTL DEF Spec, LinesInv

=============================================================================
