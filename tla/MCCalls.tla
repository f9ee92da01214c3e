------------------------------ MODULE MCCalls ------------------------------
(* A routed call over channels that hold one.  From Init it is one of      *)
(* three payloads: one has no encoding, the next does not unmarshal.  From *)
(* Crowded it is one of nine, which fill the line from an application that *)
(* has taken nothing back to the writer.                                   *)
EXTENDS Calls

Among(f, x, default) == IF x \in DOMAIN f THEN f[x] ELSE default

\* Each place of the line holds a payload, and the requests are all given: a
\* state Init comes to by the steps of Next.
Crowded ==
  /\ mode \in {"SingleMulti", "MultiSingle"} /\ deadlines \in BOOLEAN /\ served = TRUE
  /\ ctxDone = FALSE /\ up = TRUE /\ lost = {}
  /\ cancelled = [e \in Ends |-> FALSE] /\ open = [e \in Ends |-> TRUE]
  /\ early = FALSE /\ got = <<>> /\ reply = "none"
  /\ \/ /\ mode = "SingleMulti" /\ given = 0 /\ sent = 8
        /\ wire = [e \in Ends |-> IF e = "host" THEN <<Frame("data", 8)>> ELSE <<>>]
        /\ recvCh = [e \in Ends |-> IF e = "host" THEN <<Frame("data", 7)>>
                                    ELSE <<Frame("closewrite", 0)>>]
        /\ closed = [c \in Chans |-> FALSE]
        /\ pc = [g \in Goroutines |->
                   Among([call |-> "done", handler |-> "send", copier |-> "push",
                           pumpResp |-> "run"], g, "off")]
        /\ hand = [g \in Goroutines |-> Among([copier |-> 6, pumpResp |-> 4], g, 0)]
        /\ queue = [c \in Chans |-> Among([rawResp |-> <<5>>, resp |-> <<3>>], c, <<>>)]
     \/ /\ mode = "MultiSingle" /\ given = 9 /\ sent = 0
        /\ wire = [e \in Ends |-> IF e = "plugin" THEN <<Frame("data", 8)>> ELSE <<>>]
        /\ recvCh = [e \in Ends |-> IF e = "plugin" THEN <<Frame("data", 7)>> ELSE <<>>]
        /\ closed = [c \in Chans |-> c \in {"reqs", "rawReqs"}]
        /\ pc = [g \in Goroutines |->
                   Among([call |-> "recv", handler |-> "range", feeder |-> "send",
                           taker |-> "push", pumpReqs |-> "done", pumpTaken |-> "run"], g, "off")]
        /\ hand = [g \in Goroutines |->
                     Among([feeder |-> 9, taker |-> 6, pumpTaken |-> 4], g, 0)]
        /\ queue = [c \in Chans |-> Among([rawTaken |-> <<5>>, taken |-> <<3>>], c, <<>>)]

\* A call from Init is given no fourth payload: a bound on what applications do.
Few ==
  /\ ~(given = 3 /\ given' = 4)
  /\ ~(sent = 3 /\ pc["handler"] = "send" /\ pc'["handler"] = "sending")

CallsSpec == ((Init /\ deadlines) \/ Crowded) /\ [][Next /\ Few]_vars /\ WF_vars(Due)

=============================================================================
