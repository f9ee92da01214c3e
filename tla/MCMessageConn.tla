--------------------------- MODULE MCMessageConn ---------------------------
(* Small instances of MessageConn: what each end may do, host first.       *)
EXTENDS StreamService

Each(h, p) == [e \in Ends |-> IF e = "host" THEN h ELSE p]
None == Each(0, 0)
HostOne == Each(1, 0)
HostTwo == Each(2, 0)
PluginTwo == Each(0, 2)
One == Each(1, 1)

\* Both applications go on taking what arrives.
FairSpec == Spec /\ Progress /\ Attentive(Ids)

\* Nothing makes them take it.
ClosingSpec == Spec /\ Progress

=============================================================================
