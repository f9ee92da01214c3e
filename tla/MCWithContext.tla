--------------------------- MODULE MCWithContext ---------------------------
(* WithContext with small sets of callers.                                 *)
EXTENDS WithContext

\* One writer with a timeout that may also be cancelled, one whose context is
\* context.Background(), and an Open of the first kind.
Two == {"timed", "background"}
Ending == {"open", "timed"}
JustTimed == {"timed"}
JustOpen == {"open"}
None == {}
PollOrPipe == {"poll", "pipe"}
Poll == {"poll"}
File == {"file"}
=============================================================================
