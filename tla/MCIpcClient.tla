---------------------------- MODULE MCIpcClient ----------------------------
(* Three calls over IDs of one bit: the third has the ID of the first.     *)
EXTENDS IpcClient

=============================================================================
