---------------------------- MODULE MCPushFanout ----------------------------
(***************************************************************************)
(* Small instances of PushFanout for TLC.                                  *)
(***************************************************************************)
EXTENDS PushFanout

AllFaults  == FaultKind
LoadFaults == {"load"}
=============================================================================
