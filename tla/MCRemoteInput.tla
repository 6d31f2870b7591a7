---------------------------- MODULE MCRemoteInput ----------------------------
(* Small instances of RemoteInput for TLC.                                 *)
EXTENDS RemoteInput
=============================================================================
