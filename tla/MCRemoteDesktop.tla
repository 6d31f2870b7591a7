--------------------------- MODULE MCRemoteDesktop ---------------------------
(* Small instances of RemoteDesktop for TLC: three session ids let a third  *)
(* session start while the stop of the first is still under way.            *)
EXTENDS RemoteDesktop
=============================================================================
