------------------------------- MODULE MCRoom -------------------------------
(* Model values of the worker's rooms for TLC.                              *)
EXTENDS Room, TLC

Symmetric == Permutations(Sockets) \cup Permutations(Codes)
=============================================================================
