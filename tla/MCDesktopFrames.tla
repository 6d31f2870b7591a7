-------------------------- MODULE MCDesktopFrames ---------------------------
(* A small instance of DesktopFrames for TLC.                               *)
EXTENDS DesktopFrames, TLC

Symmetric == Permutations(Tiles)
=============================================================================
