---------------------------- MODULE ControlStream ----------------------------
(***************************************************************************)
(* What the control stream promises those who talk over it: the messages   *)
(* for an end are numbered as they are sent, and it hears them in order    *)
(* and none twice, all of them unless one has slipped.  This is the queue  *)
(* of whole messages that RemoteDesktop, RemoteInput, DesktopFrames and    *)
(* Transfer build on; that a lost link cuts it short is their affair.      *)
(***************************************************************************)
EXTENDS Naturals

CONSTANT End        \* the two ends

VARIABLES sent,     \* sent[e]: the messages sent to e so far
          heard,    \* heard[e]: the last of them that e has handled
          slipped   \* slipped[e]: e may have missed messages

vars == <<sent, heard, slipped>>

Init == /\ sent = [e \in End |-> 0]
        /\ heard = [e \in End |-> 0]
        /\ slipped = [e \in End |-> FALSE]

SendTo(e) == /\ sent' = [sent EXCEPT ![e] = @ + 1]
             /\ UNCHANGED <<heard, slipped>>

\* The next message, or after a slip a later one.
Hear(e) == /\ \E n \in heard[e] + 1 .. sent[e] :
                /\ slipped[e] \/ n = heard[e] + 1
                /\ heard' = [heard EXCEPT ![e] = n]
           /\ UNCHANGED <<sent, slipped>>

\* A message is cut short, and the rest of it taken for another.
Slip(e) == /\ slipped' = [slipped EXCEPT ![e] = TRUE]
           /\ UNCHANGED <<sent, heard>>

Next == \E e \in End : SendTo(e) \/ Hear(e) \/ Slip(e)

Spec == Init /\ [][Next]_vars
=============================================================================
