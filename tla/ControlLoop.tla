------------------------------ MODULE ControlLoop ------------------------------
(***************************************************************************)
(* The control stream of a direct link: the select! loop of run_direct_link*)
(* (clients/p2p-core/src/session.rs) at both ends, the framing it reads    *)
(* and writes (p2p_proto.rs), and the bounded channel outbound_tx.         *)
(*                                                                         *)
(* What an end has to say goes through outbound_tx, whose only reader is   *)
(* its loop: the loop itself puts there what the window commands and what  *)
(* a message asks for, tasks that read files put acknowledgements.  A      *)
(* message travels as a length and a payload, and an arm of select! that   *)
(* wins drops the read with whatever it had taken from the stream.         *)
(*                                                                         *)
(* What messages mean is the subject of RemoteDesktop and Transfer; here a *)
(* message is its number on the stream, and whether it asks for an answer. *)
(***************************************************************************)
EXTENDS Naturals, Sequences

CONSTANTS Capacity,   \* of outbound_tx: 128
          FlowWindow, \* parts of messages a stream holds before a write waits
          MaxSaid     \* bound: commands, acknowledgements and pings of each end

ASSUME CapacityAssumption == {Capacity, FlowWindow} \subseteq Nat \ {0}
End == {"a", "b"}
Peer(e) == IF e = "a" THEN "b" ELSE "a"

ASSUME BoundAssumption == MaxSaid \in [End -> Nat]

VARIABLES
    loop,     \* what each loop awaits: an arm of select!, room in its channel
              \* ("sends"), room in the stream ("writes"), or nothing any more
    outbound, \* the number of messages in outbound_tx
    writing,  \* the parts of its message that are still to be written
    written,  \* the number of its last message
    stream,   \* the parts on their way to each end
    taken,    \* what the read of this round of select! has taken
    shifted,  \* a read has begun with the last byte of a message
    handled,  \* the numbers of the messages each end has handled, in order
    open,     \* the connection
    left,     \* the last clone of the session's handle is gone
    told,     \* the window has been told that the link is lost
    said      \* see the bound

channel == <<outbound, said>>
sender == <<writing, written>>
reader == <<taken, shifted, handled>>
vars == <<loop, channel, sender, stream, reader, open, left, told>>

Part == [number: Nat, asks: BOOLEAN, part: {"length", "payload"}]
Message(n, asks) == <<[number |-> n, asks |-> asks, part |-> "length"],
                      [number |-> n, asks |-> asks, part |-> "payload"]>>

TypeOK == /\ loop \in [End -> {"selects", "sends", "writes", "ended"}]
          /\ outbound \in [End -> 0 .. Capacity]
          /\ writing \in [End -> Seq(Part)]
          /\ stream \in [End -> Seq(Part)]
          /\ said \in [End -> Nat]
          /\ \A e \in End : /\ Len(writing[e]) <= 2
                            /\ Len(stream[e]) <= FlowWindow
                            /\ said[e] <= MaxSaid[e]
          /\ written \in [End -> Nat]
          /\ taken \in [End -> {"nothing", "length", "garbage"}]
          /\ handled \in [End -> Seq(Nat)]
          /\ shifted \in [End -> BOOLEAN]
          /\ open \in BOOLEAN
          /\ left \in [End -> BOOLEAN]
          /\ told \in [End -> BOOLEAN]

Everywhere(x) == [e \in End |-> x]

Init == /\ loop = Everywhere("selects")
        /\ outbound = Everywhere(0)
        /\ writing = Everywhere(<<>>)
        /\ written = Everywhere(0)
        /\ stream = Everywhere(<<>>)
        /\ taken = Everywhere("nothing")
        /\ shifted = Everywhere(FALSE)
        /\ handled = Everywhere(<<>>)
        /\ open = TRUE
        /\ left = Everywhere(FALSE)
        /\ told = Everywhere(FALSE)
        /\ said = Everywhere(0)

Say(e) == said[e] < MaxSaid[e] /\ said' = [said EXCEPT ![e] = @ + 1]
Await(e, what) == loop' = [loop EXCEPT ![e] = what]

-----------------------------------------------------------------------------
(* Around the loop                                                         *)

\* A task that has recorded a chunk puts its acknowledgement into the channel
\* as soon as there is room.
Acknowledge(e) ==
    /\ loop[e] # "ended"
    /\ outbound[e] < Capacity
    /\ Say(e)
    /\ outbound' = [outbound EXCEPT ![e] = @ + 1]
    /\ UNCHANGED <<loop, sender, stream, reader, open, left, told>>

\* The last clone of the handle is dropped.
Leave(e) ==
    /\ ~left[e]
    /\ left' = [left EXCEPT ![e] = TRUE]
    /\ UNCHANGED <<loop, channel, sender, stream, reader, open, told>>

\* The connection is lost, which both ends can see.
Break ==
    /\ open
    /\ open' = FALSE
    /\ UNCHANGED <<loop, channel, sender, stream, reader, left, told>>

-----------------------------------------------------------------------------
(* The arms of select!                                                     *)

\* An arm wins: the read of the next round begins anew.
Wins(e) ==
    /\ loop[e] = "selects"
    /\ taken' = [taken EXCEPT ![e] = "nothing"]

\* A command, which may have been given before the handle was dropped: a chat, an
\* offer, an answer.  Its handler may hash a whole file before it sends, or find
\* nothing to send.
TakeCommand(e) ==
    /\ Wins(e)
    /\ Say(e)
    /\ \E next \in {"selects", "sends"} : Await(e, next)
    /\ UNCHANGED <<outbound, sender, stream, shifted, handled, open, left, told>>

\* No command and no handle: the loop closes the connection.
NoCommands(e) ==
    /\ Wins(e)
    /\ left[e]
    /\ Await(e, "ended")
    /\ open' = FALSE
    /\ UNCHANGED <<channel, sender, stream, shifted, handled, left, told>>

\* outbound_tx.send(..).await in the loop waits for room; a mutant that does not.
HasRoomAnyway(e) == outbound[e] < Capacity + 1
HasRoom(e) == outbound[e] < Capacity
Send(e) ==
    /\ loop[e] = "sends"
    /\ HasRoom(e)
    /\ outbound' = [outbound EXCEPT ![e] = @ + 1]
    /\ Await(e, "selects")
    /\ UNCHANGED <<said, sender, stream, reader, open, left, told>>

\* write_p2p_message begins.
Write(e, asks) ==
    /\ written' = [written EXCEPT ![e] = @ + 1]
    /\ writing' = [writing EXCEPT ![e] = Message(written[e] + 1, asks)]
    /\ Await(e, "writes")

TakeOutbound(e) ==
    /\ Wins(e)
    /\ outbound[e] > 0
    /\ outbound' = [outbound EXCEPT ![e] = @ - 1]
    /\ Write(e, FALSE)
    /\ UNCHANGED <<said, stream, shifted, handled, open, left, told>>

\* A ping does not go through the channel.
Ping(e) ==
    /\ Wins(e)
    /\ Say(e)
    /\ Write(e, TRUE)
    /\ UNCHANGED <<outbound, stream, shifted, handled, open, left, told>>

\* The next frame of a shared screen, or the end of the last one.
Frame(e) ==
    /\ Wins(e)
    /\ UNCHANGED <<loop, channel, sender, stream, shifted, handled, open, left, told>>

\* A part goes out when the stream has room for it.
WritePart(e) ==
    /\ loop[e] = "writes"
    /\ open
    /\ Len(stream[Peer(e)]) < FlowWindow
    /\ stream' = [stream EXCEPT ![Peer(e)] = Append(@, Head(writing[e]))]
    /\ writing' = [writing EXCEPT ![e] = Tail(@)]
    /\ Await(e, IF Len(writing[e]) = 1 THEN "selects" ELSE "writes")
    /\ UNCHANGED <<channel, written, reader, open, left, told>>

\* The loop ends with DirectLinkLost; a mutant that forgets the event.
EndUntold(e) == told' = told
EndTold(e) == told' = [told EXCEPT ![e] = TRUE]
Lose(e) == Await(e, "ended") /\ open' = FALSE /\ EndTold(e)
GoOn(e, what) == /\ taken' = [taken EXCEPT ![e] = what]
                 /\ UNCHANGED <<loop, open, told>>

\* read_p2p_message goes on by a part; what has arrived can be read until the loop
\* sees that the connection is lost.
Reads(e, what) ==
    /\ loop[e] = "selects" /\ taken[e] = what
    /\ stream[e] # <<>>
    /\ stream' = [stream EXCEPT ![e] = Tail(@)]
    /\ UNCHANGED <<channel, sender, left>>

ReadLength(e) ==
    /\ Reads(e, "nothing")
    /\ Head(stream[e]).part = "length"
    /\ GoOn(e, "length")
    /\ UNCHANGED <<shifted, handled>>

\* The message is handled; what it asks for is sent.
ReadPayload(e) ==
    /\ Reads(e, "length")
    /\ handled' = [handled EXCEPT ![e] = Append(@, Head(stream[e]).number)]
    /\ taken' = [taken EXCEPT ![e] = "nothing"]
    /\ Await(e, IF Head(stream[e]).asks THEN "sends" ELSE "selects")
    /\ UNCHANGED <<shifted, open, told>>

\* The rest of a message whose read was dropped is taken for a length.  Four
\* bytes with one of JSON in them are more than MAX_FRAME_LEN, and the link is
\* lost; if only the last byte is left, the next length makes it a length that
\* may pass.  A mutant that skips the rest.
SkipRest(e) == GoOn(e, "nothing") /\ UNCHANGED shifted
TakeRest(e) ==
    \/ Lose(e) /\ UNCHANGED <<taken, shifted>>
    \/ GoOn(e, "garbage") /\ shifted' = [shifted EXCEPT ![e] = TRUE]
ReadRest(e) ==
    /\ Reads(e, "nothing")
    /\ Head(stream[e]).part = "payload"
    /\ TakeRest(e)
    /\ UNCHANGED handled

\* What such a length swallows is no message once it is all there.
ReadGarbage(e) ==
    /\ Reads(e, "garbage")
    /\ (Lose(e) /\ UNCHANGED taken) \/ GoOn(e, "garbage")
    /\ UNCHANGED <<shifted, handled>>

\* connection.closed(), or the error of a write or of a read.
SeeClosed(e) ==
    /\ ~open
    /\ loop[e] \in {"selects", "writes"}
    /\ Lose(e)
    /\ UNCHANGED <<channel, sender, stream, reader, left>>

Step(e) == \/ TakeCommand(e) \/ NoCommands(e) \/ Send(e) \/ TakeOutbound(e) \/ Ping(e)
           \/ Frame(e) \/ WritePart(e) \/ ReadLength(e) \/ ReadPayload(e) \/ ReadRest(e)
           \/ ReadGarbage(e) \/ SeeClosed(e)
Next == Break \/ \E e \in End : Step(e) \/ Acknowledge(e) \/ Leave(e)

Spec == Init /\ [][Next]_vars

\* The loop is a task that runs whenever what it awaits is there.
Fairness == \A e \in End : WF_vars(Step(e))
FairSpec == Spec /\ Fairness

-----------------------------------------------------------------------------
(* Properties                                                              *)

\* The messages of the control stream are handled in the order in which they were
\* written, none twice and none left out, although a read is dropped half way by
\* every other arm: a dropped read costs the link, or the last byte of its
\* message has shifted the next one.
HandledInOrder ==
    \A e \in End : /\ Len(handled[e]) <= written[Peer(e)]
                   /\ shifted[e] \/ \A i \in 1 .. Len(handled[e]) : handled[e][i] = i

\* The loop waits for room in the channel that only the loop empties.
Wedged(e) == loop[e] = "sends" /\ outbound[e] = Capacity

\* An end whose connection is lost in any way tells its window, whatever its loop
\* was waiting for, unless the window has left or the loop waits for itself.
LostIsTold == \A e \in End : ~open ~> (told[e] \/ left[e] \/ Wedged(e))

\* README.md:126 of the repository says that a link that times out is taken for
\* lost; so the window hears of it.  The code breaks this: a loop that waits for
\* itself never sees the end of its connection.
ClosedIsTold == \A e \in End : ~open ~> (told[e] \/ left[e])

\* The loops, their channels and the framing seen as the stream they implement.
LastHandled(e) == IF handled[e] = <<>> THEN 0 ELSE handled[e][Len(handled[e])]

Numbered == INSTANCE ControlStream WITH sent <- [e \in End |-> written[Peer(e)]],
                                        heard <- [e \in End |-> LastHandled(e)],
                                        slipped <- shifted

\* Every step of an end is a step of the stream or none: whatever reads are cut, a
\* message is handled after it was sent and before those that were sent after it,
\* also once the rest of a cut message has been taken for a length (session.rs:714).
ImplementsStream == Numbered!Spec
=============================================================================
