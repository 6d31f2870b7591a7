---------------------------- MODULE RemoteDesktop ----------------------------
(***************************************************************************)
(* The control protocol of a shared desktop over one direct link           *)
(* (clients/p2p-core/src/session.rs): two equal peers, each with one slot  *)
(* for a session it offers, is offered, shares or views, and an ordered    *)
(* control stream to the other.                                            *)
(*                                                                         *)
(* A peer's loop runs commands of its user and messages of its peer one    *)
(* after the other to completion, so each is one step. What interleaves    *)
(* are the two loops and the messages crossing between them: two offers at *)
(* once, an answer crossing a stop, a revoked permission crossing input,   *)
(* the next session starting behind the stop of the last, and a link that  *)
(* one end sees lost before the other.                                     *)
(***************************************************************************)
EXTENDS Naturals, Sequences

CONSTANTS A, B,        \* the two peers
          Ids,         \* session ids: only their order matters
          MaxWire,     \* bound: messages under way to a peer when the other's user acts
          MaxInput     \* bound: input events of one session

ASSUME PeersAssumption == A # B
ASSUME IdsAssumption == Ids \subseteq Nat \ {0}
ASSUME InputAssumption == MaxInput \in Nat

VARIABLES alive,      \* alive[p]: p's loop over the link is running
          desk,       \* desk[p]: RemoteDesktopState of p
          lastInput,  \* lastInput[p]: last_input_sequence of p
          sequence,   \* sequence[p]: number of p's last input event
          wire        \* wire[p]: control messages on their way to p, in order

vars == <<alive, desk, lastInput, sequence, wire>>

Peers == {A, B}
Peer(p) == IF p = A THEN B ELSE A

\* A state names its session and whether the viewer may control.
Idle == [kind |-> "idle", id |-> 0, control |-> FALSE]
Desk(kind, id, control) == [kind |-> kind, id |-> id, control |-> control]
Desks == {Idle} \cup [kind: {"outgoing", "incoming", "sharing", "viewing"},
                      id: Ids, control: BOOLEAN]

Offer(id, b) == [type |-> "offer", id |-> id, flag |-> b]
Answer(id, b) == [type |-> "answer", id |-> id, flag |-> b]
Permission(id, b) == [type |-> "permission", id |-> id, flag |-> b]
Stop(id) == [type |-> "stop", id |-> id]
Input(id, n) == [type |-> "input", id |-> id, seq |-> n]
Messages == [type: {"offer", "answer", "permission"}, id: Ids, flag: BOOLEAN]
            \cup [type: {"stop"}, id: Ids]
            \cup [type: {"input"}, id: Ids, seq: 1 .. MaxInput]

Sent(p, m) == \E i \in 1 .. Len(wire[p]) : wire[p][i] = m
Holds(p, kind, id) == desk[p].kind = kind /\ desk[p].id = id

TypeOK == /\ alive \in [Peers -> BOOLEAN]
          /\ desk \in [Peers -> Desks]
          /\ lastInput \in [Peers -> 0 .. MaxInput]
          /\ sequence \in [Peers -> 0 .. MaxInput]
          /\ wire \in [Peers -> Seq(Messages)]

Init == /\ alive = [p \in Peers |-> TRUE]
        /\ desk = [p \in Peers |-> Idle]
        /\ lastInput = [p \in Peers |-> 0]
        /\ sequence = [p \in Peers |-> 0]
        /\ wire = [p \in Peers |-> <<>>]

-----------------------------------------------------------------------------
(* Sending and changing state                                              *)

\* ms go to the peer of p, behind what is already under way; if its loop has
\* ended they reach nobody. took: p reads the head of its own stream as well.
Send(p, ms, took) ==
    wire' = [q \in Peers |->
               IF q = p THEN (IF took THEN Tail(wire[p]) ELSE wire[p])
               ELSE IF alive[q] THEN wire[q] \o ms ELSE wire[q]]

\* A session that ends takes the user interface's input counter with it.
Become(p, d) ==
    /\ desk' = [desk EXCEPT ![p] = d]
    /\ sequence' = [sequence EXCEPT ![p] = IF d.kind = "idle" THEN 0 ELSE @]

\* The state a session leaves behind: nothing of its id, nor of who controls.
Ended == Idle

\* Mutant: the counter of handled input survives the session.
KeepLastInput(p) == lastInput
ClearLastInput(p) == [lastInput EXCEPT ![p] = 0]

\* A new session has an id that nothing else in the system has.
Fresh(id) == \A p \in Peers : /\ desk[p].id # id
                              /\ \A i \in 1 .. Len(wire[p]) : wire[p][i].id # id

-----------------------------------------------------------------------------
(* Commands of the user                                                    *)

MayAct(p) == alive[p] /\ Len(wire[Peer(p)]) < MaxWire

OfferDesktop(p, id, b) ==
    /\ MayAct(p)
    /\ desk[p].kind = "idle"
    /\ Fresh(id)
    /\ Become(p, Desk("outgoing", id, b))
    /\ Send(p, <<Offer(id, b)>>, FALSE)
    /\ UNCHANGED <<alive, lastInput>>

AnswerDesktop(p, accepted) ==
    /\ MayAct(p)
    /\ desk[p].kind = "incoming"
    /\ Become(p, IF accepted THEN [desk[p] EXCEPT !.kind = "viewing"] ELSE Ended)
    /\ Send(p, <<Answer(desk[p].id, accepted)>>, FALSE)
    /\ UNCHANGED <<alive, lastInput>>

SetPermission(p, b) ==
    /\ MayAct(p)
    /\ desk[p].kind = "sharing"
    /\ Become(p, [desk[p] EXCEPT !.control = b])
    /\ Send(p, <<Permission(desk[p].id, b)>>, FALSE)
    /\ UNCHANGED <<alive, lastInput>>

StopDesktop(p) ==
    /\ MayAct(p)
    /\ desk[p].kind # "idle"
    /\ lastInput' = ClearLastInput(p)
    /\ Become(p, Ended)
    /\ Send(p, <<Stop(desk[p].id)>>, FALSE)
    /\ UNCHANGED alive

SendInput(p) ==
    /\ MayAct(p)
    /\ desk[p].kind = "viewing"
    /\ desk[p].control
    /\ sequence[p] < MaxInput
    /\ sequence' = [sequence EXCEPT ![p] = @ + 1]
    /\ Send(p, <<Input(desk[p].id, sequence[p] + 1)>>, FALSE)
    /\ UNCHANGED <<alive, desk, lastInput>>

-----------------------------------------------------------------------------
(* Messages of the peer: handle_remote_desktop_control                     *)

\* Mutant: a peer that is busy drops an offer, whatever it is busy with.
HandleOfferIfIdle(p, m) ==
    /\ m.type = "offer"
    /\ IF desk[p].kind = "idle" THEN Become(p, Desk("incoming", m.id, m.flag))
                                ELSE UNCHANGED <<desk, sequence>>
    /\ Send(p, <<>>, TRUE)
    /\ UNCHANGED lastInput

\* When offers cross, the smaller session id wins.
Yields(p, m) == desk[p].kind = "outgoing" /\ m.id < desk[p].id

HandleOffer(p, m) ==
    /\ m.type = "offer"
    /\ \/ /\ desk[p].kind = "idle"
          /\ Become(p, Desk("incoming", m.id, m.flag))
          /\ Send(p, <<>>, TRUE)
       \/ /\ Yields(p, m)
          /\ Become(p, Desk("incoming", m.id, m.flag))
          /\ Send(p, <<Stop(desk[p].id)>>, TRUE)
       \/ /\ desk[p].kind # "idle"
          /\ ~Yields(p, m)
          /\ Send(p, <<Answer(m.id, FALSE)>>, TRUE)
          /\ UNCHANGED <<desk, sequence>>
    /\ UNCHANGED lastInput

\* Whether an answer is to the offer p has pending. Mutant: to any offer of p.
AnswersAnyOffer(p, m) == desk[p].kind = "outgoing"
AnswersMine(p, m) == Holds(p, "outgoing", m.id)

HandleAnswer(p, m) ==
    /\ m.type = "answer"
    /\ IF AnswersMine(p, m)
       THEN Become(p, IF m.flag THEN Desk("sharing", m.id, desk[p].control) ELSE Ended)
       ELSE UNCHANGED <<desk, sequence>>
    /\ Send(p, <<>>, TRUE)
    /\ UNCHANGED lastInput

\* Mutant: a permission is only ever taken away.
OnlyRevokes(p, m) == [desk[p] EXCEPT !.control = @ /\ m.flag]
Permitted(p, m) == [desk[p] EXCEPT !.control = m.flag]

HandlePermission(p, m) ==
    /\ m.type = "permission"
    /\ IF Holds(p, "viewing", m.id)
       THEN Become(p, Permitted(p, m))
       ELSE UNCHANGED <<desk, sequence>>
    /\ Send(p, <<>>, TRUE)
    /\ UNCHANGED lastInput

\* Whether a stop ends what p has. Mutants: not a session p is offered; not
\* one it shares.
StopsUnlessIncoming(p, m) == desk[p].id = m.id /\ desk[p].kind # "incoming"
StopsUnlessSharing(p, m) == desk[p].id = m.id /\ desk[p].kind # "sharing"
Stops(p, m) == desk[p].id = m.id

HandleStop(p, m) ==
    /\ m.type = "stop"
    /\ IF Stops(p, m)
       THEN Become(p, Ended) /\ lastInput' = ClearLastInput(p)
       ELSE UNCHANGED <<desk, sequence, lastInput>>
    /\ Send(p, <<>>, TRUE)

HandleInput(p, m) ==
    /\ m.type = "input"
    /\ IF /\ Holds(p, "sharing", m.id)
          /\ desk[p].control
          /\ m.seq > lastInput[p]
       THEN lastInput' = [lastInput EXCEPT ![p] = m.seq]
       ELSE UNCHANGED lastInput
    /\ Send(p, <<>>, TRUE)
    /\ UNCHANGED <<desk, sequence>>

Receive(p) ==
    /\ alive[p]
    /\ wire[p] # <<>>
    /\ LET m == Head(wire[p])
       IN  HandleOffer(p, m) \/ HandleAnswer(p, m) \/ HandlePermission(p, m)
           \/ HandleStop(p, m) \/ HandleInput(p, m)
    /\ UNCHANGED alive

-----------------------------------------------------------------------------
(* The link                                                                *)

\* p's loop ends, because the network failed, because its peer closed the link
\* or because its user did; what was not read is lost.
LinkDown(p) ==
    /\ alive[p]
    /\ alive' = [alive EXCEPT ![p] = FALSE]
    /\ Become(p, Ended)
    /\ lastInput' = ClearLastInput(p)
    /\ wire' = [wire EXCEPT ![p] = <<>>]

\* A new link starts with new states and new streams.
Relink ==
    /\ \A p \in Peers : ~alive[p]
    /\ alive' = [p \in Peers |-> TRUE]
    /\ UNCHANGED <<desk, lastInput, sequence, wire>>

Next ==
    \/ \E p \in Peers :
          \/ \E id \in Ids, b \in BOOLEAN : OfferDesktop(p, id, b)
          \/ \E b \in BOOLEAN : AnswerDesktop(p, b) \/ SetPermission(p, b)
          \/ StopDesktop(p)
          \/ SendInput(p)
          \/ Receive(p)
          \/ LinkDown(p)
    \/ Relink

Spec == Init /\ [][Next]_vars

\* A running loop reads its stream, and QUIC reports to each end that the other
\* is gone. Users do whatever they like.
Fairness == \A p \in Peers : /\ WF_vars(Receive(p))
                             /\ WF_vars(~alive[Peer(p)] /\ LinkDown(p))

FairSpec == Spec /\ Fairness

-----------------------------------------------------------------------------
(* Properties                                                              *)

Linked == \A p \in Peers : alive[p]

\* A peer's active session is its peer's as well, or the message that will end
\* or begin it is under way: no screen is shared to nobody for ever.
ActiveIsMatched ==
    Linked => \A p \in Peers : LET id == desk[p].id
                                   q == Peer(p) IN
        /\ desk[p].kind = "sharing" => Holds(q, "viewing", id) \/ Sent(p, Stop(id))
        /\ desk[p].kind = "viewing" =>
              \/ Holds(q, "sharing", id)
              \/ Holds(q, "outgoing", id) /\ Sent(q, Answer(id, TRUE))
              \/ Sent(p, Stop(id))

\* An offer is never forgotten: it is under way, before the other's user, or
\* its answer or its end is coming back; and an offer before a user is one that
\* its sender still has, or its withdrawal is coming.
PendingIsMatched ==
    Linked => \A p \in Peers : LET id == desk[p].id
                                   q == Peer(p) IN
        /\ desk[p].kind = "outgoing" =>
              \/ \E b \in BOOLEAN : Sent(q, Offer(id, b)) \/ Sent(p, Answer(id, b))
              \/ Holds(q, "incoming", id)
              \/ Sent(p, Stop(id))
        /\ desk[p].kind = "incoming" => Holds(q, "outgoing", id) \/ Sent(p, Stop(id))

\* Viewer and sharer of a session agree on who may control it, unless a
\* permission that will make them agree is still under way.
ControlAgrees ==
    \A p \in Peers : LET q == Peer(p) IN
        /\ Linked
        /\ desk[p].kind = "viewing"
        /\ Holds(q, "sharing", desk[p].id)
        /\ \A b \in BOOLEAN : ~Sent(p, Permission(desk[p].id, b))
        => desk[p].control = desk[q].control

\* Input that reaches a peer still sharing its session is newer than all it has
\* handled: an earlier session's counter never swallows the first events of a
\* later one.
InputIsNew ==
    \A p \in Peers : \A i \in 1 .. Len(wire[p]) : LET m == wire[p][i] IN
        m.type = "input" /\ Holds(p, "sharing", m.id) => m.seq > lastInput[p]

\* Crossed offers are resolved without either user: two peers do not wait for
\* each other's answers for ever.
GlareResolves ==
    (\A p \in Peers : desk[p].kind = "outgoing")
        ~> ~(\A p \in Peers : desk[p].kind = "outgoing")

\* An active session that only one peer still has ends there too: with fair
\* loops a screen is not shared into a session the viewer has left.
HalfOpenHeals ==
    \A p \in Peers, id \in Ids :
        (Holds(p, "sharing", id) /\ ~Holds(Peer(p), "viewing", id)) ~> ~Holds(p, "sharing", id)
=============================================================================
