------------------------- MODULE RemoteDesktopProofs --------------------------
(***************************************************************************)
(* The two state machines of a shared desktop match, for every set of      *)
(* session ids, queues of any length and any number of inputs.             *)
(***************************************************************************)
EXTENDS RemoteDesktop, TLAPS

\* The messages of a queue.
Under(q) == {q[i] : i \in 1 .. Len(q)}

\* The last of the messages m and n in the queue q is m; r says that without
\* any of them its reader believes n.
Ends(q, m, n, r) ==
    /\ \A i \in 1 .. Len(q) : q[i] = n => \E j \in 1 .. Len(q) : j > i /\ q[j] = m
    /\ r => \E j \in 1 .. Len(q) : q[j] = m

\* A peer whose loop has ended has no session, and nothing reaches it.
Dead(p) == ~alive[p] => desk[p] = Idle /\ wire[p] = <<>>

\* Only a sharing peer counts input.
Counting(p) == desk[p].kind # "sharing" => lastInput[p] = 0

\* An offer is the first message of its session in a stream, and the inputs of
\* a session are in order.
Ordered(p) ==
    \A i, j \in 1 .. Len(wire[p]) :
        i < j /\ wire[p][i].id = wire[p][j].id
            => /\ wire[p][j].type # "offer"
               /\ wire[p][i].type = "input" /\ wire[p][j].type = "input"
                    => wire[p][i].seq < wire[p][j].seq

\* What a message m from q on its way to p says about the two.
Means(p, q, m) ==
    /\ m.type = "stop" => desk[q].id # m.id
    /\ m.type = "offer" =>
          /\ desk[p].id # m.id
          /\ \A n \in Under(wire[q]) : n.id # m.id
          /\ desk[q].id = m.id => desk[q] = Desk("outgoing", m.id, m.flag)
          /\ Linked => desk[q].id = m.id \/ Stop(m.id) \in Under(wire[p])
    /\ m.type = "answer" =>
          /\ ~Holds(q, "incoming", m.id)
          /\ desk[q].id = m.id => m.flag
          /\ Linked /\ m.flag /\ Holds(p, "outgoing", m.id)
                => Holds(q, "viewing", m.id) \/ Stop(m.id) \in Under(wire[p])
    /\ m.type = "permission" => ~Holds(q, "outgoing", m.id)
    /\ m.type = "input" =>
          /\ desk[q].id = m.id => m.seq <= sequence[q]
          /\ Holds(p, "sharing", m.id) => lastInput[p] < m.seq

Meant(p, q) == \A m \in Under(wire[p]) : Means(p, q, m)

\* The sharer has not handled more inputs than the viewer has sent.
Counted(p, q) == desk[p].kind = "sharing" /\ Holds(q, "viewing", desk[p].id)
                    => lastInput[p] <= sequence[q]

\* The last permission on its way to p, or p's own state if there is none, is
\* what its peer has granted.
Granted(p, q) ==
    LET id == desk[p].id
    IN  /\ desk[p].kind \in {"incoming", "viewing"}
        /\ desk[q].kind \in {"outgoing", "sharing"}
        /\ desk[q].id = id
        => Ends(wire[p], Permission(id, desk[q].control), Permission(id, ~desk[q].control),
                desk[p].control # desk[q].control)

\* What p has is what its peer q has, or the message that will change it is
\* under way.
Matched(p, q) ==
    LET id == desk[p].id
        toP == Under(wire[p])
        toQ == Under(wire[q])
    IN  \/ desk[p].kind = "idle"
        \/ Stop(id) \in toP
        \/ desk[p].kind = "sharing" /\ Holds(q, "viewing", id)
        \/ desk[p].kind = "viewing" /\ Holds(q, "sharing", id)
        \/ desk[p].kind = "viewing" /\ Holds(q, "outgoing", id) /\ Answer(id, TRUE) \in toQ
        \/ desk[p].kind = "outgoing" /\ Holds(q, "incoming", id)
        \/ /\ desk[p].kind = "outgoing"
           /\ \E b \in BOOLEAN : Offer(id, b) \in toQ \/ Answer(id, b) \in toP
        \/ desk[p].kind = "incoming" /\ Holds(q, "outgoing", id)

\* What a peer p with the peer q keeps to.
PeerInv(p, q) == /\ Dead(p) /\ Counting(p) /\ Ordered(p)
                 /\ Meant(p, q) /\ Counted(p, q) /\ Granted(p, q)
                 /\ Linked => Matched(p, q)

\* The inductive invariant.  That the states match rests on what each message
\* says of its sender (Means): a stop is of a session the sender no longer has,
\* a refusal of one it never had, and an offer is the first its receiver hears.
DeskInv == TypeOK /\ \A p \in Peers : PeerInv(p, Peer(p))

-----------------------------------------------------------------------------
(* Queues                                                                  *)

\* An appended message is among the messages.
LEMMA UnderAppend ==
    ASSUME NEW T, NEW q \in Seq(T), NEW e \in T
    PROVE  Under(Append(q, e)) = Under(q) \cup {e}
<1> DEFINE a == Append(q, e)
<1>1. /\ Len(q) \in Nat /\ Len(a) = Len(q) + 1
      /\ \A i \in 1 .. Len(q) : a[i] = q[i]
      /\ a[Len(q) + 1] = e
  OBVIOUS
<1> HIDE DEF a
<1> QED
  BY <1>1 DEF Under, a

\* The messages are the first one and those of the rest.
LEMMA UnderTail ==
    ASSUME NEW T, NEW q \in Seq(T), q # <<>>
    PROVE  /\ Head(q) \in Under(q) /\ Under(Tail(q)) \subseteq Under(q)
           /\ Under(q) = {Head(q)} \cup Under(Tail(q))
<1> DEFINE a == Tail(q)
<1>1. /\ Len(q) \in Nat /\ Len(q) > 0 /\ Len(a) = Len(q) - 1
      /\ \A i \in 1 .. Len(a) : a[i] = q[i + 1]
      /\ Head(q) = q[1]
  OBVIOUS
<1> HIDE DEF a
<1>2. \A i \in 1 .. Len(q) : i = 1 \/ (i - 1 \in 1 .. Len(a) /\ a[i - 1] = q[i])
  BY <1>1
<1>3. 1 \in 1 .. Len(q) /\ \A i \in 1 .. Len(a) : i + 1 \in 1 .. Len(q) /\ a[i] = q[i + 1]
  BY <1>1
<1> QED
  BY <1>1, <1>2, <1>3 DEF Under, a

\* An empty queue holds nothing.
LEMMA UnderEmpty == Under(<<>>) = {}
  BY DEF Under

\* Another message than n changes nothing about the last one, or is it.
LEMMA EndsAppend ==
    ASSUME NEW T, NEW q \in Seq(T), NEW e \in T, NEW m, NEW n, NEW r,
           e # n, Ends(q, m, n, r) \/ e = m
    PROVE  Ends(Append(q, e), m, n, r)
<1> DEFINE a == Append(q, e)
<1>1. /\ Len(q) \in Nat /\ Len(a) = Len(q) + 1
      /\ \A i \in 1 .. Len(q) : a[i] = q[i]
      /\ a[Len(q) + 1] = e
  OBVIOUS
<1> HIDE DEF a
<1>2. CASE e = m
  BY <1>1, <1>2 DEF Ends
<1>3. CASE Ends(q, m, n, r)
  BY <1>1, <1>3 DEF Ends
<1> QED
  BY <1>2, <1>3 DEF a

\* Taking the first message and believing it.
LEMMA EndsTail ==
    ASSUME NEW T, NEW q \in Seq(T), q # <<>>, NEW m, NEW n, m # n, NEW r, NEW b,
           Ends(q, m, n, r), b => Head(q) = n \/ (r /\ Head(q) # m)
    PROVE  Ends(Tail(q), m, n, b)
<1> DEFINE a == Tail(q)
<1>1. /\ Len(q) \in Nat /\ Len(q) > 0 /\ Len(a) = Len(q) - 1
      /\ \A i \in 1 .. Len(a) : a[i] = q[i + 1]
      /\ Head(q) = q[1]
  OBVIOUS
<1> HIDE DEF a
<1>2. ASSUME NEW i \in 1 .. Len(q), NEW j \in 1 .. Len(q), j > i, q[j] = m
      PROVE  \E k \in 1 .. Len(a) : k > i - 1 /\ a[k] = m
  <2>1. j - 1 \in 1 .. Len(a) /\ a[j - 1] = q[j] /\ j - 1 > i - 1
    BY <1>1, <1>2
  <2> QED
    BY <1>2, <2>1
<1>3. ASSUME NEW i \in 1 .. Len(a), a[i] = n
      PROVE  \E k \in 1 .. Len(a) : k > i /\ a[k] = m
  <2>1. i + 1 \in 1 .. Len(q) /\ q[i + 1] = n /\ (i + 1) - 1 = i
    BY <1>1, <1>3
  <2>2. PICK j \in 1 .. Len(q) : j > i + 1 /\ q[j] = m
    BY <2>1 DEF Ends
  <2> QED
    BY <1>2, <2>1, <2>2
<1>4. ASSUME b PROVE \E k \in 1 .. Len(a) : a[k] = m
  <2>1. \E j \in 1 .. Len(q) : j > 1 /\ q[j] = m
    BY <1>1, <1>4 DEF Ends
  <2>2. 1 \in 1 .. Len(q)
    BY <1>1
  <2> QED
    BY <1>2, <2>1, <2>2
<1> QED
  BY <1>3, <1>4 DEF Ends, a

-----------------------------------------------------------------------------
(* Peers, messages and streams                                             *)

\* Whichever of the two a peer is, the other is its peer.
LEMMA TwoPeers ==
    ASSUME NEW p \in Peers
    PROVE  /\ Peer(p) \in Peers /\ Peer(p) # p /\ Peer(Peer(p)) = p
           /\ Peers = {p, Peer(p)}
  BY PeersAssumption DEF Peers, Peer

\* What is under way is of one of the five kinds.
LEMMA MessageKinds ==
    ASSUME NEW m \in Messages
    PROVE  /\ m.id \in Ids /\ m.id # 0
           /\ \/ m.type = "offer" /\ m = Offer(m.id, m.flag) /\ m.flag \in BOOLEAN
              \/ m.type = "answer" /\ m = Answer(m.id, m.flag) /\ m.flag \in BOOLEAN
              \/ m.type = "permission" /\ m = Permission(m.id, m.flag) /\ m.flag \in BOOLEAN
              \/ m.type = "stop" /\ m = Stop(m.id)
              \/ m.type = "input" /\ m = Input(m.id, m.seq) /\ m.seq \in 1 .. MaxInput
  BY IdsAssumption DEF Messages, Offer, Answer, Permission, Stop, Input

\* A state with a session has an id that idle has not.
LEMMA DeskKinds ==
    ASSUME NEW d \in Desks
    PROVE  /\ d.kind \in {"idle", "outgoing", "incoming", "sharing", "viewing"}
           /\ d.kind = "idle" <=> d = Idle
           /\ d.kind # "idle" => d.id \in Ids /\ d = Desk(d.kind, d.id, d.control)
           /\ d.id = 0 <=> d = Idle
           /\ d.control \in BOOLEAN
<1>1. CASE d = Idle
  BY <1>1, IdsAssumption DEF Idle
<1>2. CASE d \in [kind: {"outgoing", "incoming", "sharing", "viewing"},
                 id: Ids, control: BOOLEAN]
  <2>1. d.kind # "idle" /\ d.id # 0
    BY <1>2, IdsAssumption
  <2>2. d # Idle
    BY <2>1 DEF Idle
  <2>3. d = Desk(d.kind, d.id, d.control)
    BY <1>2 DEF Desk
  <2> QED
    BY <1>2, <2>1, <2>2, <2>3
<1> QED
  BY <1>1, <1>2 DEF Desks

\* A state made from a session's id is one a peer may have.
LEMMA DesksMade ==
    ASSUME NEW id \in Ids, NEW b \in BOOLEAN,
           NEW k \in {"outgoing", "incoming", "sharing", "viewing"}
    PROVE  /\ Desk(k, id, b) \in Desks
           /\ Desk(k, id, b).kind = k /\ Desk(k, id, b).id = id /\ Desk(k, id, b).control = b
  BY DEF Desks, Desk

\* Sending nothing or one message.
LEMMA SendNothing ==
    ASSUME TypeOK, NEW p \in Peers, wire[p] # <<>>, Send(p, <<>>, TRUE)
    PROVE  /\ wire'[p] = Tail(wire[p]) /\ wire'[Peer(p)] = wire[Peer(p)]
           /\ wire' \in [Peers -> Seq(Messages)]
<1>1. \A q \in Peers : wire[q] \in Seq(Messages) /\ wire[q] \o <<>> = wire[q]
  BY DEF TypeOK
<1>2. Tail(wire[p]) \in Seq(Messages)
  BY <1>1
<1>3. wire' = [q \in Peers |-> IF q = p THEN Tail(wire[p]) ELSE wire[q]]
  BY <1>1, Zenon DEF Send
<1> QED
  BY <1>1, <1>2, <1>3, TwoPeers

\* A message goes behind what is under way, unless its receiver is gone.
LEMMA SendOne ==
    ASSUME TypeOK, NEW p \in Peers, NEW took \in BOOLEAN, took => wire[p] # <<>>,
           NEW m \in Messages, Send(p, <<m>>, took)
    PROVE  /\ wire'[p] = IF took THEN Tail(wire[p]) ELSE wire[p]
           /\ alive[Peer(p)] => wire'[Peer(p)] = Append(wire[Peer(p)], m)
           /\ ~alive[Peer(p)] => wire'[Peer(p)] = wire[Peer(p)]
           /\ wire' \in [Peers -> Seq(Messages)]
<1>1. \A q \in Peers : /\ wire[q] \in Seq(Messages) /\ Append(wire[q], m) \in Seq(Messages)
                       /\ wire[q] \o <<m>> = Append(wire[q], m)
  BY DEF TypeOK
<1>2. took => Tail(wire[p]) \in Seq(Messages)
  BY <1>1
<1>3. wire' = [q \in Peers |->
                 IF q = p THEN (IF took THEN Tail(wire[p]) ELSE wire[p])
                 ELSE IF alive[q] THEN Append(wire[q], m) ELSE wire[q]]
  BY <1>1 DEF Send
<1> QED
  BY <1>1, <1>2, <1>3, TwoPeers

\* The message p takes.
LEMMA HeadIsMessage ==
    ASSUME TypeOK, NEW p \in Peers, wire[p] # <<>>
    PROVE  Head(wire[p]) \in Messages /\ Head(wire[p]) \in Under(wire[p])
  BY UnderTail DEF TypeOK

\* A new state of p is p's alone, and only an end resets its input counter.
LEMMA BecomeType ==
    ASSUME TypeOK, NEW p \in Peers, NEW d \in Desks, Become(p, d)
    PROVE  /\ desk' \in [Peers -> Desks] /\ sequence' \in [Peers -> 0 .. MaxInput]
           /\ desk'[p] = d
           /\ \A q \in Peers \ {p} : desk'[q] = desk[q] /\ sequence'[q] = sequence[q]
           /\ d.kind # "idle" => sequence'[p] = sequence[p]
  BY InputAssumption DEF TypeOK, Become

\* Idle has an id no session has.
LEMMA IdleIsDesk == Idle \in Desks /\ Idle.kind = "idle" /\ Idle.id = 0
  BY DEF Desks, Idle

\* The end of a session clears p's count of handled input and no other.
LEMMA ClearType ==
    ASSUME TypeOK, NEW p \in Peers
    PROVE  /\ ClearLastInput(p) \in [Peers -> 0 .. MaxInput]
           /\ ClearLastInput(p)[p] = 0
           /\ \A q \in Peers \ {p} : ClearLastInput(p)[q] = lastInput[q]
<1>1. 0 \in 0 .. MaxInput
  BY InputAssumption
<1> QED
  BY <1>1 DEF TypeOK, ClearLastInput

\* What the steps of the users, the loops and the link leave is well typed.
LEMMA TypeStep == TypeOK /\ [Next]_vars => TypeOK'
<1> SUFFICES ASSUME TypeOK, [Next]_vars PROVE TypeOK'
  OBVIOUS
<1> USE InputAssumption
<1>1. ASSUME NEW p \in Peers, NEW id \in Ids, NEW b \in BOOLEAN, OfferDesktop(p, id, b)
      PROVE  TypeOK'
  <2>1. Desk("outgoing", id, b) \in Desks /\ Offer(id, b) \in Messages
    BY DesksMade DEF Messages, Offer
  <2>2. wire' \in [Peers -> Seq(Messages)]
    BY <1>1, <2>1, SendOne DEF OfferDesktop
  <2>3. desk' \in [Peers -> Desks] /\ sequence' \in [Peers -> 0 .. MaxInput]
    BY <1>1, <2>1, BecomeType DEF OfferDesktop
  <2> QED
    BY <1>1, <2>2, <2>3 DEF OfferDesktop, TypeOK
<1>2. ASSUME NEW p \in Peers, desk[p].kind # "idle"
      PROVE  /\ desk[p].id \in Ids /\ desk[p].control \in BOOLEAN
             /\ [desk[p] EXCEPT !.kind = "viewing"] \in Desks
             /\ \A b \in BOOLEAN : [desk[p] EXCEPT !.control = b] \in Desks
  <2>1. desk[p] \in [kind: {"outgoing", "incoming", "sharing", "viewing"},
                     id: Ids, control: BOOLEAN]
    BY <1>2 DEF TypeOK, Desks, Idle
  <2> QED
    BY <2>1 DEF Desks
<1>3. ASSUME NEW p \in Peers, NEW b \in BOOLEAN, AnswerDesktop(p, b)
      PROVE  TypeOK'
  <2>1. Answer(desk[p].id, b) \in Messages
    BY <1>2, <1>3 DEF AnswerDesktop, Messages, Answer
  <2>2. wire' \in [Peers -> Seq(Messages)]
    BY <1>3, <2>1, SendOne DEF AnswerDesktop
  <2>3. desk' \in [Peers -> Desks] /\ sequence' \in [Peers -> 0 .. MaxInput]
    BY <1>2, <1>3, BecomeType, IdleIsDesk DEF AnswerDesktop, Ended
  <2> QED
    BY <1>3, <2>2, <2>3 DEF AnswerDesktop, TypeOK
<1>4. ASSUME NEW p \in Peers, NEW b \in BOOLEAN, SetPermission(p, b)
      PROVE  TypeOK'
  <2>1. Permission(desk[p].id, b) \in Messages
    BY <1>2, <1>4 DEF SetPermission, Messages, Permission
  <2>2. wire' \in [Peers -> Seq(Messages)]
    BY <1>4, <2>1, SendOne DEF SetPermission
  <2>3. desk' \in [Peers -> Desks] /\ sequence' \in [Peers -> 0 .. MaxInput]
    BY <1>2, <1>4, BecomeType DEF SetPermission
  <2> QED
    BY <1>4, <2>2, <2>3 DEF SetPermission, TypeOK
<1>5. ASSUME NEW p \in Peers, StopDesktop(p)
      PROVE  TypeOK'
  <2>1. Stop(desk[p].id) \in Messages
    BY <1>2, <1>5 DEF StopDesktop, Messages, Stop
  <2>2. wire' \in [Peers -> Seq(Messages)]
    BY <1>5, <2>1, SendOne DEF StopDesktop
  <2>3. desk' \in [Peers -> Desks] /\ sequence' \in [Peers -> 0 .. MaxInput]
    BY <1>5, BecomeType, IdleIsDesk DEF StopDesktop, Ended
  <2> QED
    BY <1>5, <2>2, <2>3, ClearType DEF StopDesktop, TypeOK
<1>6. ASSUME NEW p \in Peers, SendInput(p)
      PROVE  TypeOK'
  <2>1. sequence[p] + 1 \in 1 .. MaxInput
    BY <1>6 DEF SendInput, TypeOK
  <2>2. Input(desk[p].id, sequence[p] + 1) \in Messages
    BY <1>2, <1>6, <2>1 DEF SendInput, Messages, Input
  <2>3. wire' \in [Peers -> Seq(Messages)]
    BY <1>6, <2>2, SendOne DEF SendInput
  <2>4. sequence' \in [Peers -> 0 .. MaxInput]
    BY <1>6, <2>1 DEF SendInput, TypeOK
  <2> QED
    BY <1>6, <2>3, <2>4 DEF SendInput, TypeOK
<1>7. ASSUME NEW p \in Peers, Receive(p)
      PROVE  TypeOK'
  <2> DEFINE m == Head(wire[p])
  <2>1. m \in Messages /\ wire[p] # <<>> /\ UNCHANGED alive
    BY <1>7, HeadIsMessage DEF Receive
  <2>2. m.type \in {"offer", "answer", "permission"} => m.id \in Ids /\ m.flag \in BOOLEAN
    BY <2>1 DEF Messages
  <2>3. m.type = "input" => m.seq \in 0 .. MaxInput
    BY <2>1 DEF Messages
  <2> HIDE DEF m
  <2>4. CASE HandleOffer(p, m)
    <3>1. m.type = "offer" /\ m.id \in Ids /\ m.flag \in BOOLEAN /\ UNCHANGED lastInput
      BY <2>2, <2>4 DEF HandleOffer
    <3>2. Desk("incoming", m.id, m.flag) \in Desks /\ Answer(m.id, FALSE) \in Messages
      BY <3>1, DesksMade DEF Messages, Answer
    <3>3. Yields(p, m) => Stop(desk[p].id) \in Messages
      BY <1>2 DEF Yields, Messages, Stop
    <3>4. wire' \in [Peers -> Seq(Messages)]
      BY <2>1, <2>4, <3>2, <3>3, SendOne, SendNothing DEF HandleOffer
    <3>5. desk' \in [Peers -> Desks] /\ sequence' \in [Peers -> 0 .. MaxInput]
      BY <2>4, <3>2, BecomeType DEF HandleOffer, TypeOK
    <3> QED
      BY <2>1, <3>1, <3>4, <3>5 DEF TypeOK
  <2>5. CASE HandleAnswer(p, m)
    <3>1. m.type = "answer" /\ m.id \in Ids /\ UNCHANGED lastInput
      BY <2>2, <2>5 DEF HandleAnswer
    <3>2. wire' \in [Peers -> Seq(Messages)]
      BY <2>1, <2>5, SendNothing DEF HandleAnswer
    <3>3. AnswersMine(p, m) => Desk("sharing", m.id, desk[p].control) \in Desks
      BY <1>2, <3>1, DesksMade DEF AnswersMine, Holds
    <3>4. desk' \in [Peers -> Desks] /\ sequence' \in [Peers -> 0 .. MaxInput]
      BY <2>5, <3>3, BecomeType, IdleIsDesk DEF HandleAnswer, TypeOK, Ended
    <3> QED
      BY <2>1, <3>1, <3>2, <3>4 DEF TypeOK
  <2>6. CASE HandlePermission(p, m)
    <3>1. m.type = "permission" /\ m.flag \in BOOLEAN /\ UNCHANGED lastInput
      BY <2>2, <2>6 DEF HandlePermission
    <3>2. wire' \in [Peers -> Seq(Messages)]
      BY <2>1, <2>6, SendNothing DEF HandlePermission
    <3>3. Holds(p, "viewing", m.id) => Permitted(p, m) \in Desks
      BY <1>2, <3>1 DEF Holds, Permitted
    <3>4. desk' \in [Peers -> Desks] /\ sequence' \in [Peers -> 0 .. MaxInput]
      BY <2>6, <3>3, BecomeType DEF HandlePermission, TypeOK
    <3> QED
      BY <2>1, <3>1, <3>2, <3>4 DEF TypeOK
  <2>7. CASE HandleStop(p, m)
    <3>1. wire' \in [Peers -> Seq(Messages)]
      BY <2>1, <2>7, SendNothing DEF HandleStop
    <3>2. desk' \in [Peers -> Desks] /\ sequence' \in [Peers -> 0 .. MaxInput]
      BY <2>7, BecomeType, IdleIsDesk DEF HandleStop, TypeOK, Ended
    <3>3. lastInput' \in [Peers -> 0 .. MaxInput]
      BY <2>7, ClearType DEF HandleStop, TypeOK
    <3> QED
      BY <2>1, <3>1, <3>2, <3>3 DEF TypeOK
  <2>8. CASE HandleInput(p, m)
    <3>1. wire' \in [Peers -> Seq(Messages)]
      BY <2>1, <2>8, SendNothing DEF HandleInput
    <3>2. lastInput' \in [Peers -> 0 .. MaxInput]
      BY <2>3, <2>8 DEF HandleInput, TypeOK
    <3> QED
      BY <2>1, <2>8, <3>1, <3>2 DEF HandleInput, TypeOK
  <2> QED
    BY <1>7, <2>4, <2>5, <2>6, <2>7, <2>8 DEF Receive, m
<1>8. ASSUME NEW p \in Peers, LinkDown(p)
      PROVE  TypeOK'
  <2>1. desk' \in [Peers -> Desks] /\ sequence' \in [Peers -> 0 .. MaxInput]
    BY <1>8, BecomeType, IdleIsDesk DEF LinkDown, Ended
  <2>2. wire' \in [Peers -> Seq(Messages)]
    BY <1>8 DEF LinkDown, TypeOK
  <2> QED
    BY <1>8, <2>1, <2>2, ClearType DEF LinkDown, TypeOK
<1>9. CASE Relink
  BY <1>9 DEF Relink, TypeOK
<1>10. CASE UNCHANGED vars
  BY <1>10 DEF vars, TypeOK
<1> QED
  BY <1>1, <1>3, <1>4, <1>5, <1>6, <1>7, <1>8, <1>9, <1>10 DEF Next

\* The types of the two peers' states and of what is between them
\* (session.rs, handle_remote_desktop_command and handle_remote_desktop_control).
THEOREM TypeCorrect == Spec => []TypeOK
<1>1. Init => TypeOK
  BY IdleIsDesk, InputAssumption DEF Init, TypeOK
<1> QED
  BY <1>1, TypeStep, PTL DEF Spec

-----------------------------------------------------------------------------
(* What one step does to a stream                                          *)

\* A stream is a sequence of messages.
LEMMA WireIsSeq ==
    ASSUME TypeOK, NEW p \in Peers
    PROVE  wire[p] \in Seq(Messages) /\ Under(wire[p]) \subseteq Messages
  BY DEF TypeOK, Under

\* What is behind the first message of an ordered stream is ordered, and newer.
LEMMA OrderedTail ==
    ASSUME TypeOK, NEW p \in Peers, wire[p] # <<>>, Ordered(p), wire'[p] = Tail(wire[p])
    PROVE  /\ Ordered(p)'
           /\ \A n \in Under(Tail(wire[p])) : n.id = Head(wire[p]).id =>
                 /\ n.type # "offer"
                 /\ n.type = "input" /\ Head(wire[p]).type = "input"
                      => Head(wire[p]).seq < n.seq
<1> DEFINE q == wire[p]
           a == Tail(q)
<1>1. /\ Len(q) \in Nat /\ Len(q) > 0 /\ Len(a) = Len(q) - 1
      /\ \A i \in 1 .. Len(a) : a[i] = q[i + 1]
      /\ Head(q) = q[1]
      /\ \A i \in 1 .. Len(q) : q[i] \in Messages
  BY DEF TypeOK
<1>2. wire'[p] = a
  OBVIOUS
<1>3. \A i, j \in 1 .. Len(q) :
        i < j /\ q[i].id = q[j].id
            => /\ q[j].type # "offer"
               /\ q[i].type = "input" /\ q[j].type = "input" => q[i].seq < q[j].seq
  BY DEF Ordered
<1> HIDE DEF a, q
<1>4. ASSUME NEW i \in 1 .. Len(a), NEW j \in 1 .. Len(a), i < j
      PROVE  i + 1 \in 1 .. Len(q) /\ j + 1 \in 1 .. Len(q) /\ i + 1 < j + 1
  BY <1>1, <1>4
<1>5. Ordered(p)'
  BY <1>1, <1>2, <1>3, <1>4 DEF Ordered
<1>6. ASSUME NEW i \in 1 .. Len(a), a[i].id = q[1].id
      PROVE  /\ a[i].type # "offer"
             /\ a[i].type = "input" /\ q[1].type = "input" => q[1].seq < a[i].seq
  <2>1. 1 \in 1 .. Len(q) /\ i + 1 \in 1 .. Len(q) /\ 1 < i + 1 /\ a[i] = q[i + 1]
    BY <1>1
  <2>2. /\ q[i + 1].type # "offer"
        /\ q[1].type = "input" /\ q[i + 1].type = "input" => q[1].seq < q[i + 1].seq
    BY <1>3, <1>6, <2>1
  <2> QED
    BY <1>1, <2>1, <2>2
<1> QED
  BY <1>1, <1>5, <1>6 DEF Under, a, q

\* A message that is the first offer or the newest input of its session may follow.
LEMMA OrderedAppend ==
    ASSUME TypeOK, NEW p \in Peers, NEW m \in Messages, Ordered(p),
           wire'[p] = Append(wire[p], m),
           \A n \in Under(wire[p]) : n.id = m.id =>
               m.type # "offer" /\ (m.type = "input" /\ n.type = "input" => n.seq < m.seq)
    PROVE  Ordered(p)'
<1> DEFINE q == wire[p]
           a == Append(q, m)
<1>1. /\ Len(q) \in Nat /\ Len(a) = Len(q) + 1
      /\ \A i \in 1 .. Len(q) : a[i] = q[i]
      /\ a[Len(q) + 1] = m
  BY DEF TypeOK
<1>2. wire'[p] = a
  OBVIOUS
<1>3. \A i, j \in 1 .. Len(q) :
        i < j /\ q[i].id = q[j].id
            => /\ q[j].type # "offer"
               /\ q[i].type = "input" /\ q[j].type = "input" => q[i].seq < q[j].seq
  BY DEF Ordered
<1>4. \A i \in 1 .. Len(q) : q[i].id = m.id =>
         m.type # "offer" /\ (m.type = "input" /\ q[i].type = "input" => q[i].seq < m.seq)
  BY DEF Under
<1> HIDE DEF a, q
<1>5. ASSUME NEW i \in 1 .. Len(a), NEW j \in 1 .. Len(a), i < j, a[i].id = a[j].id
      PROVE  /\ a[j].type # "offer"
             /\ a[i].type = "input" /\ a[j].type = "input" => a[i].seq < a[j].seq
  <2>1. i \in 1 .. Len(q) /\ a[i] = q[i] /\ (j \in 1 .. Len(q) \/ j = Len(q) + 1)
    BY <1>1, <1>5
  <2>2. CASE j \in 1 .. Len(q)
    BY <1>1, <1>3, <1>5, <2>1, <2>2
  <2>3. CASE j = Len(q) + 1
    BY <1>1, <1>4, <1>5, <2>1, <2>3
  <2> QED
    BY <2>1, <2>2, <2>3
<1> QED
  BY <1>2, <1>5 DEF Ordered

\* The two ends of a step.
LEMMA BothEnds ==
    ASSUME DeskInv, NEW p \in Peers
    PROVE  /\ TypeOK /\ PeerInv(p, Peer(p)) /\ PeerInv(Peer(p), p)
           /\ Peer(p) \in Peers /\ Peer(p) # p /\ Peers = {p, Peer(p)}
           /\ desk[p] \in Desks /\ desk[Peer(p)] \in Desks
           /\ Under(wire[p]) \subseteq Messages /\ Under(wire[Peer(p)]) \subseteq Messages
  BY TwoPeers, WireIsSeq DEF DeskInv, TypeOK

\* What is under way after p has sent m, or nothing.
LEMMA Spoken ==
    ASSUME DeskInv, NEW p \in Peers, NEW m \in Messages, Send(p, <<m>>, FALSE)
    PROVE  /\ wire'[p] = wire[p]
           /\ alive[Peer(p)] => /\ wire'[Peer(p)] = Append(wire[Peer(p)], m)
                                /\ Under(wire'[Peer(p)]) = Under(wire[Peer(p)]) \cup {m}
           /\ ~alive[Peer(p)] => wire'[Peer(p)] = wire[Peer(p)]
<1>1. wire[Peer(p)] \in Seq(Messages) /\ TypeOK
  BY BothEnds, WireIsSeq
<1>2. Under(Append(wire[Peer(p)], m)) = Under(wire[Peer(p)]) \cup {m}
  BY <1>1, UnderAppend
<1> QED
  BY <1>1, <1>2, SendOne

-----------------------------------------------------------------------------
(* The users' steps                                                        *)

\* An offer's id is new, so nothing under way speaks of it.
LEMMA OfferDesktopKeeps ==
    ASSUME DeskInv, NEW p \in Peers, NEW id \in Ids, NEW b \in BOOLEAN,
           OfferDesktop(p, id, b)
    PROVE  PeerInv(p, Peer(p))' /\ PeerInv(Peer(p), p)'
<1> DEFINE q == Peer(p)
           m == Offer(id, b)
<1>1. /\ TypeOK /\ PeerInv(p, q) /\ PeerInv(q, p) /\ q \in Peers /\ q # p /\ Peers = {p, q}
      /\ desk[p] \in Desks /\ desk[q] \in Desks
  BY BothEnds
<1>2. m \in Messages /\ m.type = "offer" /\ m.id = id /\ m.flag = b
  BY DEF Messages, Offer
<1>3. /\ desk'[p] = Desk("outgoing", id, b) /\ desk'[p].kind = "outgoing" /\ desk'[p].id = id
      /\ desk'[q] = desk[q] /\ desk[p].kind = "idle" /\ desk[p] = Idle
      /\ sequence'[p] = sequence[p] /\ sequence'[q] = sequence[q]
      /\ UNCHANGED <<alive, lastInput>> /\ Linked' = Linked
  <2>1. Desk("outgoing", id, b) \in Desks /\ Desk("outgoing", id, b).kind = "outgoing"
        /\ Desk("outgoing", id, b).id = id
    BY DesksMade
  <2>2. desk[p].kind = "idle" /\ desk[p] = Idle /\ UNCHANGED <<alive, lastInput>>
    BY <1>1, DeskKinds DEF OfferDesktop
  <2>3. Become(p, Desk("outgoing", id, b))
    BY DEF OfferDesktop
  <2> QED
    BY <1>1, <2>1, <2>2, <2>3, BecomeType DEF Linked
<1>4. /\ wire'[p] = wire[p]
      /\ alive[q] => wire'[q] = Append(wire[q], m)
      /\ ~alive[q] => wire'[q] = wire[q]
  BY <1>1, <1>2, SendOne DEF OfferDesktop
<1>5. Under(wire'[q]) \subseteq Under(wire[q]) \cup {m}
      /\ (alive[q] => Under(wire'[q]) = Under(wire[q]) \cup {m})
  BY <1>2, <1>4, Spoken DEF OfferDesktop
<1>6. /\ desk[p].id # id /\ desk[q].id # id
      /\ \A n \in Under(wire[p]) \cup Under(wire[q]) : n.id # id /\ n.id # 0
      /\ desk[p].id = 0
  <2>1. \A n \in Under(wire[p]) \cup Under(wire[q]) : n.id # 0
    BY BothEnds, MessageKinds
  <2> QED
    BY <1>1, <1>3, <2>1, IdleIsDesk DEF OfferDesktop, Fresh, Under
<1> HIDE DEF q, m
<1>7. Dead(p)' /\ Dead(q)' /\ Counting(p)' /\ Counting(q)'
  BY <1>1, <1>3, <1>4 DEF PeerInv, Dead, Counting, OfferDesktop, MayAct
<1>8. Ordered(p)' /\ Ordered(q)'
  <2>1. CASE alive[q]
    BY <1>1, <1>2, <1>4, <1>6, <2>1, OrderedAppend DEF PeerInv, Ordered
  <2>2. CASE ~alive[q]
    BY <1>1, <1>4, <2>2 DEF PeerInv, Ordered
  <2> QED
    BY <2>1, <2>2
<1>9. Meant(p, q)'
  BY <1>1, <1>2, <1>3, <1>4, <1>5, <1>6 DEF PeerInv, Meant, Means, Holds
<1>10. Meant(q, p)'
  BY <1>1, <1>2, <1>3, <1>4, <1>5, <1>6 DEF PeerInv, Meant, Means, Holds
<1>11. Counted(p, q)' /\ Counted(q, p)'
  BY <1>1, <1>3, <1>6 DEF PeerInv, Counted, Holds
<1>12. Granted(p, q)' /\ Granted(q, p)'
  BY <1>1, <1>3, <1>6 DEF PeerInv, Granted
<1>13. Linked' => Matched(p, q)' /\ Matched(q, p)'
  <2> SUFFICES ASSUME Linked PROVE Matched(p, q)' /\ Matched(q, p)'
    BY <1>3 DEF Linked
  <2>1. alive[q] /\ Matched(q, p)
    BY <1>1 DEF PeerInv, Linked
  <2>2. Matched(p, q)'
    BY <1>3, <1>5, <2>1 DEF Matched, m
  <2>3. Matched(q, p)'
    BY <1>1, <1>3, <1>4, <1>5, <2>1 DEF Matched, Holds
  <2> QED
    BY <2>2, <2>3
<1> QED
  BY <1>7, <1>8, <1>9, <1>10, <1>11, <1>12, <1>13 DEF PeerInv, q

\* The user answers the offer before them: a view begins, or the slot is free.
LEMMA AnswerDesktopKeeps ==
    ASSUME DeskInv, NEW p \in Peers, NEW b \in BOOLEAN, AnswerDesktop(p, b)
    PROVE  PeerInv(p, Peer(p))' /\ PeerInv(Peer(p), p)'
<1> DEFINE q == Peer(p)
           id == desk[p].id
           m == Answer(id, b)
<1>1. /\ TypeOK /\ PeerInv(p, q) /\ PeerInv(q, p) /\ q \in Peers /\ q # p /\ Peers = {p, q}
      /\ desk[p] \in Desks /\ desk[q] \in Desks
      /\ Under(wire[p]) \subseteq Messages /\ Under(wire[q]) \subseteq Messages
  BY BothEnds
<1>2. /\ desk[p].kind = "incoming" /\ id \in Ids /\ id # 0 /\ alive[p]
      /\ m \in Messages /\ m.type = "answer" /\ m.id = id /\ m.flag = b
  BY <1>1, DeskKinds, IdsAssumption DEF AnswerDesktop, MayAct, Messages, Answer
<1>3. /\ b => desk'[p] = [desk[p] EXCEPT !.kind = "viewing"] /\ sequence'[p] = sequence[p]
      /\ ~b => desk'[p] = Idle
      /\ desk'[q] = desk[q] /\ sequence'[q] = sequence[q] /\ UNCHANGED <<alive, lastInput>>
      /\ Linked' = Linked
  <2>1. [desk[p] EXCEPT !.kind = "viewing"] \in Desks
    BY <1>1, <1>2 DEF Desks, Idle
  <2>2. [desk[p] EXCEPT !.kind = "viewing"].kind # "idle"
    BY <1>1 DEF Desks, Idle
  <2> QED
    BY <1>1, <2>1, <2>2, BecomeType, IdleIsDesk DEF AnswerDesktop, Ended, Linked
<1>4. /\ b => desk'[p].kind = "viewing" /\ desk'[p].id = id /\ desk'[p].control = desk[p].control
      /\ ~b => desk'[p].kind = "idle" /\ desk'[p].id = 0
  BY <1>1, <1>3 DEF Desks, Idle
<1>5. /\ wire'[p] = wire[p]
      /\ alive[q] => /\ wire'[q] = Append(wire[q], m)
                     /\ Under(wire'[q]) = Under(wire[q]) \cup {m}
      /\ ~alive[q] => wire'[q] = wire[q]
  BY <1>2, Spoken DEF AnswerDesktop
<1>6. \A n \in Under(wire[p]) \cup Under(wire[q]) : n.id # 0
  BY <1>1, MessageKinds
<1>7. Under(wire'[q]) \subseteq Under(wire[q]) \cup {m}
  BY <1>5
<1> HIDE DEF q, m
<1>8. Dead(p)' /\ Dead(q)' /\ Counting(p)' /\ Counting(q)'
  BY <1>1, <1>2, <1>3, <1>4, <1>5 DEF PeerInv, Dead, Counting
<1>9. Ordered(p)' /\ Ordered(q)'
  <2>1. CASE alive[q]
    BY <1>1, <1>2, <1>5, <2>1, OrderedAppend DEF PeerInv, Ordered
  <2>2. CASE ~alive[q]
    BY <1>1, <1>5, <2>2 DEF PeerInv, Ordered
  <2> QED
    BY <2>1, <2>2
<1>10. Meant(p, q)'
  BY <1>1, <1>2, <1>3, <1>4, <1>5, <1>6, <1>7 DEF PeerInv, Meant, Means, Holds
<1>11. Meant(q, p)'
  <2>1. \A i, c : Desk("outgoing", i, c) # desk[p]
    BY <1>2 DEF Desk
  <2> QED
    BY <1>1, <1>2, <1>3, <1>4, <1>5, <1>6, <1>7, <2>1 DEF PeerInv, Meant, Means, Holds
<1>12. ~Holds(q, "sharing", id)
  <2> SUFFICES ASSUME Holds(q, "sharing", id) PROVE FALSE
    OBVIOUS
  <2>1. Linked
    BY <1>1, <1>2 DEF PeerInv, Dead, Linked, Holds, Idle
  <2>2. Stop(id) \in Under(wire[q])
    BY <1>1, <1>2, <2>1 DEF PeerInv, Matched, Holds
  <2>3. Stop(id).type = "stop" /\ Stop(id).id = id
    BY DEF Stop
  <2> QED
    BY <1>1, <2>2, <2>3 DEF PeerInv, Meant, Means
<1>13. Counted(p, q)' /\ Counted(q, p)'
  BY <1>1, <1>3, <1>4, <1>12 DEF PeerInv, Counted, Holds
<1>14. Granted(p, q)' /\ Granted(q, p)'
  BY <1>1, <1>2, <1>3, <1>4, <1>5 DEF PeerInv, Granted
<1>15. Linked' => Matched(p, q)' /\ Matched(q, p)'
  <2> SUFFICES ASSUME Linked PROVE Matched(p, q)' /\ Matched(q, p)'
    BY <1>3 DEF Linked
  <2>1. alive[q] /\ Matched(p, q) /\ Matched(q, p)
    BY <1>1 DEF PeerInv, Linked
  <2>2. Matched(p, q)'
    BY <1>2, <1>3, <1>4, <1>5, <2>1 DEF Matched, Holds, m
  <2>3. Matched(q, p)'
    BY <1>1, <1>2, <1>3, <1>4, <1>5, <2>1 DEF Matched, Holds, m
  <2> QED
    BY <2>2, <2>3
<1> QED
  BY <1>8, <1>9, <1>10, <1>11, <1>13, <1>14, <1>15 DEF PeerInv, q

\* The sharer changes who controls: its last word is the permission it sends.
LEMMA SetPermissionKeeps ==
    ASSUME DeskInv, NEW p \in Peers, NEW b \in BOOLEAN, SetPermission(p, b)
    PROVE  PeerInv(p, Peer(p))' /\ PeerInv(Peer(p), p)'
<1> DEFINE q == Peer(p)
           id == desk[p].id
           m == Permission(id, b)
<1>1. /\ TypeOK /\ PeerInv(p, q) /\ PeerInv(q, p) /\ q \in Peers /\ q # p /\ Peers = {p, q}
      /\ desk[p] \in Desks /\ desk[q] \in Desks
      /\ Under(wire[p]) \subseteq Messages /\ Under(wire[q]) \subseteq Messages
  BY BothEnds
<1>2. /\ desk[p].kind = "sharing" /\ id \in Ids /\ id # 0 /\ alive[p]
      /\ m \in Messages /\ m.type = "permission" /\ m.id = id
  BY <1>1, DeskKinds, IdsAssumption DEF SetPermission, MayAct, Messages, Permission
<1>3. /\ desk'[p] = [desk[p] EXCEPT !.control = b] /\ desk'[q] = desk[q]
      /\ UNCHANGED <<alive, lastInput, sequence>> /\ Linked' = Linked
  BY <1>1, <1>2 DEF SetPermission, Become, TypeOK, Desks, Idle, Linked
<1>4. desk'[p].kind = "sharing" /\ desk'[p].id = id /\ desk'[p].control = b
  BY <1>1, <1>2, <1>3 DEF Desks, Idle
<1>5. /\ wire'[p] = wire[p]
      /\ alive[q] => /\ wire'[q] = Append(wire[q], m)
                     /\ Under(wire'[q]) = Under(wire[q]) \cup {m}
      /\ ~alive[q] => wire'[q] = wire[q]
  BY <1>2, Spoken DEF SetPermission
<1>6. \A i, c : Desk("outgoing", i, c) # desk[p] /\ Desk("outgoing", i, c) # desk'[p]
  BY <1>2, <1>4 DEF Desk
<1> HIDE DEF q, m
<1>7. Dead(p)' /\ Dead(q)' /\ Counting(p)' /\ Counting(q)'
  BY <1>1, <1>2, <1>3, <1>4, <1>5 DEF PeerInv, Dead, Counting
<1>8. Ordered(p)' /\ Ordered(q)'
  <2>1. CASE alive[q]
    BY <1>1, <1>2, <1>5, <2>1, OrderedAppend DEF PeerInv, Ordered
  <2>2. CASE ~alive[q]
    BY <1>1, <1>5, <2>2 DEF PeerInv, Ordered
  <2> QED
    BY <2>1, <2>2
<1>9. Under(wire'[q]) \subseteq Under(wire[q]) \cup {m}
  BY <1>5
<1>10. Meant(p, q)'
  BY <1>1, <1>2, <1>3, <1>4, <1>5, <1>9 DEF PeerInv, Meant, Means, Holds
<1>11. Meant(q, p)'
  BY <1>1, <1>2, <1>3, <1>4, <1>5, <1>6, <1>9 DEF PeerInv, Meant, Means, Holds
<1>12. Counted(p, q)' /\ Counted(q, p)'
  BY <1>1, <1>2, <1>3, <1>4 DEF PeerInv, Counted, Holds
<1>13. Granted(p, q)'
  BY <1>4 DEF Granted
<1>14. Granted(q, p)'
  <2>1. CASE ~alive[q]
    BY <1>1, <1>3, <2>1 DEF PeerInv, Dead, Granted, Idle
  <2>2. CASE alive[q]
    <3> SUFFICES ASSUME desk[q].id = id
                 PROVE  Ends(wire'[q], Permission(id, b), Permission(id, ~b),
                             desk[q].control # b)
      BY <1>3, <1>4 DEF Granted
    <3>1. m # Permission(id, ~b) /\ m = Permission(id, b)
      BY DEF m, Permission
    <3>2. wire[q] \in Seq(Messages)
      BY <1>1, WireIsSeq
    <3> DEFINE n == Permission(id, ~b)
               r == desk[q].control # b
    <3> HIDE DEF n, r
    <3>3. Ends(Append(wire[q], m), m, n, r)
      BY <1>2, <3>1, <3>2, EndsAppend DEF n
    <3> QED
      BY <1>5, <2>2, <3>1, <3>3 DEF n, r
  <2> QED
    BY <2>1, <2>2
<1>15. Linked' => Matched(p, q)' /\ Matched(q, p)'
  <2> SUFFICES ASSUME Linked PROVE Matched(p, q)' /\ Matched(q, p)'
    BY <1>3 DEF Linked
  <2>1. alive[q] /\ Matched(p, q) /\ Matched(q, p)
    BY <1>1 DEF PeerInv, Linked
  <2>2. Matched(p, q)'
    BY <1>2, <1>3, <1>4, <1>5, <2>1 DEF Matched, Holds, m
  <2>3. Matched(q, p)'
    BY <1>1, <1>2, <1>3, <1>4, <1>5, <2>1 DEF Matched, Holds, m
  <2> QED
    BY <2>2, <2>3
<1> QED
  BY <1>7, <1>8, <1>10, <1>11, <1>12, <1>13, <1>14, <1>15 DEF PeerInv, q

\* A stop follows everything its sender has said of the session it ends.
LEMMA StopDesktopKeeps ==
    ASSUME DeskInv, NEW p \in Peers, StopDesktop(p)
    PROVE  PeerInv(p, Peer(p))' /\ PeerInv(Peer(p), p)'
<1> DEFINE q == Peer(p)
           id == desk[p].id
           m == Stop(id)
<1>1. /\ TypeOK /\ PeerInv(p, q) /\ PeerInv(q, p) /\ q \in Peers /\ q # p /\ Peers = {p, q}
      /\ desk[p] \in Desks /\ desk[q] \in Desks
      /\ Under(wire[p]) \subseteq Messages /\ Under(wire[q]) \subseteq Messages
  BY BothEnds
<1>2. /\ desk[p].kind # "idle" /\ id \in Ids /\ id # 0 /\ alive[p]
      /\ m \in Messages /\ m.type = "stop" /\ m.id = id
  BY <1>1, DeskKinds, IdsAssumption DEF StopDesktop, MayAct, Messages, Stop
<1>3. /\ desk'[p] = Idle /\ desk'[p].kind = "idle" /\ desk'[p].id = 0 /\ desk'[q] = desk[q]
      /\ lastInput'[p] = 0 /\ lastInput'[q] = lastInput[q] /\ sequence'[q] = sequence[q]
      /\ UNCHANGED alive /\ Linked' = Linked
  BY <1>1, BecomeType, IdleIsDesk, ClearType DEF StopDesktop, Ended, Linked
<1>4. /\ wire'[p] = wire[p]
      /\ alive[q] => /\ wire'[q] = Append(wire[q], m)
                     /\ Under(wire'[q]) = Under(wire[q]) \cup {m}
      /\ ~alive[q] => wire'[q] = wire[q]
  BY <1>2, Spoken DEF StopDesktop
<1>5. \A n \in Under(wire[p]) \cup Under(wire[q]) : n.id # 0
  BY <1>1, MessageKinds
<1> HIDE DEF q, m
<1>6. Dead(p)' /\ Dead(q)' /\ Counting(p)' /\ Counting(q)'
  BY <1>1, <1>2, <1>3, <1>4 DEF PeerInv, Dead, Counting
<1>7. Ordered(p)' /\ Ordered(q)'
  <2>1. CASE alive[q]
    BY <1>1, <1>2, <1>4, <2>1, OrderedAppend DEF PeerInv, Ordered
  <2>2. CASE ~alive[q]
    BY <1>1, <1>4, <2>2 DEF PeerInv, Ordered
  <2> QED
    BY <2>1, <2>2
<1>8. Under(wire'[q]) \subseteq Under(wire[q]) \cup {m}
  BY <1>4
<1>9. Meant(p, q)'
  BY <1>1, <1>2, <1>3, <1>4, <1>5, <1>8 DEF PeerInv, Meant, Means, Holds
<1>10. Meant(q, p)'
  BY <1>1, <1>2, <1>3, <1>4, <1>5, <1>8 DEF PeerInv, Meant, Means, Holds, Linked, m
<1>11. Counted(p, q)' /\ Counted(q, p)' /\ Granted(p, q)' /\ Granted(q, p)'
  BY <1>3 DEF Counted, Granted, Holds
<1>12. Linked' => Matched(p, q)' /\ Matched(q, p)'
  <2> SUFFICES ASSUME Linked PROVE Matched(p, q)' /\ Matched(q, p)'
    BY <1>3 DEF Linked
  <2>1. alive[q] /\ Matched(p, q) /\ Matched(q, p)
    BY <1>1 DEF PeerInv, Linked
  <2>2. Matched(p, q)'
    BY <1>2, <1>3, <1>4, <2>1 DEF Matched, Holds, m
  <2>3. Matched(q, p)'
    BY <1>1, <1>2, <1>3, <1>4, <2>1 DEF Matched, Holds, m
  <2> QED
    BY <2>2, <2>3
<1> QED
  BY <1>6, <1>7, <1>9, <1>10, <1>11, <1>12 DEF PeerInv, q

\* The viewer's next input is newer than all it has sent in the session.
LEMMA SendInputKeeps ==
    ASSUME DeskInv, NEW p \in Peers, SendInput(p)
    PROVE  PeerInv(p, Peer(p))' /\ PeerInv(Peer(p), p)'
<1> DEFINE q == Peer(p)
           id == desk[p].id
           m == Input(id, sequence[p] + 1)
<1>1. /\ TypeOK /\ PeerInv(p, q) /\ PeerInv(q, p) /\ q \in Peers /\ q # p /\ Peers = {p, q}
      /\ desk[p] \in Desks /\ desk[q] \in Desks
      /\ Under(wire[p]) \subseteq Messages /\ Under(wire[q]) \subseteq Messages
  BY BothEnds
<1>2. /\ desk[p].kind = "viewing" /\ id \in Ids /\ id # 0 /\ alive[p]
      /\ sequence[p] \in Nat /\ sequence[p] < MaxInput
      /\ m \in Messages /\ m.type = "input" /\ m.id = id /\ m.seq = sequence[p] + 1
  <2>1. desk[p].kind = "viewing" /\ id \in Ids /\ id # 0 /\ alive[p]
    BY <1>1, DeskKinds, IdsAssumption DEF SendInput, MayAct
  <2>2. sequence[p] \in Nat /\ sequence[p] < MaxInput /\ sequence[p] + 1 \in 1 .. MaxInput
    BY <1>1, InputAssumption DEF SendInput, TypeOK
  <2> QED
    BY <2>1, <2>2 DEF Messages, Input
<1>3. /\ UNCHANGED <<alive, desk, lastInput>> /\ Linked' = Linked
      /\ sequence'[p] = sequence[p] + 1 /\ sequence'[q] = sequence[q]
  BY <1>1 DEF SendInput, TypeOK, Linked
<1>4. /\ wire'[p] = wire[p]
      /\ alive[q] => /\ wire'[q] = Append(wire[q], m)
                     /\ Under(wire'[q]) = Under(wire[q]) \cup {m}
      /\ ~alive[q] => wire'[q] = wire[q]
  BY <1>2, Spoken DEF SendInput
<1>5. lastInput[q] \in Nat /\ \A n \in Messages : n.type = "input" => n.seq \in Nat
  BY <1>1, InputAssumption DEF TypeOK, Messages
<1>6. \A n \in Under(wire[q]) : n.type = "input" /\ n.id = id => n.seq < m.seq
  BY <1>1, <1>2, <1>5 DEF PeerInv, Meant, Means
<1> HIDE DEF q, m
<1>7. Dead(p)' /\ Dead(q)' /\ Counting(p)' /\ Counting(q)'
  BY <1>1, <1>2, <1>3, <1>4 DEF PeerInv, Dead, Counting
<1>8. Ordered(p)' /\ Ordered(q)'
  <2>1. CASE alive[q]
    BY <1>1, <1>2, <1>4, <1>6, <2>1, OrderedAppend DEF PeerInv, Ordered
  <2>2. CASE ~alive[q]
    BY <1>1, <1>4, <2>2 DEF PeerInv, Ordered
  <2> QED
    BY <2>1, <2>2
<1>9. Under(wire'[q]) \subseteq Under(wire[q]) \cup {m}
  BY <1>4
<1>10. Meant(p, q)'
  BY <1>1, <1>2, <1>3, <1>4, <1>9 DEF PeerInv, Meant, Means, Holds
<1>11. Meant(q, p)'
  <2> SUFFICES ASSUME NEW n \in Under(wire'[q]) PROVE Means(q, p, n)'
    BY DEF Meant
  <2>1. CASE n \in Under(wire[q])
    <3>1. Means(q, p, n) /\ (n.type = "input" => n.seq \in Nat)
      BY <1>1, <1>5, <2>1 DEF PeerInv, Meant
    <3> QED
      BY <1>2, <1>3, <1>4, <3>1 DEF Means, Holds
  <2>2. CASE n = m
    <3>1. Holds(q, "sharing", id) => lastInput[q] <= sequence[p]
      BY <1>1, <1>2 DEF PeerInv, Counted, Holds
    <3> QED
      BY <1>2, <1>3, <1>5, <2>2, <3>1 DEF Means, Holds
  <2> QED
    BY <1>9, <2>1, <2>2
<1>12. Counted(p, q)' /\ Counted(q, p)'
  BY <1>1, <1>2, <1>3, <1>5 DEF PeerInv, Counted, Holds
<1>13. Granted(p, q)' /\ Granted(q, p)'
  BY <1>1, <1>2, <1>3, <1>4 DEF PeerInv, Granted
<1>14. Linked' => Matched(p, q)' /\ Matched(q, p)'
  <2> SUFFICES ASSUME Linked PROVE Matched(p, q)' /\ Matched(q, p)'
    BY <1>3 DEF Linked
  <2>1. alive[q] /\ Matched(p, q) /\ Matched(q, p)
    BY <1>1 DEF PeerInv, Linked
  <2>2. Matched(p, q)'
    BY <1>2, <1>3, <1>4, <2>1 DEF Matched, Holds, m
  <2>3. Matched(q, p)'
    BY <1>1, <1>2, <1>3, <1>4, <2>1 DEF Matched, Holds, m
  <2> QED
    BY <2>2, <2>3
<1> QED
  BY <1>7, <1>8, <1>10, <1>11, <1>12, <1>13, <1>14 DEF PeerInv, q

-----------------------------------------------------------------------------
(* The loops' steps                                                        *)

\* What p knows when it has taken the message m.
LEMMA Heard ==
    ASSUME DeskInv, NEW p \in Peers, wire[p] # <<>>, wire'[p] = Tail(wire[p])
    PROVE  /\ Head(wire[p]) \in Messages /\ Head(wire[p]).id # 0 /\ alive[p]
           /\ Head(wire[p]) \in Under(wire[p]) /\ Means(p, Peer(p), Head(wire[p]))
           /\ Under(wire[p]) = {Head(wire[p])} \cup Under(wire'[p])
           /\ Ordered(p)'
           /\ \A n \in Under(wire'[p]) : n.id = Head(wire[p]).id =>
                 /\ n.type # "offer"
                 /\ n.type = "input" /\ Head(wire[p]).type = "input"
                      => Head(wire[p]).seq < n.seq
<1>1. TypeOK /\ PeerInv(p, Peer(p))
  BY BothEnds
<1>2. Head(wire[p]) \in Messages /\ Head(wire[p]) \in Under(wire[p])
  BY <1>1, HeadIsMessage
<1>3. Under(wire[p]) = {Head(wire[p])} \cup Under(wire'[p])
  BY <1>1, WireIsSeq, UnderTail
<1>4. Ordered(p)' /\ \A n \in Under(wire'[p]) : n.id = Head(wire[p]).id =>
                 /\ n.type # "offer"
                 /\ n.type = "input" /\ Head(wire[p]).type = "input"
                      => Head(wire[p]).seq < n.seq
  BY <1>1, OrderedTail DEF PeerInv
<1> QED
  BY <1>1, <1>2, <1>3, <1>4, MessageKinds DEF PeerInv, Meant, Dead

\* What is under way after p has answered what it took with the message r.
LEMMA Replied ==
    ASSUME DeskInv, NEW p \in Peers, NEW r \in Messages, wire[p] # <<>>, Send(p, <<r>>, TRUE)
    PROVE  /\ wire'[p] = Tail(wire[p])
           /\ alive[Peer(p)] => /\ wire'[Peer(p)] = Append(wire[Peer(p)], r)
                                /\ Under(wire'[Peer(p)]) = Under(wire[Peer(p)]) \cup {r}
           /\ ~alive[Peer(p)] => wire'[Peer(p)] = wire[Peer(p)]
<1>1. wire[Peer(p)] \in Seq(Messages) /\ TypeOK
  BY BothEnds, WireIsSeq
<1>2. Under(Append(wire[Peer(p)], r)) = Under(wire[Peer(p)]) \cup {r}
  BY <1>1, UnderAppend
<1> QED
  BY <1>1, <1>2, SendOne

\* A peer does not share the session that is still before its peer's user.
LEMMA OfferedIsNotShared ==
    ASSUME DeskInv, NEW p \in Peers, desk[p].kind = "incoming"
    PROVE  ~Holds(Peer(p), "sharing", desk[p].id)
<1> DEFINE q == Peer(p)
           id == desk[p].id
<1> SUFFICES ASSUME Holds(q, "sharing", id) PROVE FALSE
  OBVIOUS
<1>1. /\ PeerInv(p, q) /\ PeerInv(q, p) /\ q \in Peers /\ Peers = {p, q}
  BY BothEnds
<1>2. Linked
  BY <1>1, IdleIsDesk DEF PeerInv, Dead, Linked, Holds
<1> HIDE DEF q
<1>3. Stop(id) \in Under(wire[q])
  BY <1>1, <1>2 DEF PeerInv, Matched, Holds
<1>4. Stop(id).type = "stop" /\ Stop(id).id = id
  BY DEF Stop
<1> QED
  BY <1>1, <1>3, <1>4 DEF PeerInv, Meant, Means

\* The last permission is still the last one, or has been taken.
LEMMA GrantedTail ==
    ASSUME DeskInv, NEW p \in Peers, wire[p] # <<>>, wire'[p] = Tail(wire[p]),
           NEW q, q = Peer(p), Granted(p, q), desk'[q] = desk[q],
           desk'[p].kind = desk[p].kind, desk'[p].id = desk[p].id,
           IF Holds(p, "viewing", Head(wire[p]).id) /\ Head(wire[p]).type = "permission"
           THEN desk'[p].control = Head(wire[p]).flag
           ELSE desk'[p].control = desk[p].control
    PROVE  Granted(p, q)'
<1> DEFINE id == desk[p].id
           h == Head(wire[p])
           c == desk[q].control
           m == Permission(id, c)
           n == Permission(id, ~c)
           r == desk[p].control # c
           b == desk'[p].control # c
<1> SUFFICES ASSUME desk[p].kind \in {"incoming", "viewing"},
                    desk[q].kind \in {"outgoing", "sharing"}, desk[q].id = id
             PROVE  Ends(wire'[p], m, n, b)
  BY DEF Granted
<1>1. Ends(wire[p], m, n, r)
  BY DEF Granted
<1>2. /\ wire[p] \in Seq(Messages) /\ h \in Messages /\ Means(p, q, h)
      /\ c \in BOOLEAN /\ desk[p].control \in BOOLEAN /\ desk'[p].control \in BOOLEAN
  BY BothEnds, WireIsSeq, Heard, DeskKinds, MessageKinds DEF PeerInv
<1>3. m # n
  BY <1>2 DEF Permission
<1>4. h.type # "permission" => h # m /\ h # n
  BY DEF Permission
<1>5. CASE h.type = "permission" /\ Holds(p, "viewing", h.id)
  <2>1. h = Permission(id, h.flag) /\ h.flag \in BOOLEAN
    BY <1>2, <1>5, MessageKinds DEF Holds
  <2>2. b => h = n
    BY <1>2, <1>5, <2>1
  <2> HIDE DEF m, n, r, b
  <2> QED
    BY <1>1, <1>2, <1>3, <2>2, EndsTail
<1>6. CASE ~(h.type = "permission" /\ Holds(p, "viewing", h.id))
  <2>1. h # m
    <3> SUFFICES ASSUME h = m PROVE FALSE
      OBVIOUS
    <3>1. h.type = "permission" /\ h.id = id
      BY DEF Permission
    <3>2. desk[p].kind = "incoming" /\ desk[q].kind = "outgoing"
      BY <1>6, <3>1, OfferedIsNotShared DEF Holds
    <3> QED
      BY <1>2, <3>1, <3>2 DEF Means, Holds
  <2>2. b => r
    BY <1>6
  <2> HIDE DEF m, n, r, b
  <2> QED
    BY <1>1, <1>2, <1>3, <2>1, <2>2, EndsTail
<1> QED
  BY <1>5, <1>6

\* A message that tells p nothing new about its session is only taken.
LEMMA TakeKeeps ==
    ASSUME DeskInv, NEW p \in Peers, wire[p] # <<>>, wire'[p] = Tail(wire[p]),
           wire'[Peer(p)] = wire[Peer(p)], UNCHANGED <<alive, desk, sequence>>,
           lastInput'[Peer(p)] = lastInput[Peer(p)],
           Head(wire[p]).type # "offer",
           Head(wire[p]).type = "stop" => desk[p].id # Head(wire[p]).id,
           Head(wire[p]).type = "answer" => ~Holds(p, "outgoing", Head(wire[p]).id),
           Head(wire[p]).type = "permission" => ~Holds(p, "viewing", Head(wire[p]).id),
           \/ lastInput'[p] = lastInput[p]
           \/ /\ Head(wire[p]).type = "input" /\ Holds(p, "sharing", Head(wire[p]).id)
              /\ lastInput'[p] = Head(wire[p]).seq
    PROVE  PeerInv(p, Peer(p))' /\ PeerInv(Peer(p), p)'
<1> DEFINE q == Peer(p)
           m == Head(wire[p])
<1>1. /\ TypeOK /\ PeerInv(p, q) /\ PeerInv(q, p) /\ q \in Peers /\ q # p /\ Peers = {p, q}
      /\ desk[p] \in Desks /\ desk[q] \in Desks
      /\ Under(wire[p]) \subseteq Messages /\ Under(wire[q]) \subseteq Messages
      /\ \A n \in Under(wire[p]) \cup Under(wire[q]) : n.id # 0
      /\ lastInput[p] \in Nat /\ \A n \in Messages : n.type = "input" => n.seq \in Nat \ {0}
  BY BothEnds, MessageKinds, InputAssumption DEF TypeOK, Messages
<1>2. /\ m \in Messages /\ alive[p] /\ m \in Under(wire[p]) /\ Means(p, q, m)
      /\ Under(wire[p]) = {m} \cup Under(wire'[p]) /\ Ordered(p)'
      /\ \A n \in Under(wire'[p]) : n.id = m.id =>
            /\ n.type # "offer"
            /\ n.type = "input" /\ m.type = "input" => m.seq < n.seq
  BY Heard
<1>3. Linked' = Linked
  BY DEF Linked
<1>4. Granted(p, q)'
  BY <1>1, <1>2, GrantedTail DEF PeerInv
<1>5. Granted(q, p)'
  BY <1>1 DEF PeerInv, Granted
<1> HIDE DEF q, m
<1>6. Dead(p)' /\ Dead(q)' /\ Counting(p)' /\ Counting(q)' /\ Ordered(q)'
  BY <1>1, <1>2 DEF PeerInv, Dead, Counting, Ordered, Holds, q, m
<1>7. Meant(p, q)'
  <2> SUFFICES ASSUME NEW n \in Under(wire'[p]) PROVE Means(p, q, n)'
    BY DEF Meant
  <2>1. Means(p, q, n) /\ n \in Messages /\ n.id # 0
    BY <1>1, <1>2 DEF PeerInv, Meant
  <2>2. Stop(n.id) = m => desk[p].id # n.id /\ n.type # "offer"
    BY <1>2 DEF Stop, m
  <2>3. lastInput'[p] # lastInput[p] =>
            m.type = "input" /\ Holds(p, "sharing", m.id) /\ lastInput'[p] = m.seq
    BY DEF m
  <2> QED
    BY <1>1, <1>2, <1>3, <2>1, <2>2, <2>3 DEF Means, Holds, q
<1>8. Meant(q, p)'
  BY <1>1, <1>2, <1>3 DEF PeerInv, Meant, Means, Holds, q
<1>9. Counted(p, q)' /\ Counted(q, p)'
  BY <1>1, <1>2 DEF PeerInv, Counted, Means, Holds, q, m
<1>10. Linked' => Matched(p, q)' /\ Matched(q, p)'
  <2> SUFFICES ASSUME Linked PROVE Matched(p, q)' /\ Matched(q, p)'
    BY <1>3
  <2>1. Matched(p, q) /\ Matched(q, p)
    BY <1>1 DEF PeerInv
  <2>2. /\ m = Stop(desk[p].id) => m.type = "stop" /\ m.id = desk[p].id
        /\ \A i, b : m = Answer(i, b) => m.type = "answer" /\ m.id = i
        /\ \A i, b : m = Offer(i, b) => m.type = "offer"
    BY DEF Stop, Answer, Offer
  <2>3. Matched(p, q)'
    BY <1>2, <2>1, <2>2 DEF Matched, Holds, q, m
  <2>4. Matched(q, p)'
    BY <1>2, <2>1, <2>2 DEF Matched, Holds, q, m
  <2> QED
    BY <2>3, <2>4
<1> QED
  BY <1>2, <1>4, <1>5, <1>6, <1>7, <1>8, <1>9, <1>10 DEF PeerInv, q

\* A permission changes who may control, and nothing else.
LEMMA PermissionKeeps ==
    ASSUME DeskInv, NEW p \in Peers, wire[p] # <<>>, wire'[p] = Tail(wire[p]),
           wire'[Peer(p)] = wire[Peer(p)], UNCHANGED alive,
           desk'[Peer(p)] = desk[Peer(p)], sequence'[Peer(p)] = sequence[Peer(p)],
           lastInput'[Peer(p)] = lastInput[Peer(p)],
           lastInput'[p] = lastInput[p], sequence'[p] = sequence[p],
           Head(wire[p]).type = "permission", Holds(p, "viewing", Head(wire[p]).id),
           desk'[p] = [desk[p] EXCEPT !.control = Head(wire[p]).flag]
    PROVE  PeerInv(p, Peer(p))' /\ PeerInv(Peer(p), p)'
<1> DEFINE q == Peer(p)
           m == Head(wire[p])
<1>1. /\ TypeOK /\ PeerInv(p, q) /\ PeerInv(q, p) /\ q \in Peers /\ q # p /\ Peers = {p, q}
      /\ desk[p] \in Desks /\ desk[q] \in Desks
      /\ Under(wire[p]) \subseteq Messages /\ Under(wire[q]) \subseteq Messages
      /\ \A n \in Under(wire[p]) \cup Under(wire[q]) : n.id # 0
      /\ lastInput[p] \in Nat /\ \A n \in Messages : n.type = "input" => n.seq \in Nat \ {0}
  BY BothEnds, MessageKinds, InputAssumption DEF TypeOK, Messages
<1>2. /\ m \in Messages /\ alive[p] /\ m \in Under(wire[p]) /\ Means(p, q, m)
      /\ Under(wire[p]) = {m} \cup Under(wire'[p]) /\ Ordered(p)'
      /\ \A n \in Under(wire'[p]) : n.id = m.id =>
            /\ n.type # "offer"
            /\ n.type = "input" /\ m.type = "input" => m.seq < n.seq
  BY Heard
<1>3. Linked' = Linked
  BY DEF Linked
<1>4. /\ desk'[p].kind = "viewing" /\ desk'[p].id = m.id /\ desk'[p].control = m.flag
      /\ desk[p].kind = "viewing" /\ desk[p].id = m.id /\ m.type = "permission"
      /\ desk'[q] = desk[q] /\ sequence'[q] = sequence[q] /\ lastInput'[q] = lastInput[q]
      /\ wire'[q] = wire[q]
  BY <1>1 DEF Desks, Idle, Holds
<1>5. \A i, c : Desk("outgoing", i, c) # desk[p] /\ Desk("outgoing", i, c) # desk'[p]
  BY <1>4 DEF Desk
<1>6. Granted(p, q)'
  BY <1>1, <1>4, GrantedTail DEF PeerInv, Holds
<1> HIDE DEF q, m
<1>7. Granted(q, p)'
  BY <1>4 DEF Granted
<1>8. Dead(p)' /\ Dead(q)' /\ Counting(p)' /\ Counting(q)' /\ Ordered(q)'
  BY <1>1, <1>2, <1>4 DEF PeerInv, Dead, Counting, Ordered
<1>9. Meant(p, q)'
  <2> SUFFICES ASSUME NEW n \in Under(wire'[p]) PROVE Means(p, q, n)'
    BY DEF Meant
  <2>1. Means(p, q, n) /\ Stop(n.id) # m
    BY <1>1, <1>2, <1>4 DEF PeerInv, Meant, Stop
  <2> QED
    BY <1>1, <1>2, <1>3, <1>4, <2>1 DEF Means, Holds
<1>10. Meant(q, p)'
  BY <1>1, <1>2, <1>3, <1>4, <1>5 DEF PeerInv, Meant, Means, Holds
<1>11. Counted(p, q)' /\ Counted(q, p)'
  BY <1>1, <1>4 DEF PeerInv, Counted, Holds
<1>12. Linked' => Matched(p, q)' /\ Matched(q, p)'
  <2> SUFFICES ASSUME Linked PROVE Matched(p, q)' /\ Matched(q, p)'
    BY <1>3
  <2>1. Matched(p, q) /\ Matched(q, p) /\ alive[q]
    BY <1>1 DEF PeerInv, Linked
  <2>2. /\ \A i : m = Stop(i) => m.type = "stop" /\ m.id = i
        /\ \A i, b : m = Answer(i, b) => m.type = "answer" /\ m.id = i /\ m.flag = b
        /\ \A i, b : m = Offer(i, b) => m.type = "offer" /\ m.id = i
    BY DEF Stop, Answer, Offer
  <2>3. Matched(p, q)'
    BY <1>1, <1>2, <1>4, <2>1, <2>2 DEF Matched, Holds, Means
  <2>4. Matched(q, p)'
    <3>1. \A i, b : Offer(i, b) \in Under(wire[p]) => Offer(i, b) \in Under(wire'[p])
      BY <1>2, <1>4, <2>2
    <3>2. \A i, b : Answer(i, b) \in Under(wire[p]) =>
            Answer(i, b) \in Under(wire'[p]) \/ (m.type = "answer" /\ m.id = i /\ m.flag = b)
      BY <1>2, <2>2
    <3> QED
      BY <1>2, <1>4, <2>1, <3>1, <3>2 DEF Matched, Holds, Means
  <2> QED
    BY <2>3, <2>4
<1> QED
  BY <1>2, <1>6, <1>7, <1>8, <1>9, <1>10, <1>11, <1>12 DEF PeerInv, q

\* An answer makes the offer a session of both, or of neither.
LEMMA AnsweredKeeps ==
    ASSUME DeskInv, NEW p \in Peers, wire[p] # <<>>, wire'[p] = Tail(wire[p]),
           wire'[Peer(p)] = wire[Peer(p)], UNCHANGED alive,
           desk'[Peer(p)] = desk[Peer(p)], sequence'[Peer(p)] = sequence[Peer(p)],
           lastInput'[Peer(p)] = lastInput[Peer(p)],
           lastInput'[p] = lastInput[p],
           Head(wire[p]).type = "answer", Holds(p, "outgoing", Head(wire[p]).id),
           IF Head(wire[p]).flag
           THEN /\ desk'[p] = Desk("sharing", Head(wire[p]).id, desk[p].control)
                /\ sequence'[p] = sequence[p]
           ELSE desk'[p] = Idle
    PROVE  PeerInv(p, Peer(p))' /\ PeerInv(Peer(p), p)'
<1> DEFINE q == Peer(p)
           m == Head(wire[p])
<1>1. /\ TypeOK /\ PeerInv(p, q) /\ PeerInv(q, p) /\ q \in Peers /\ q # p /\ Peers = {p, q}
      /\ desk[p] \in Desks /\ desk[q] \in Desks
      /\ Under(wire[p]) \subseteq Messages /\ Under(wire[q]) \subseteq Messages
      /\ \A n \in Under(wire[p]) \cup Under(wire[q]) : n.id # 0
      /\ lastInput[p] \in Nat /\ \A n \in Messages : n.type = "input" => n.seq \in Nat \ {0}
  BY BothEnds, MessageKinds, InputAssumption DEF TypeOK, Messages
<1>2. /\ m \in Messages /\ alive[p] /\ m \in Under(wire[p]) /\ Means(p, q, m)
      /\ Under(wire[p]) = {m} \cup Under(wire'[p]) /\ Ordered(p)'
      /\ \A n \in Under(wire'[p]) : n.id = m.id =>
            /\ n.type # "offer"
            /\ n.type = "input" /\ m.type = "input" => m.seq < n.seq
  BY Heard
<1>3. Linked' = Linked
  BY DEF Linked
<1>4. /\ desk[p].kind = "outgoing" /\ desk[p].id = m.id /\ m.type = "answer"
      /\ desk'[q] = desk[q] /\ sequence'[q] = sequence[q] /\ lastInput'[q] = lastInput[q]
      /\ wire'[q] = wire[q]
  BY <1>1 DEF Holds
<1>5. IF m.flag
      THEN /\ desk'[p].kind = "sharing" /\ desk'[p].id = m.id
           /\ desk'[p].control = desk[p].control /\ sequence'[p] = sequence[p]
      ELSE desk'[p].kind = "idle" /\ desk'[p].id = 0
  BY DEF Desk, Idle
<1>6. lastInput'[p] = 0 /\ lastInput[p] = 0
  BY <1>1, <1>4 DEF PeerInv, Counting
<1> HIDE DEF q, m
<1>7. \A n \in Under(wire[q]) : n.type = "offer" => n.id # m.id
  BY <1>1, <1>2 DEF PeerInv, Meant, Means
<1>8. Granted(p, q)' /\ Granted(q, p)'
  BY <1>1, <1>4, <1>5 DEF PeerInv, Granted
<1>9. Dead(p)' /\ Dead(q)' /\ Counting(p)' /\ Counting(q)' /\ Ordered(q)'
  BY <1>1, <1>2, <1>4, <1>6 DEF PeerInv, Dead, Counting, Ordered
<1>10. Meant(p, q)'
  <2> SUFFICES ASSUME NEW n \in Under(wire'[p]) PROVE Means(p, q, n)'
    BY DEF Meant
  <2>1. Means(p, q, n) /\ Stop(n.id) # m /\ n \in Messages /\ n.id # 0
    BY <1>1, <1>2, <1>4 DEF PeerInv, Meant, Stop
  <2> QED
    BY <1>1, <1>2, <1>3, <1>4, <1>5, <1>6, <2>1 DEF Means, Holds
<1>11. Meant(q, p)'
  BY <1>1, <1>2, <1>3, <1>4, <1>5, <1>7 DEF PeerInv, Meant, Means, Holds
<1>12. Counted(p, q)' /\ Counted(q, p)'
  <2>1. sequence[q] \in Nat
    BY <1>1, InputAssumption DEF TypeOK
  <2> QED
    BY <1>1, <1>4, <1>5, <1>6, <2>1 DEF PeerInv, Counted, Holds
<1>13. Linked' => Matched(p, q)' /\ Matched(q, p)'
  <2> SUFFICES ASSUME Linked PROVE Matched(p, q)' /\ Matched(q, p)'
    BY <1>3
  <2>1. Matched(p, q) /\ Matched(q, p) /\ alive[q]
    BY <1>1 DEF PeerInv, Linked
  <2>2. /\ \A i : m = Stop(i) => m.type = "stop" /\ m.id = i
        /\ \A i, b : m = Answer(i, b) => m.type = "answer" /\ m.id = i /\ m.flag = b
        /\ \A i, b : m = Offer(i, b) => m.type = "offer" /\ m.id = i
    BY DEF Stop, Answer, Offer
  <2>3. Matched(p, q)'
    BY <1>1, <1>2, <1>4, <1>5, <2>1, <2>2 DEF Matched, Holds, Means
  <2>4. Matched(q, p)'
    <3>1. \A i, b : Offer(i, b) \in Under(wire[p]) => Offer(i, b) \in Under(wire'[p])
      BY <1>2, <1>4, <1>5, <2>2
    <3>2. \A i, b : Answer(i, b) \in Under(wire[p]) =>
            Answer(i, b) \in Under(wire'[p]) \/ (m.type = "answer" /\ m.id = i /\ m.flag = b)
      BY <1>2, <2>2
    <3> QED
      BY <1>2, <1>4, <1>5, <2>1, <3>1, <3>2 DEF Matched, Holds, Means
  <2> QED
    BY <2>3, <2>4
<1> QED
  BY <1>2, <1>8, <1>9, <1>10, <1>11, <1>12, <1>13 DEF PeerInv, q

\* A stop ends what its sender has already ended.
LEMMA StoppedKeeps ==
    ASSUME DeskInv, NEW p \in Peers, wire[p] # <<>>, wire'[p] = Tail(wire[p]),
           wire'[Peer(p)] = wire[Peer(p)], UNCHANGED alive,
           desk'[Peer(p)] = desk[Peer(p)], sequence'[Peer(p)] = sequence[Peer(p)],
           lastInput'[Peer(p)] = lastInput[Peer(p)],
           Head(wire[p]).type = "stop", desk[p].id = Head(wire[p]).id,
           desk'[p] = Idle, lastInput'[p] = 0
    PROVE  PeerInv(p, Peer(p))' /\ PeerInv(Peer(p), p)'
<1> DEFINE q == Peer(p)
           m == Head(wire[p])
<1>1. /\ TypeOK /\ PeerInv(p, q) /\ PeerInv(q, p) /\ q \in Peers /\ q # p /\ Peers = {p, q}
      /\ desk[p] \in Desks /\ desk[q] \in Desks
      /\ Under(wire[p]) \subseteq Messages /\ Under(wire[q]) \subseteq Messages
      /\ \A n \in Under(wire[p]) \cup Under(wire[q]) : n.id # 0
      /\ lastInput[p] \in Nat /\ \A n \in Messages : n.type = "input" => n.seq \in Nat \ {0}
  BY BothEnds, MessageKinds, InputAssumption DEF TypeOK, Messages
<1>2. /\ m \in Messages /\ alive[p] /\ m \in Under(wire[p]) /\ Means(p, q, m)
      /\ Under(wire[p]) = {m} \cup Under(wire'[p]) /\ Ordered(p)'
      /\ \A n \in Under(wire'[p]) : n.id = m.id =>
            /\ n.type # "offer"
            /\ n.type = "input" /\ m.type = "input" => m.seq < n.seq
  BY Heard
<1>3. Linked' = Linked
  BY DEF Linked
<1>4. /\ desk[p].id = m.id /\ m.type = "stop" /\ desk[q].id # m.id
      /\ desk'[p].kind = "idle" /\ desk'[p].id = 0 /\ lastInput'[p] = 0
      /\ desk'[q] = desk[q] /\ sequence'[q] = sequence[q] /\ lastInput'[q] = lastInput[q]
      /\ wire'[q] = wire[q]
  BY <1>1, <1>2, IdleIsDesk DEF Means
<1> HIDE DEF q, m
<1>5. Granted(p, q)' /\ Granted(q, p)' /\ Counted(p, q)' /\ Counted(q, p)'
  BY <1>1, <1>4 DEF PeerInv, Granted, Counted, Holds
<1>6. Dead(p)' /\ Dead(q)' /\ Counting(p)' /\ Counting(q)' /\ Ordered(q)'
  BY <1>1, <1>2, <1>4 DEF PeerInv, Dead, Counting, Ordered
<1>7. Meant(p, q)'
  <2> SUFFICES ASSUME NEW n \in Under(wire'[p]) PROVE Means(p, q, n)'
    BY DEF Meant
  <2>1. Means(p, q, n) /\ n.id # 0 /\ (n.type = "offer" => Stop(n.id) # m)
    BY <1>1, <1>2, <1>4 DEF PeerInv, Meant, Stop
  <2> QED
    BY <1>1, <1>2, <1>3, <1>4, <2>1 DEF Means, Holds
<1>8. Meant(q, p)'
  BY <1>1, <1>2, <1>3, <1>4 DEF PeerInv, Meant, Means, Holds
<1>9. Linked' => Matched(p, q)' /\ Matched(q, p)'
  <2> SUFFICES ASSUME Linked PROVE Matched(p, q)' /\ Matched(q, p)'
    BY <1>3
  <2>1. Matched(p, q) /\ Matched(q, p) /\ alive[q]
    BY <1>1 DEF PeerInv, Linked
  <2>2. /\ \A i : m = Stop(i) => m.type = "stop" /\ m.id = i
        /\ \A i, b : m = Answer(i, b) => m.type = "answer" /\ m.id = i /\ m.flag = b
        /\ \A i, b : m = Offer(i, b) => m.type = "offer" /\ m.id = i
    BY DEF Stop, Answer, Offer
  <2>3. Matched(p, q)'
    BY <1>1, <1>2, <1>4, <2>1, <2>2 DEF Matched, Holds, Means
  <2>4. Matched(q, p)'
    <3>1. \A i, b : Offer(i, b) \in Under(wire[p]) => Offer(i, b) \in Under(wire'[p])
      BY <1>2, <1>4, <2>2
    <3>2. \A i, b : Answer(i, b) \in Under(wire[p]) =>
            Answer(i, b) \in Under(wire'[p]) \/ (m.type = "answer" /\ m.id = i /\ m.flag = b)
      BY <1>2, <2>2
    <3> QED
      BY <1>2, <1>4, <2>1, <3>1, <3>2 DEF Matched, Holds, Means
  <2> QED
    BY <2>3, <2>4
<1> QED
  BY <1>2, <1>5, <1>6, <1>7, <1>8, <1>9 DEF PeerInv, q

\* An offer is taken up by an idle peer, and by one whose own offer yields to it.
LEMMA OfferTakenKeeps ==
    ASSUME DeskInv, NEW p \in Peers, wire[p] # <<>>, Head(wire[p]).type = "offer",
           UNCHANGED <<alive, lastInput>>,
           \/ desk[p].kind = "idle" /\ Send(p, <<>>, TRUE)
           \/ desk[p].kind = "outgoing" /\ Send(p, <<Stop(desk[p].id)>>, TRUE),
           desk'[p] = Desk("incoming", Head(wire[p]).id, Head(wire[p]).flag),
           desk'[Peer(p)] = desk[Peer(p)], UNCHANGED sequence
    PROVE  PeerInv(p, Peer(p))' /\ PeerInv(Peer(p), p)'
<1> DEFINE q == Peer(p)
           m == Head(wire[p])
<1>1. /\ TypeOK /\ PeerInv(p, q) /\ PeerInv(q, p) /\ q \in Peers /\ q # p /\ Peers = {p, q}
      /\ desk[p] \in Desks /\ desk[q] \in Desks
      /\ Under(wire[p]) \subseteq Messages /\ Under(wire[q]) \subseteq Messages
      /\ \A n \in Under(wire[p]) \cup Under(wire[q]) : n.id # 0
      /\ lastInput[p] \in Nat /\ \A n \in Messages : n.type = "input" => n.seq \in Nat \ {0}
  BY BothEnds, MessageKinds, InputAssumption DEF TypeOK, Messages
<1> DEFINE id == desk[p].id
           r == Stop(id)
<1>2. r.type = "stop" /\ r.id = id /\ (desk[p].kind = "outgoing" => r \in Messages)
  BY <1>1, DeskKinds DEF Stop, Messages
<1>3. /\ wire'[p] = Tail(wire[p])
      /\ Under(wire[q]) \subseteq Under(wire'[q])
      /\ Under(wire'[q]) \subseteq Under(wire[q]) \cup {r}
      /\ desk[p].kind = "outgoing" /\ alive[q] => r \in Under(wire'[q])
      /\ desk[p].kind = "idle" => Under(wire'[q]) = Under(wire[q])
      /\ \/ wire'[q] = wire[q]
         \/ desk[p].kind = "outgoing" /\ alive[q] /\ wire'[q] = Append(wire[q], r)
  <2>1. CASE desk[p].kind = "idle"
    BY <1>1, <2>1, SendNothing
  <2>2. CASE desk[p].kind = "outgoing"
    BY <1>1, <1>2, <2>2, Replied
  <2> QED
    BY <2>1, <2>2
<1>4. /\ m \in Messages /\ alive[p] /\ m \in Under(wire[p]) /\ Means(p, q, m)
      /\ Under(wire[p]) = {m} \cup Under(wire'[p]) /\ Ordered(p)'
      /\ \A n \in Under(wire'[p]) : n.id = m.id =>
            /\ n.type # "offer"
            /\ n.type = "input" /\ m.type = "input" => m.seq < n.seq
  BY <1>3, Heard
<1>5. /\ m.type = "offer" /\ desk'[p] = Desk("incoming", m.id, m.flag)
      /\ desk'[p].kind = "incoming" /\ desk'[p].id = m.id /\ desk'[p].control = m.flag
      /\ desk'[q] = desk[q] /\ UNCHANGED <<sequence, lastInput, alive>> /\ Linked' = Linked
      /\ desk[p].kind \in {"idle", "outgoing"} /\ (desk[p].kind = "idle" => desk[p].id = 0)
  <2>1. desk[p].kind = "idle" => desk[p].id = 0
    BY <1>1, DeskKinds, IdleIsDesk
  <2>2. /\ m.type = "offer" /\ desk'[p] = Desk("incoming", m.id, m.flag) /\ desk'[q] = desk[q]
        /\ UNCHANGED <<sequence, lastInput, alive>> /\ desk[p].kind \in {"idle", "outgoing"}
    OBVIOUS
  <2>3. /\ desk'[p].kind = "incoming" /\ desk'[p].id = m.id /\ desk'[p].control = m.flag
    BY <2>2 DEF Desk
  <2> QED
    BY <2>1, <2>2, <2>3 DEF Linked
<1>6. /\ id # m.id /\ \A n \in Under(wire[q]) : n.id # m.id
      /\ desk[q].id = m.id => desk[q] = Desk("outgoing", m.id, m.flag)
      /\ Linked => desk[q].id = m.id \/ Stop(m.id) \in Under(wire[p])
  BY <1>4, <1>5 DEF Means
<1>7. \A i, c : Desk("outgoing", i, c) # desk'[p]
  BY <1>5 DEF Desk
<1> HIDE DEF q, m, r
<1>8. Ordered(q)'
  BY <1>1, <1>2, <1>3, OrderedAppend DEF PeerInv, Ordered
<1>9. Dead(p)' /\ Dead(q)' /\ Counting(p)' /\ Counting(q)'
  BY <1>1, <1>3, <1>4, <1>5 DEF PeerInv, Dead, Counting
<1>10. Counted(p, q)' /\ Counted(q, p)' /\ Granted(q, p)'
  BY <1>5 DEF Counted, Granted, Holds
<1>11. Granted(p, q)'
  <2> SUFFICES ASSUME desk[q].kind \in {"outgoing", "sharing"}, desk[q].id = m.id
               PROVE  Ends(wire'[p], Permission(m.id, desk[q].control),
                           Permission(m.id, ~desk[q].control), m.flag # desk[q].control)
    BY <1>5 DEF Granted
  <2>1. desk[q].kind = "outgoing" /\ desk[q].control = m.flag
    BY <1>6 DEF Desk
  <2>2. \A n \in Under(wire'[p]) : ~(n.type = "permission" /\ n.id = m.id)
    BY <1>1, <1>4, <2>1 DEF PeerInv, Meant, Means, Holds
  <2>3. \A i, b : Permission(i, b).type = "permission" /\ Permission(i, b).id = i
    BY DEF Permission
  <2> DEFINE no == Permission(m.id, ~desk[q].control)
             yes == Permission(m.id, desk[q].control)
  <2>4. no.type = "permission" /\ no.id = m.id
    BY <2>3
  <2> HIDE DEF no, yes
  <2>5. \A i \in 1 .. Len(wire'[p]) : wire'[p][i] # no
    BY <2>2, <2>4 DEF Under
  <2>6. Ends(wire'[p], yes, no, FALSE)
    BY <2>5 DEF Ends
  <2> QED
    BY <2>1, <2>6 DEF no, yes, Ends
<1>12. Meant(p, q)'
  <2> SUFFICES ASSUME NEW n \in Under(wire'[p]) PROVE Means(p, q, n)'
    BY DEF Meant
  <2>1. Means(p, q, n) /\ (n.type = "offer" => Stop(n.id) # m)
    BY <1>1, <1>4, <1>5 DEF PeerInv, Meant, Stop
  <2> QED
    BY <1>1, <1>2, <1>3, <1>4, <1>5, <2>1 DEF Means, Holds
<1>13. Meant(q, p)'
  <2> SUFFICES ASSUME NEW n \in Under(wire'[q]) PROVE Means(q, p, n)'
    BY DEF Meant
  <2>1. CASE n \in Under(wire[q])
    <3>1. Means(q, p, n) /\ n.id # m.id
      BY <1>1, <1>6, <2>1 DEF PeerInv, Meant
    <3>2. n.id # 0 /\ n.id # desk'[p].id
      BY <1>1, <1>5, <2>1, <3>1
    <3>3. Linked /\ desk[p].id = n.id => Stop(n.id) \in Under(wire'[q])
      BY <1>1, <1>3, <1>5, <3>2 DEF Linked, r
    <3>4. \A k \in Under(wire'[p]) : k \in Under(wire[p])
      BY <1>4
    <3>5. n.type = "offer" => Means(q, p, n)'
      BY <1>3, <1>5, <3>1, <3>2, <3>3, <3>4 DEF Means
    <3>6. n.type = "answer" => Means(q, p, n)'
      BY <1>3, <1>5, <3>1, <3>2 DEF Means, Holds
    <3>7. n.type \notin {"offer", "answer"} => Means(q, p, n)'
      BY <1>5, <3>1, <3>2 DEF Means, Holds
    <3> QED
      BY <3>5, <3>6, <3>7
  <2>2. CASE n = r
    BY <1>2, <1>5, <1>6, <2>2 DEF Means
  <2> QED
    BY <1>3, <2>1, <2>2
<1>14. Linked' => Matched(p, q)' /\ Matched(q, p)'
  <2> SUFFICES ASSUME Linked PROVE Matched(p, q)' /\ Matched(q, p)'
    BY <1>5
  <2>1. Matched(q, p) /\ alive[q]
    BY <1>1 DEF PeerInv, Linked
  <2>2. /\ \A i : Stop(i) # m
        /\ \A i, b : Answer(i, b) # m
        /\ \A i, b : Offer(i, b) = m => i = m.id
    BY <1>5 DEF Stop, Answer, Offer
  <2>3. Matched(p, q)'
    <3>1. Stop(m.id) \in Under(wire[p]) => Stop(m.id) \in Under(wire'[p])
      BY <1>4, <2>2
    <3>2. desk[q].id = m.id => Holds(q, "outgoing", m.id)
      BY <1>6 DEF Holds, Desk
    <3> QED
      BY <1>5, <1>6, <3>1, <3>2 DEF Matched, Holds
  <2>4. Matched(q, p)'
    <3>1. \A i, b : Offer(i, b) \in Under(wire[p]) => Offer(i, b) \in Under(wire'[p]) \/ i = m.id
      BY <1>4, <2>2
    <3>2. \A i, b : Answer(i, b) \in Under(wire[p]) => Answer(i, b) \in Under(wire'[p])
      BY <1>4, <2>2
    <3>3. desk[q].kind # "idle" => desk[q].id # 0
      BY <1>1, DeskKinds
    <3> QED
      BY <1>3, <1>5, <2>1, <3>1, <3>2, <3>3 DEF Matched, Holds, r
  <2> QED
    BY <2>3, <2>4
<1> QED
  BY <1>4, <1>8, <1>9, <1>10, <1>11, <1>12, <1>13, <1>14 DEF PeerInv, q

\* An offer to a busy peer comes back as a refusal.
LEMMA OfferRefusedKeeps ==
    ASSUME DeskInv, NEW p \in Peers, wire[p] # <<>>, Head(wire[p]).type = "offer",
           Send(p, <<Answer(Head(wire[p]).id, FALSE)>>, TRUE),
           UNCHANGED <<alive, desk, sequence, lastInput>>
    PROVE  PeerInv(p, Peer(p))' /\ PeerInv(Peer(p), p)'
<1> DEFINE q == Peer(p)
           m == Head(wire[p])
<1>1. /\ TypeOK /\ PeerInv(p, q) /\ PeerInv(q, p) /\ q \in Peers /\ q # p /\ Peers = {p, q}
      /\ desk[p] \in Desks /\ desk[q] \in Desks
      /\ Under(wire[p]) \subseteq Messages /\ Under(wire[q]) \subseteq Messages
      /\ \A n \in Under(wire[p]) \cup Under(wire[q]) : n.id # 0
      /\ lastInput[p] \in Nat /\ \A n \in Messages : n.type = "input" => n.seq \in Nat \ {0}
  <2>1. /\ TypeOK /\ PeerInv(p, q) /\ PeerInv(q, p) /\ q \in Peers /\ q # p /\ Peers = {p, q}
        /\ desk[p] \in Desks /\ desk[q] \in Desks
        /\ Under(wire[p]) \subseteq Messages /\ Under(wire[q]) \subseteq Messages
    BY BothEnds
  <2>2. \A n \in Messages : n.id # 0
    BY MessageKinds
  <2>3. \A n \in Messages : n.type = "input" => n.seq \in Nat \ {0}
    BY InputAssumption DEF Messages
  <2>4. lastInput[p] \in Nat
    BY <2>1, InputAssumption DEF TypeOK
  <2> HIDE DEF q
  <2> QED
    BY <2>1, <2>2, <2>3, <2>4
<1> DEFINE r == Answer(m.id, FALSE)
<1>2. r \in Messages /\ r.type = "answer" /\ r.id = m.id /\ r.flag = FALSE
  <2>1. m.id \in Ids
    BY <1>1, HeadIsMessage, MessageKinds
  <2> QED
    BY <2>1 DEF Answer, Messages
<1>3. /\ wire'[p] = Tail(wire[p])
      /\ Under(wire[q]) \subseteq Under(wire'[q])
      /\ Under(wire'[q]) \subseteq Under(wire[q]) \cup {r}
      /\ alive[q] => r \in Under(wire'[q])
      /\ \/ wire'[q] = wire[q]
         \/ alive[q] /\ wire'[q] = Append(wire[q], r)
  BY <1>2, Replied
<1>4. /\ m \in Messages /\ alive[p] /\ m \in Under(wire[p]) /\ Means(p, q, m)
      /\ Under(wire[p]) = {m} \cup Under(wire'[p]) /\ Ordered(p)'
      /\ \A n \in Under(wire'[p]) : n.id = m.id =>
            /\ n.type # "offer"
            /\ n.type = "input" /\ m.type = "input" => m.seq < n.seq
  BY <1>3, Heard
<1>5. m.type = "offer" /\ Linked' = Linked /\ desk[p].id # m.id
  BY <1>4 DEF Linked, Means
<1>6. Granted(p, q)'
  BY <1>1, <1>3, <1>5, GrantedTail DEF PeerInv
<1> HIDE DEF q, m, r
<1>7. Granted(q, p)'
  <2>1. CASE wire'[q] = wire[q]
    BY <1>1, <2>1 DEF PeerInv, Granted
  <2>2. CASE wire'[q] = Append(wire[q], r)
    <3> SUFFICES ASSUME desk[q].kind \in {"incoming", "viewing"},
                        desk[p].kind \in {"outgoing", "sharing"}, desk[p].id = desk[q].id
                 PROVE  Ends(wire'[q], Permission(desk[q].id, desk[p].control),
                             Permission(desk[q].id, ~desk[p].control),
                             desk[q].control # desk[p].control)
      BY DEF Granted
    <3> DEFINE yes == Permission(desk[q].id, desk[p].control)
               no == Permission(desk[q].id, ~desk[p].control)
               b == desk[q].control # desk[p].control
    <3>1. Ends(wire[q], yes, no, b)
      BY <1>1 DEF PeerInv, Granted
    <3>2. r # no /\ wire[q] \in Seq(Messages)
      BY <1>1, <1>2, WireIsSeq DEF Permission
    <3> HIDE DEF yes, no, b
    <3>3. Ends(Append(wire[q], r), yes, no, b)
      BY <1>2, <3>1, <3>2, EndsAppend
    <3> QED
      BY <2>2, <3>3 DEF yes, no, b
  <2> QED
    BY <1>3, <2>1, <2>2
<1>8. Ordered(q)'
  BY <1>1, <1>2, <1>3, OrderedAppend DEF PeerInv, Ordered
<1>9. Dead(p)' /\ Dead(q)' /\ Counting(p)' /\ Counting(q)' /\ Counted(p, q)' /\ Counted(q, p)'
  BY <1>1, <1>3, <1>4 DEF PeerInv, Dead, Counting, Counted, Holds
<1>10. Meant(p, q)'
  <2> SUFFICES ASSUME NEW n \in Under(wire'[p]) PROVE Means(p, q, n)'
    BY DEF Meant
  <2>1. Means(p, q, n) /\ Stop(n.id) # m
    BY <1>1, <1>4, <1>5 DEF PeerInv, Meant, Stop
  <2> QED
    BY <1>1, <1>2, <1>3, <1>4, <1>5, <2>1 DEF Means, Holds
<1>11. Meant(q, p)'
  <2> SUFFICES ASSUME NEW n \in Under(wire'[q]) PROVE Means(q, p, n)'
    BY DEF Meant
  <2>1. CASE n \in Under(wire[q])
    <3>1. Means(q, p, n)
      BY <1>1, <2>1 DEF PeerInv, Meant
    <3> QED
      BY <1>3, <1>4, <1>5, <3>1 DEF Means, Holds
  <2>2. CASE n = r
    BY <1>2, <1>5, <2>2 DEF Means, Holds
  <2> QED
    BY <1>3, <2>1, <2>2
<1>12. Linked' => Matched(p, q)' /\ Matched(q, p)'
  <2> SUFFICES ASSUME Linked PROVE Matched(p, q)' /\ Matched(q, p)'
    BY <1>5
  <2>1. Matched(p, q) /\ Matched(q, p) /\ alive[q]
    BY <1>1 DEF PeerInv, Linked
  <2>2. /\ \A i : Stop(i) # m
        /\ \A i, b : Answer(i, b) # m
        /\ \A i, b : Offer(i, b) = m => i = m.id
    BY <1>5 DEF Stop, Answer, Offer
  <2>3. Matched(p, q)'
    BY <1>3, <1>4, <2>1, <2>2 DEF Matched, Holds
  <2>4. Matched(q, p)'
    <3>1. \A i, b : Offer(i, b) \in Under(wire[p]) => Offer(i, b) \in Under(wire'[p]) \/ i = m.id
      BY <1>4, <2>2
    <3>2. \A i, b : Answer(i, b) \in Under(wire[p]) => Answer(i, b) \in Under(wire'[p])
      BY <1>4, <2>2
    <3> QED
      BY <1>3, <2>1, <3>1, <3>2 DEF Matched, Holds, r
  <2> QED
    BY <2>3, <2>4
<1> QED
  BY <1>4, <1>6, <1>7, <1>8, <1>9, <1>10, <1>11, <1>12 DEF PeerInv, q

\* A peer whose loop ends leaves nothing that could contradict the other's.
LEMMA LinkDownKeeps ==
    ASSUME DeskInv, NEW p \in Peers, LinkDown(p)
    PROVE  PeerInv(p, Peer(p))' /\ PeerInv(Peer(p), p)'
<1> DEFINE q == Peer(p)
<1>1. /\ TypeOK /\ PeerInv(p, q) /\ PeerInv(q, p) /\ q \in Peers /\ q # p
      /\ Under(wire[q]) \subseteq Messages
  BY BothEnds
<1>2. \A n \in Under(wire[q]) : n.id # 0
  BY <1>1, MessageKinds
<1>3. /\ desk'[p] = Idle /\ desk'[q] = desk[q] /\ sequence'[q] = sequence[q]
  BY <1>1, IdleIsDesk, BecomeType DEF LinkDown, Ended
<1>4. lastInput'[p] = 0 /\ lastInput'[q] = lastInput[q]
  BY <1>1, ClearType DEF LinkDown
<1>5. /\ wire'[p] = <<>> /\ wire'[q] = wire[q]
      /\ alive'[p] = FALSE /\ alive'[q] = alive[q] /\ ~Linked'
  BY <1>1 DEF LinkDown, TypeOK, Linked
<1>6. desk'[p].kind = "idle" /\ desk'[p].id = 0 /\ Under(wire'[p]) = {} /\ Len(wire'[p]) = 0
  BY <1>3, <1>5, IdleIsDesk, UnderEmpty
<1> HIDE DEF q
<1>7. Dead(p)' /\ Dead(q)' /\ Counting(p)' /\ Counting(q)'
  BY <1>1, <1>3, <1>4, <1>5 DEF PeerInv, Dead, Counting
<1>8. Ordered(p)' /\ Ordered(q)'
  BY <1>1, <1>5, <1>6 DEF PeerInv, Ordered
<1>9. /\ Counted(p, q)' /\ Counted(q, p)' /\ Granted(p, q)' /\ Granted(q, p)'
  BY <1>6 DEF Counted, Granted, Holds
<1>10. Meant(p, q)' /\ Meant(q, p)'
  <2>1. Meant(p, q)'
    BY <1>6 DEF Meant
  <2>2. ASSUME NEW n \in Under(wire[q]) PROVE Means(q, p, n)'
    <3>1. Means(q, p, n) /\ n.id # 0
      BY <1>1, <1>2 DEF PeerInv, Meant
    <3> QED
      BY <1>3, <1>4, <1>5, <1>6, <3>1 DEF Means, Holds
  <2> QED
    BY <1>5, <2>1, <2>2 DEF Meant
<1> QED
  BY <1>5, <1>7, <1>8, <1>9, <1>10 DEF PeerInv, q

\* A new link starts from two idle peers and empty streams.
LEMMA RelinkKeeps ==
    ASSUME DeskInv, Relink, NEW p \in Peers
    PROVE  PeerInv(p, Peer(p))'
<1> DEFINE q == Peer(p)
<1>1. PeerInv(p, q) /\ PeerInv(q, p) /\ ~alive[p] /\ ~alive[q]
  BY BothEnds DEF Relink
<1>2. /\ desk'[p] = Idle /\ wire'[p] = <<>> /\ lastInput'[p] = 0
      /\ desk'[q] = Idle /\ alive'[p]
  BY <1>1, IdleIsDesk DEF PeerInv, Dead, Counting, Relink
<1>3. desk'[p].kind = "idle" /\ Under(wire'[p]) = {} /\ Len(wire'[p]) = 0
  BY <1>2, IdleIsDesk, UnderEmpty
<1> HIDE DEF q
<1>4. Dead(p)' /\ Counting(p)' /\ Ordered(p)' /\ Meant(p, q)'
  BY <1>2, <1>3 DEF Dead, Counting, Ordered, Meant
<1>5. Counted(p, q)' /\ Granted(p, q)' /\ Matched(p, q)'
  BY <1>3 DEF Counted, Granted, Matched
<1> QED
  BY <1>4, <1>5 DEF PeerInv, q

\* Whatever message p takes, the two still match.
LEMMA ReceiveKeeps ==
    ASSUME DeskInv, NEW p \in Peers, Receive(p)
    PROVE  PeerInv(p, Peer(p))' /\ PeerInv(Peer(p), p)'
<1> DEFINE q == Peer(p)
           m == Head(wire[p])
<1>1. /\ TypeOK /\ wire[p] # <<>> /\ UNCHANGED alive /\ m \in Messages
      /\ q \in Peers \ {p} /\ desk[p] \in Desks
  BY BothEnds, HeadIsMessage DEF Receive
<1>2. m.type = "offer" \/ Send(p, <<>>, TRUE)
  BY DEF Receive, HandleOffer, HandleAnswer, HandlePermission, HandleStop, HandleInput
<1>3. m.type # "offer" => wire'[p] = Tail(wire[p]) /\ wire'[q] = wire[q]
  BY <1>1, <1>2, SendNothing
<1>4. CASE HandleOffer(p, m)
  <2>1. m.type = "offer" /\ UNCHANGED lastInput
    BY <1>4 DEF HandleOffer
  <2>2. m.id \in Ids /\ m.flag \in BOOLEAN
    BY <1>1, <2>1 DEF Messages
  <2>3. Desk("incoming", m.id, m.flag) \in Desks /\ Desk("incoming", m.id, m.flag).kind # "idle"
    BY <2>2, DesksMade
  <2>4. ASSUME Become(p, Desk("incoming", m.id, m.flag))
        PROVE  /\ desk'[p] = Desk("incoming", m.id, m.flag) /\ desk'[q] = desk[q]
               /\ UNCHANGED sequence
    <3>1. /\ desk'[p] = Desk("incoming", m.id, m.flag) /\ desk'[q] = desk[q]
      BY <1>1, <2>3, <2>4, BecomeType
    <3>2. UNCHANGED sequence
      BY <1>1, <2>3, <2>4 DEF Become, TypeOK
    <3> QED
      BY <3>1, <3>2
  <2>5. CASE desk[p].kind = "idle" /\ Become(p, Desk("incoming", m.id, m.flag))
             /\ Send(p, <<>>, TRUE)
    BY <1>1, <2>1, <2>4, <2>5, OfferTakenKeeps
  <2>6. CASE Yields(p, m) /\ Become(p, Desk("incoming", m.id, m.flag))
             /\ Send(p, <<Stop(desk[p].id)>>, TRUE)
    BY <1>1, <2>1, <2>4, <2>6, OfferTakenKeeps DEF Yields
  <2>7. CASE Send(p, <<Answer(m.id, FALSE)>>, TRUE) /\ UNCHANGED <<desk, sequence>>
    BY <1>1, <2>1, <2>7, OfferRefusedKeeps
  <2> QED
    BY <1>4, <2>5, <2>6, <2>7 DEF HandleOffer
<1>5. CASE HandleAnswer(p, m)
  <2>1. m.type = "answer" /\ UNCHANGED lastInput
    BY <1>5 DEF HandleAnswer
  <2>2. CASE AnswersMine(p, m)
    <3>1. m.id \in Ids /\ m.flag \in BOOLEAN /\ desk[p].control \in BOOLEAN
      BY <1>1, <2>1, DeskKinds DEF Messages
    <3>2. Desk("sharing", m.id, desk[p].control) \in Desks
          /\ Desk("sharing", m.id, desk[p].control).kind # "idle"
      BY <3>1, DesksMade
    <3>3. IF m.flag THEN Become(p, Desk("sharing", m.id, desk[p].control)) ELSE Become(p, Idle)
      BY <1>5, <2>2 DEF HandleAnswer, Ended
    <3>4. /\ desk'[q] = desk[q] /\ sequence'[q] = sequence[q]
          /\ IF m.flag THEN /\ desk'[p] = Desk("sharing", m.id, desk[p].control)
                            /\ sequence'[p] = sequence[p]
             ELSE desk'[p] = Idle
      BY <1>1, <3>2, <3>3, BecomeType, IdleIsDesk
    <3> QED
      BY <1>1, <1>3, <2>1, <2>2, <3>4, AnsweredKeeps DEF AnswersMine
  <2>3. CASE ~AnswersMine(p, m)
    BY <1>1, <1>3, <1>5, <2>1, <2>3, TakeKeeps DEF HandleAnswer, AnswersMine
  <2> QED
    BY <2>2, <2>3
<1>6. CASE HandlePermission(p, m)
  <2>1. m.type = "permission" /\ UNCHANGED lastInput
    BY <1>6 DEF HandlePermission
  <2>2. CASE Holds(p, "viewing", m.id)
    <3>1. Permitted(p, m) \in Desks /\ Permitted(p, m).kind # "idle"
      <4>1. desk[p] = Desk("viewing", m.id, desk[p].control) /\ m.id \in Ids
        BY <1>1, <2>2, DeskKinds, MessageKinds DEF Holds
      <4>2. Permitted(p, m) = Desk("viewing", m.id, m.flag)
        BY <4>1 DEF Permitted, Desk
      <4> QED
        BY <1>1, <2>1, <4>1, <4>2, DesksMade DEF Messages
    <3>2. Become(p, Permitted(p, m))
      BY <1>6, <2>2 DEF HandlePermission
    <3>3. /\ desk'[p] = Permitted(p, m) /\ desk'[q] = desk[q]
          /\ sequence'[p] = sequence[p] /\ sequence'[q] = sequence[q]
      BY <1>1, <3>1, <3>2, BecomeType
    <3> QED
      BY <1>1, <1>3, <2>1, <2>2, <3>3, PermissionKeeps DEF Permitted
  <2>3. CASE ~Holds(p, "viewing", m.id)
    BY <1>1, <1>3, <1>6, <2>1, <2>3, TakeKeeps DEF HandlePermission
  <2> QED
    BY <2>2, <2>3
<1>7. CASE HandleStop(p, m)
  <2>1. m.type = "stop"
    BY <1>7 DEF HandleStop
  <2>2. CASE desk[p].id = m.id
    <3>1. Become(p, Idle) /\ lastInput' = ClearLastInput(p)
      BY <1>7, <2>2 DEF HandleStop, Stops, Ended
    <3>2. /\ desk'[p] = Idle /\ desk'[q] = desk[q] /\ sequence'[q] = sequence[q]
          /\ lastInput'[p] = 0 /\ lastInput'[q] = lastInput[q]
      BY <1>1, <3>1, BecomeType, ClearType, IdleIsDesk
    <3> QED
      BY <1>1, <1>3, <2>1, <2>2, <3>2, StoppedKeeps
  <2>3. CASE desk[p].id # m.id
    BY <1>1, <1>3, <1>7, <2>1, <2>3, TakeKeeps DEF HandleStop, Stops
  <2> QED
    BY <2>2, <2>3
<1>8. CASE HandleInput(p, m)
  <2>1. m.type = "input" /\ UNCHANGED <<desk, sequence>>
    BY <1>8 DEF HandleInput
  <2>2. /\ lastInput'[q] = lastInput[q]
        /\ \/ lastInput'[p] = lastInput[p]
           \/ Holds(p, "sharing", m.id) /\ lastInput'[p] = m.seq
    BY <1>1, <1>8 DEF HandleInput, TypeOK
  <2> QED
    BY <1>1, <1>3, <2>1, <2>2, TakeKeeps
<1> QED
  BY <1>4, <1>5, <1>6, <1>7, <1>8 DEF Receive

\* Every step keeps the invariant.
LEMMA DeskInvStep == DeskInv /\ [Next]_vars => DeskInv'
<1> SUFFICES ASSUME DeskInv, [Next]_vars PROVE DeskInv'
  OBVIOUS
<1>1. TypeOK'
  BY TypeStep DEF DeskInv
<1>2. ASSUME NEW p \in Peers, PeerInv(p, Peer(p))', PeerInv(Peer(p), p)'
      PROVE  DeskInv'
  BY <1>1, <1>2, TwoPeers DEF DeskInv
<1>3. ASSUME NEW p \in Peers, NEW id \in Ids, NEW b \in BOOLEAN, OfferDesktop(p, id, b)
      PROVE  DeskInv'
  BY <1>2, <1>3, OfferDesktopKeeps
<1>4. ASSUME NEW p \in Peers, NEW b \in BOOLEAN, AnswerDesktop(p, b) \/ SetPermission(p, b)
      PROVE  DeskInv'
  BY <1>2, <1>4, AnswerDesktopKeeps, SetPermissionKeeps
<1>5. ASSUME NEW p \in Peers, StopDesktop(p) \/ SendInput(p) \/ Receive(p) \/ LinkDown(p)
      PROVE  DeskInv'
  BY <1>2, <1>5, StopDesktopKeeps, SendInputKeeps, ReceiveKeeps, LinkDownKeeps
<1>6. CASE Relink
  BY <1>1, <1>6, RelinkKeeps DEF DeskInv
<1>7. CASE UNCHANGED vars
  <2>1. UNCHANGED alive /\ UNCHANGED desk /\ UNCHANGED lastInput /\ UNCHANGED sequence
        /\ UNCHANGED wire
    BY <1>7 DEF vars
  <2>2. ASSUME NEW p \in Peers PROVE PeerInv(p, Peer(p))'
    <3>1. PeerInv(p, Peer(p))
      BY DEF DeskInv
    <3>2. \A m : Means(p, Peer(p), m) => Means(p, Peer(p), m)'
      BY <2>1 DEF Means, Holds, Linked
    <3>3. /\ Dead(p) => Dead(p)'
          /\ Counting(p) => Counting(p)'
          /\ Ordered(p) => Ordered(p)'
          /\ Meant(p, Peer(p)) => Meant(p, Peer(p))'
          /\ Counted(p, Peer(p)) => Counted(p, Peer(p))'
      BY <2>1, <3>2 DEF Dead, Counting, Ordered, Meant, Counted, Holds
    <3>4. Granted(p, Peer(p)) => Granted(p, Peer(p))'
      BY <2>1 DEF Granted
    <3>5. Linked' = Linked /\ (Matched(p, Peer(p)) => Matched(p, Peer(p))')
      BY <2>1 DEF Linked, Matched, Holds
    <3> QED
      BY <3>1, <3>3, <3>4, <3>5 DEF PeerInv
  <2> QED
    BY <1>1, <2>2 DEF DeskInv
<1> QED
  BY <1>3, <1>4, <1>5, <1>6, <1>7 DEF Next

\* The invariant holds in every state the two peers can reach.
THEOREM DeskInvariant == Spec => []DeskInv
<1>1. Init => DeskInv
  <2> SUFFICES ASSUME Init PROVE DeskInv
    OBVIOUS
  <2>1. TypeOK
    BY InputAssumption, IdleIsDesk DEF Init, TypeOK
  <2>2. ASSUME NEW p \in Peers PROVE PeerInv(p, Peer(p))
    <3>1. desk[p].kind = "idle" /\ Under(wire[p]) = {} /\ Len(wire[p]) = 0
          /\ alive[p] /\ lastInput[p] = 0
      BY IdleIsDesk, UnderEmpty DEF Init
    <3> QED
      BY <3>1 DEF PeerInv, Dead, Counting, Ordered, Meant, Counted, Granted, Matched
  <2> QED
    BY <2>1, <2>2 DEF DeskInv
<1> QED
  BY <1>1, DeskInvStep, PTL DEF Spec

-----------------------------------------------------------------------------
(* What the runs check                                                     *)

\* A message is under way exactly when it is in the stream.
LEMMA SentIsUnder ==
    ASSUME NEW p \in Peers, NEW m
    PROVE  Sent(p, m) <=> m \in Under(wire[p])
  BY DEF Sent, Under

\* A session that one peer shares or views, the other has as well, or the
\* message that begins or ends it is under way.
THEOREM ActiveMatched == Spec => []ActiveIsMatched
<1>1. DeskInv => ActiveIsMatched
  <2> SUFFICES ASSUME DeskInv, Linked, NEW p \in Peers
               PROVE  LET id == desk[p].id
                          q == Peer(p) IN
                      /\ desk[p].kind = "sharing" =>
                            Holds(q, "viewing", id) \/ Stop(id) \in Under(wire[p])
                      /\ desk[p].kind = "viewing" =>
                            \/ Holds(q, "sharing", id)
                            \/ Holds(q, "outgoing", id) /\ Answer(id, TRUE) \in Under(wire[q])
                            \/ Stop(id) \in Under(wire[p])
    BY SentIsUnder, TwoPeers DEF ActiveIsMatched
  <2> QED
    BY BothEnds DEF PeerInv, Matched
<1> QED
  BY <1>1, DeskInvariant, PTL

\* An offer is under way, before the other user, or its answer or its end is;
\* and one before a user is one its sender still has, or takes back.
THEOREM PendingMatched == Spec => []PendingIsMatched
<1>1. DeskInv => PendingIsMatched
  <2> SUFFICES ASSUME DeskInv, Linked, NEW p \in Peers
               PROVE  LET id == desk[p].id
                          q == Peer(p) IN
                      /\ desk[p].kind = "outgoing" =>
                            \/ \E b \in BOOLEAN : \/ Offer(id, b) \in Under(wire[q])
                                                  \/ Answer(id, b) \in Under(wire[p])
                            \/ Holds(q, "incoming", id)
                            \/ Stop(id) \in Under(wire[p])
                      /\ desk[p].kind = "incoming" =>
                            Holds(q, "outgoing", id) \/ Stop(id) \in Under(wire[p])
    BY SentIsUnder, TwoPeers DEF PendingIsMatched
  <2> QED
    BY BothEnds DEF PeerInv, Matched
<1> QED
  BY <1>1, DeskInvariant, PTL

\* Viewer and sharer agree on who controls, but for a permission under way.
THEOREM ControlAgreed == Spec => []ControlAgrees
<1>1. DeskInv => ControlAgrees
  <2> SUFFICES ASSUME DeskInv, NEW p \in Peers, desk[p].kind = "viewing",
                      Holds(Peer(p), "sharing", desk[p].id),
                      \A b \in BOOLEAN : ~Sent(p, Permission(desk[p].id, b))
               PROVE  desk[p].control = desk[Peer(p)].control
    BY DEF ControlAgrees
  <2> DEFINE q == Peer(p)
             yes == Permission(desk[p].id, desk[q].control)
             no == Permission(desk[p].id, ~desk[q].control)
             other == desk[p].control # desk[q].control
  <2>1. desk[q].control \in BOOLEAN /\ desk[p].control \in BOOLEAN
    BY BothEnds, DeskKinds
  <2>2. Ends(wire[p], yes, no, other)
    BY BothEnds DEF PeerInv, Granted, Holds
  <2>3. yes \notin Under(wire[p]) /\ no \notin Under(wire[p])
    BY <2>1, SentIsUnder
  <2> HIDE DEF yes, no, other
  <2>4. ~other
    BY <2>2, <2>3 DEF Ends, Under
  <2> QED
    BY <2>4 DEF other
<1> QED
  BY <1>1, DeskInvariant, PTL

\* Input for a session that is still shared is newer than all that was handled.
THEOREM InputNewer == Spec => []InputIsNew
<1>1. DeskInv => InputIsNew
  <2> SUFFICES ASSUME DeskInv, NEW p \in Peers, NEW i \in 1 .. Len(wire[p]),
                      wire[p][i].type = "input", Holds(p, "sharing", wire[p][i].id)
               PROVE  wire[p][i].seq > lastInput[p]
    BY DEF InputIsNew
  <2>1. wire[p][i] \in Under(wire[p])
    BY DEF Under
  <2>2. Means(p, Peer(p), wire[p][i]) /\ TypeOK /\ wire[p][i] \in Messages
    BY <2>1, BothEnds DEF PeerInv, Meant
  <2>3. lastInput[p] < wire[p][i].seq
    BY <2>2 DEF Means
  <2>4. lastInput[p] \in Nat /\ wire[p][i].seq \in Nat
    BY <2>2, InputAssumption DEF TypeOK, Messages
  <2> QED
    BY <2>3, <2>4
<1> QED
  BY <1>1, DeskInvariant, PTL
==============================================================================
