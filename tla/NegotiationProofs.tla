-------------------------- MODULE NegotiationProofs ---------------------------
(***************************************************************************)
(* The mark of an announced info is honest on both sides of a negotiation, *)
(* and nobody waits untold for an info that nobody makes, for every finite *)
(* set of tokens and every bound on what goes wrong.                       *)
(***************************************************************************)
EXTENDS Negotiation, FiniteSetTheorems, TLAPS

\* What a dispatch loop may hold.
Loops == [sent: BOOLEAN, local: Tokens \cup {NoToken}, peer: Tokens \cup {NoToken},
          started: BOOLEAN, collect: Nat, tries: SUBSET Pairs]

\* SentIsUnderWay of one loop with the infos rd on their way back to it.
Honest(s, rd) == s.sent => s.collect > 0 \/ rd # {} \/ s.local # NoToken \/ s.started

-----------------------------------------------------------------------------
(* The loop                                                                *)

\* The variables of a side make a loop, and the property is about each of them.
LEMMA StateOfSide ==
    ASSUME TypeOK, NEW r \in Role
    PROVE  State(r) \in Loops /\ (SentIsUnderWay => Honest(State(r), ready[r]))
  BY DEF TypeOK, State, Loops, Honest, SentIsUnderWay

\* Who announces has a task that collects.
LEMMA AnnounceKeeps ==
    ASSUME NEW s \in Loops, NEW rd, Honest(s, rd)
    PROVE  Announce(s) \in Loops /\ Honest(Announce(s), rd)
<1>1. CASE s.sent
  BY <1>1 DEF Announce
<1>2. CASE ~s.sent
  <2>1. Announce(s) = [s EXCEPT !.sent = TRUE, !.collect = s.collect + 1]
    BY <1>2 DEF Announce
  <2>2. s.collect \in Nat /\ s.collect + 1 \in Nat /\ s.collect + 1 > 0
    BY DEF Loops
  <2>3. Announce(s) \in Loops /\ Announce(s).collect = s.collect + 1
    BY <2>1, <2>2 DEF Loops
  <2> QED
    BY <2>2, <2>3 DEF Honest
<1> QED
  BY <1>1, <1>2

\* Who starts a link uses up its info, and has started.
LEMMA StartKeeps ==
    ASSUME NEW s \in Loops, NEW rd, Honest(s, rd)
    PROVE  Start(s) \in Loops /\ Honest(Start(s), rd)
<1>1. CASE s.started \/ NoToken \in {s.local, s.peer}
  BY <1>1 DEF Start
<1>2. CASE ~(s.started \/ NoToken \in {s.local, s.peer})
  <2>1. Start(s) = StartTry(s) /\ s.local \in Tokens /\ s.peer \in Tokens
    BY <1>2 DEF Start, Loops
  <2>2. s.tries \cup {Pair(s.local, s.peer)} \subseteq Pairs
    BY <2>1 DEF Loops, Pair, Pairs
  <2>3. StartTry(s) = [s EXCEPT !.started = TRUE, !.local = NoToken,
                                !.tries = s.tries \cup {Pair(s.local, s.peer)}]
    BY DEF StartTry
  <2>4. StartTry(s) \in Loops /\ StartTry(s).started
    BY <2>2, <2>3 DEF Loops
  <2> QED
    BY <2>1, <2>4 DEF Honest
<1> QED
  BY <1>1, <1>2

\* A reset takes the mark back.
LEMMA ForgetKeeps ==
    ASSUME NEW s \in Loops, NEW rd
    PROVE  /\ Forget(s) \in Loops /\ ForgetPeer(s) \in Loops
           /\ Honest(Forget(s), rd) /\ Honest(ForgetPeer(s), rd)
           /\ ~Forget(s).sent
  BY DEF Loops, Forget, ForgetPeer, Honest

\* The peer's info, whether it starts a link, a new attempt or nothing.
LEMMA OnSignalKeeps ==
    ASSUME NEW s \in Loops, NEW rd, Honest(s, rd), NEW t \in Tokens
    PROVE  OnSignal(s, t) \in Loops /\ Honest(OnSignal(s, t), rd)
<1>1. CASE NewAttempt(s, t)
  <2> DEFINE f == [Forget(s) EXCEPT !.peer = t]
  <2>1. f \in Loops /\ Honest(f, rd)
    BY DEF Loops, Forget, Honest
  <2>2. OnSignal(s, t) = Start(Announce(f))
    BY <1>1 DEF OnSignal
  <2> HIDE DEF f
  <2>3. Announce(f) \in Loops /\ Honest(Announce(f), rd)
    BY <2>1, AnnounceKeeps
  <2> QED
    BY <2>2, <2>3, StartKeeps
<1>2. CASE ~NewAttempt(s, t)
  <2> DEFINE f == [s EXCEPT !.peer = t]
  <2>1. f \in Loops /\ Honest(f, rd)
    BY DEF Loops, Honest
  <2>2. OnSignal(s, t) = Start(f)
    BY <1>2 DEF OnSignal
  <2> HIDE DEF f
  <2> QED
    BY <2>1, <2>2, StartKeeps
<1> QED
  BY <1>1, <1>2

\* No envelope of the room leaves the mark behind.
LEMMA OnEnvelopeKeeps ==
    ASSUME NEW s \in Loops, NEW rd, Honest(s, rd), NEW m \in Down, NEW r \in Role
    PROVE  OnEnvelope(r, s, m) \in Loops /\ Honest(OnEnvelope(r, s, m), rd)
<1>1. CASE m.type = "peer-joined"
  BY <1>1, AnnounceKeeps DEF OnEnvelope
<1>2. CASE m.type = "room-ready"
  BY <1>2, AnnounceKeeps DEF OnEnvelope
<1>3. CASE m.type = "peer-left"
  BY <1>3, ForgetKeeps DEF OnEnvelope
<1>4. CASE m.type = "signal"
  <2>1. m.token \in Tokens
    BY <1>4 DEF Down
  <2>2. OnEnvelope(r, s, m) = OnSignal(s, m.token)
    BY <1>4 DEF OnEnvelope
  <2> QED
    BY <2>1, <2>2, OnSignalKeeps
<1> QED
  BY <1>1, <1>2, <1>3, <1>4 DEF Down

\* A side that becomes an honest loop leaves both sides as they should be.
LEMMA BecomeKeeps ==
    ASSUME TypeOK, SentIsUnderWay, NEW r \in Role, NEW s \in Loops, Become(r, s),
           Honest(s, ready'[r]), \A q \in Role \ {r} : ready'[q] = ready[q]
    PROVE  /\ sent' \in [Role -> BOOLEAN] /\ started' \in [Role -> BOOLEAN]
           /\ local' \in [Role -> Tokens \cup {NoToken}]
           /\ peer' \in [Role -> Tokens \cup {NoToken}]
           /\ collect' \in [Role -> Nat] /\ tries' \in [Role -> SUBSET Pairs]
           /\ SentIsUnderWay'
<1>1. /\ s.sent \in BOOLEAN /\ s.started \in BOOLEAN /\ s.local \in Tokens \cup {NoToken}
      /\ s.peer \in Tokens \cup {NoToken} /\ s.collect \in Nat /\ s.tries \in SUBSET Pairs
  BY DEF Loops
<1>2. /\ sent' \in [Role -> BOOLEAN] /\ started' \in [Role -> BOOLEAN]
      /\ local' \in [Role -> Tokens \cup {NoToken}]
      /\ peer' \in [Role -> Tokens \cup {NoToken}]
      /\ collect' \in [Role -> Nat] /\ tries' \in [Role -> SUBSET Pairs]
  BY <1>1 DEF TypeOK, Become
<1>3. /\ sent'[r] = s.sent /\ started'[r] = s.started /\ local'[r] = s.local
      /\ collect'[r] = s.collect
  BY DEF TypeOK, Become
<1>4. \A q \in Role \ {r} : /\ sent'[q] = sent[q] /\ started'[q] = started[q]
                            /\ local'[q] = local[q] /\ collect'[q] = collect[q]
  BY DEF TypeOK, Become
<1> QED
  BY <1>2, <1>3, <1>4 DEF SentIsUnderWay, Honest

-----------------------------------------------------------------------------
(* The steps                                                               *)

\* The messages of the two directions are typed wherever they come from.
LEMMA Messages ==
    /\ \A t \in Tokens : Signal(t) \in Up
    /\ Note("hello") \in Up /\ Note("gone") \in Up
    /\ Note("room-ready") \in Down /\ Note("peer-joined") \in Down /\ Note("peer-left") \in Down
    /\ \A m \in Up : m.type = "signal" => m \in Down
  BY DEF Signal, Note, Up, Down

\* The other side is a side.
LEMMA PeerIsRole == \A r \in Role : Peer(r) \in Role
  BY DEF Peer, Role

\* The types, and that the mark is honest.  A guest leaves only while another
\* may come.
MarkInv == TypeOK /\ SentIsUnderWay /\ (~here => joins < MaxJoins)

\* The loop's own steps.
LEMMA LoopSteps ==
    ASSUME MarkInv, NEW r \in Role,
           Dispatch(r) \/ Retry(r) \/ \E t \in Tokens : Prepared(r, t)
    PROVE  MarkInv'
<1>1. TypeOK /\ SentIsUnderWay /\ State(r) \in Loops /\ Honest(State(r), ready[r])
  BY StateOfSide DEF MarkInv
<1>2. CASE Dispatch(r)
  <2> DEFINE s == OnEnvelope(r, State(r), Head(down[r]))
  <2>1. Head(down[r]) \in Down /\ Tail(down[r]) \in Seq(Down)
    BY <1>1, <1>2 DEF Dispatch, TypeOK
  <2>2. s \in Loops /\ Honest(s, ready[r])
    BY <1>1, <2>1, OnEnvelopeKeeps
  <2>3. Become(r, s) /\ ready' = ready
    BY <1>2 DEF Dispatch
  <2> HIDE DEF s
  <2>4. /\ sent' \in [Role -> BOOLEAN] /\ started' \in [Role -> BOOLEAN]
        /\ local' \in [Role -> Tokens \cup {NoToken}]
        /\ peer' \in [Role -> Tokens \cup {NoToken}]
        /\ collect' \in [Role -> Nat] /\ tries' \in [Role -> SUBSET Pairs]
        /\ SentIsUnderWay'
    BY <1>1, <2>2, <2>3, BecomeKeeps
  <2>5. down' \in [Role -> Seq(Down)] /\ failed' \in [Role -> BOOLEAN]
    BY <1>1, <1>2, <2>1 DEF Dispatch, TypeOK
  <2> QED
    BY <1>1, <1>2, <2>4, <2>5 DEF Dispatch, counts, MarkInv, TypeOK
<1>3. CASE Retry(r)
  <2> DEFINE s == Announce(ForgetPeer(State(r)))
  <2>1. s \in Loops /\ Honest(s, ready[r])
    BY <1>1, ForgetKeeps, AnnounceKeeps
  <2>2. Become(r, s) /\ ready' = ready
    BY <1>3 DEF Retry
  <2> HIDE DEF s
  <2>3. /\ sent' \in [Role -> BOOLEAN] /\ started' \in [Role -> BOOLEAN]
        /\ local' \in [Role -> Tokens \cup {NoToken}]
        /\ peer' \in [Role -> Tokens \cup {NoToken}]
        /\ collect' \in [Role -> Nat] /\ tries' \in [Role -> SUBSET Pairs]
        /\ SentIsUnderWay'
    BY <1>1, <2>1, <2>2, BecomeKeeps
  <2>4. failed' \in [Role -> BOOLEAN] /\ retries' \in 0 .. MaxRetries
    BY <1>1, <1>3, BoundsAssumption DEF Retry, TypeOK
  <2> QED
    BY <1>1, <1>3, <2>3, <2>4 DEF Retry, net, MarkInv, TypeOK
<1>4. ASSUME NEW t \in Tokens, Prepared(r, t) PROVE MarkInv'
  <2> DEFINE f == [State(r) EXCEPT !.local = t]
             s == Start(f)
  <2>1. f \in Loops /\ f.local = t
    BY <1>1 DEF Loops
  <2>2. Honest(f, ready'[r])
    BY <2>1, TokensAssumption DEF Honest
  <2>3. Become(r, s) /\ ready' = [ready EXCEPT ![r] = @ \ {t}]
    BY <1>4 DEF Prepared
  <2> HIDE DEF f
  <2>4. s \in Loops /\ Honest(s, ready'[r])
    BY <2>1, <2>2, StartKeeps
  <2> HIDE DEF s
  <2>5. ready' \in [Role -> SUBSET Tokens] /\ \A q \in Role \ {r} : ready'[q] = ready[q]
    BY <1>1, <2>3 DEF TypeOK
  <2>6. /\ sent' \in [Role -> BOOLEAN] /\ started' \in [Role -> BOOLEAN]
        /\ local' \in [Role -> Tokens \cup {NoToken}]
        /\ peer' \in [Role -> Tokens \cup {NoToken}]
        /\ collect' \in [Role -> Nat] /\ tries' \in [Role -> SUBSET Pairs]
        /\ SentIsUnderWay'
    BY <1>1, <2>3, <2>4, <2>5, BecomeKeeps
  <2> QED
    BY <1>1, <1>4, <2>5, <2>6 DEF Prepared, net, counts, MarkInv, TypeOK
<1> QED
  BY <1>2, <1>3, <1>4

\* A collected info goes to the peer and back to the loop that marked it.
LEMMA CollectedKeeps ==
    ASSUME MarkInv, NEW r \in Role, Collected(r)
    PROVE  MarkInv'
<1>1. TypeOK /\ SentIsUnderWay
  BY DEF MarkInv
<1>2. PICK t \in Unused : /\ ready' = [ready EXCEPT ![r] = @ \cup {t}]
                          /\ up' = [up EXCEPT ![r] = Append(@, Signal(t))]
  BY DEF Collected
<1>3. t \in Tokens /\ Signal(t) \in Up
  BY Messages DEF Unused
<1>4. ready' \in [Role -> SUBSET Tokens] /\ up' \in [Role -> Seq(Up)]
  BY <1>1, <1>2, <1>3 DEF TypeOK
<1>5. collect' \in [Role -> Nat]
  BY <1>1 DEF Collected, TypeOK
<1>6. /\ ready'[r] # {} /\ sent' = sent /\ local' = local /\ started' = started
      /\ \A q \in Role \ {r} : ready'[q] = ready[q] /\ collect'[q] = collect[q]
  BY <1>1, <1>2 DEF Collected, loop, TypeOK
<1>7. SentIsUnderWay'
  BY <1>1, <1>6 DEF SentIsUnderWay
<1> QED
  BY <1>1, <1>4, <1>5, <1>7 DEF Collected, loop, counts, MarkInv, TypeOK

\* The tasks that establish links, and what breaks them, leave the loops alone.
LEMMA LinkSteps ==
    ASSUME MarkInv,
           \/ \E r \in Role : Lost(r) \/ \E p \in tries[r] : Fails(r, p)
           \/ \E p \in Pairs : HostEstablishes(p) \/ GuestEstablishes(p)
    PROVE  MarkInv'
<1>1. TypeOK /\ SentIsUnderWay /\ "host" \in Role /\ "guest" \in Role
  BY DEF MarkInv, Role
<1>2. UNCHANGED <<sent, local, peer, started, collect, ready>>
  BY DEF Lost, Fails, HostEstablishes, GuestEstablishes, loop, tasks
<1>3. SentIsUnderWay'
  BY <1>1, <1>2 DEF SentIsUnderWay
<1>4. ASSUME NEW r \in Role, Lost(r) PROVE TypeOK'
  <2>1. Tail(links[r]) \in Seq(Pairs)
    BY <1>1, <1>4 DEF Lost, TypeOK
  <2>2. links' \in [Role -> Seq(Pairs)] /\ failed' \in [Role -> BOOLEAN]
    BY <1>1, <1>4, <2>1 DEF Lost, TypeOK
  <2>3. lost' \in 0 .. MaxLost
    <3>1. lost' = lost \/ (lost < MaxLost /\ lost' = lost + 1)
      BY <1>4, Zenon DEF Lost
    <3>2. lost \in 0 .. MaxLost
      BY <1>1 DEF TypeOK
    <3> QED
      BY <3>1, <3>2, BoundsAssumption
  <2> QED
    BY <1>1, <1>4, <2>2, <2>3 DEF Lost, loop, tasks, net, TypeOK
<1>5. ASSUME NEW r \in Role, NEW p \in tries[r], Fails(r, p) PROVE TypeOK'
  <2>1. tries' \in [Role -> SUBSET Pairs] /\ failed' \in [Role -> BOOLEAN]
    BY <1>1, <1>5 DEF Fails, TypeOK
  <2>2. timeouts' \in 0 .. MaxTimeouts
    BY <1>1, <1>5, BoundsAssumption DEF Fails, TypeOK
  <2> QED
    BY <1>1, <1>5, <2>1, <2>2 DEF Fails, loop, net, TypeOK
<1>6. ASSUME NEW p \in Pairs, HostEstablishes(p) \/ GuestEstablishes(p) PROVE TypeOK'
  <2>1. PICK r \in Role : /\ tries' = [tries EXCEPT ![r] = @ \ {p}]
                          /\ links' = [links EXCEPT ![r] = Append(@, p)]
                          /\ failed' = [failed EXCEPT ![r] = @ /\ links[r] # <<>>]
    BY <1>1, <1>6 DEF HostEstablishes, GuestEstablishes
  <2>2. tries' \in [Role -> SUBSET Pairs]
    BY <1>1, <2>1 DEF TypeOK
  <2>3. links' \in [Role -> Seq(Pairs)]
    <3>1. Append(links[r], p) \in Seq(Pairs)
      BY <1>1 DEF TypeOK
    <3> QED
      BY <1>1, <2>1, <3>1 DEF TypeOK
  <2>4. failed' \in [Role -> BOOLEAN]
    BY <1>1, <2>1 DEF TypeOK
  <2> QED
    BY <1>1, <1>6, <2>2, <2>3, <2>4 DEF HostEstablishes, GuestEstablishes, loop, net, counts, TypeOK
<1>7. UNCHANGED <<here, joins>>
  BY DEF Lost, Fails, HostEstablishes, GuestEstablishes, net, counts
<1> QED
  BY <1>3, <1>4, <1>5, <1>6, <1>7 DEF MarkInv

\* The room passes on what it is sent.
LEMMA RelayKeeps ==
    ASSUME MarkInv, NEW r \in Role, Relay(r)
    PROVE  MarkInv'
<1>1. TypeOK /\ SentIsUnderWay /\ Peer(r) \in Role /\ "host" \in Role
  BY PeerIsRole DEF MarkInv, Role
<1>2. SentIsUnderWay'
  BY <1>1 DEF Relay, loop, tasks, SentIsUnderWay
<1>3. Head(up[r]) \in Up /\ Tail(up[r]) \in Seq(Up)
  BY <1>1 DEF Relay, TypeOK
<1>4. up' \in [Role -> Seq(Up)]
  BY <1>1, <1>3 DEF Relay, TypeOK
<1>5. \A q \in Role, e \in Down : down[q] \in Seq(Down) /\ Append(down[q], e) \in Seq(Down)
  BY <1>1 DEF TypeOK
<1>6. down' \in [Role -> Seq(Down)]
  <2> DEFINE To(q, e) == IF q = "guest" /\ ~(present /\ here) THEN down[q]
                                                             ELSE Append(down[q], e)
  <2>1. CASE /\ Head(up[r]).type = "signal"
             /\ down' = [down EXCEPT ![Peer(r)] = To(Peer(r), Head(up[r]))]
    <3>1. To(Peer(r), Head(up[r])) \in Seq(Down)
      BY <1>1, <1>3, <1>5, <2>1, Messages
    <3> DEFINE x == To(Peer(r), Head(up[r]))
    <3>2. x \in Seq(Down) /\ down' = [down EXCEPT ![Peer(r)] = x]
      BY <2>1, <3>1
    <3> HIDE DEF x
    <3> QED
      BY <1>1, <3>2 DEF TypeOK
  <2>2. CASE down' = [q \in Role |-> To(q, Note("peer-joined"))]
    <3>1. \A q \in Role : To(q, Note("peer-joined")) \in Seq(Down)
      BY <1>5, Messages
    <3> QED
      BY <2>2, <3>1
  <2>3. CASE down' = [down EXCEPT !["host"] = Append(@, Note("peer-left"))]
    <3>1. Append(down["host"], Note("peer-left")) \in Seq(Down)
      BY <1>1, <1>5, Messages
    <3> QED
      BY <1>1, <2>3, <3>1 DEF TypeOK
  <2> QED
    BY <2>1, <2>2, <2>3 DEF Relay
<1>7. present' \in BOOLEAN
  BY <1>1 DEF Relay, TypeOK
<1> QED
  BY <1>1, <1>2, <1>4, <1>6, <1>7 DEF Relay, loop, tasks, counts, MarkInv, TypeOK

\* A guest that goes takes its mark with it, and the next one starts without.
LEMMA GuestSteps ==
    ASSUME MarkInv, GuestLeaves \/ GuestJoins
    PROVE  MarkInv'
<1>1. TypeOK /\ SentIsUnderWay /\ "guest" \in Role
  BY DEF MarkInv, Role
<1>2. CASE GuestLeaves
  <2> DEFINE s == [sent |-> FALSE, local |-> NoToken, peer |-> NoToken,
                   started |-> FALSE, collect |-> 0, tries |-> {}]
  <2>1. s \in Loops /\ Honest(s, ready'["guest"])
    BY DEF Loops, Honest
  <2>2. Become("guest", s)
    BY <1>2 DEF GuestLeaves
  <2>3. ready' \in [Role -> SUBSET Tokens] /\ \A q \in Role \ {"guest"} : ready'[q] = ready[q]
    BY <1>1, <1>2 DEF GuestLeaves, TypeOK
  <2> HIDE DEF s
  <2>4. /\ sent' \in [Role -> BOOLEAN] /\ started' \in [Role -> BOOLEAN]
        /\ local' \in [Role -> Tokens \cup {NoToken}]
        /\ peer' \in [Role -> Tokens \cup {NoToken}]
        /\ collect' \in [Role -> Nat] /\ tries' \in [Role -> SUBSET Pairs]
        /\ SentIsUnderWay'
    BY <1>1, <2>1, <2>2, <2>3, BecomeKeeps
  <2>5. up' \in [Role -> Seq(Up)] /\ down' \in [Role -> Seq(Down)]
    <3>1. Append(up["guest"], Note("gone")) \in Seq(Up)
      BY <1>1, Messages DEF TypeOK
    <3> QED
      BY <1>1, <1>2, <3>1 DEF GuestLeaves, TypeOK
  <2>6. links' \in [Role -> Seq(Pairs)] /\ failed' \in [Role -> BOOLEAN]
    BY <1>1, <1>2 DEF GuestLeaves, TypeOK
  <2>7. /\ here' \in BOOLEAN /\ joins' < MaxJoins
        /\ UNCHANGED <<timeouts, retries, lost, joins, alone>>
    BY <1>2 DEF GuestLeaves, counts
  <2> QED
    BY <1>1, <1>2, <2>3, <2>4, <2>5, <2>6, <2>7 DEF GuestLeaves, MarkInv, TypeOK
<1>3. CASE GuestJoins
  <2>1. SentIsUnderWay'
    BY <1>1, <1>3 DEF GuestJoins, loop, tasks, SentIsUnderWay
  <2>2. up' \in [Role -> Seq(Up)] /\ down' \in [Role -> Seq(Down)]
    BY <1>1, <1>3, Messages DEF GuestJoins, TypeOK
  <2>3. joins' \in 0 .. MaxJoins /\ here' /\ present'
    BY <1>1, <1>3, BoundsAssumption DEF GuestJoins, MarkInv, TypeOK
  <2> QED
    BY <1>1, <1>3, <2>1, <2>2, <2>3 DEF GuestJoins, loop, tasks, MarkInv, TypeOK
<1> QED
  BY <1>2, <1>3

\* Every step keeps the types and the mark honest.
LEMMA MarkStep == MarkInv /\ [Next]_vars => MarkInv'
<1> SUFFICES ASSUME MarkInv, [Next]_vars PROVE MarkInv'
  OBVIOUS
<1>1. CASE UNCHANGED vars
  <2>1. UNCHANGED <<sent, local, peer, started, collect, ready, tries, links, failed, up, down,
                    present, here, timeouts, retries, lost, joins, alone>>
    BY <1>1 DEF vars, loop, tasks, net, counts
  <2> QED
    BY <2>1 DEF MarkInv, TypeOK, SentIsUnderWay
<1>2. CASE Next
  BY <1>2, LoopSteps, CollectedKeeps, LinkSteps, RelayKeeps, GuestSteps DEF Next
<1> QED
  BY <1>1, <1>2

\* The types, and that the mark is honest, from the first state on.
LEMMA MarkInvariant == Spec => []MarkInv
<1>1. Init => MarkInv
  <2> SUFFICES ASSUME Init PROVE MarkInv
    OBVIOUS
  <2>1. /\ up \in [Role -> Seq(Up)] /\ down \in [Role -> Seq(Down)]
        /\ links \in [Role -> Seq(Pairs)]
    BY Messages DEF Init
  <2>2. TypeOK
    <3>1. /\ timeouts \in 0 .. MaxTimeouts /\ retries \in 0 .. MaxRetries
          /\ lost \in 0 .. MaxLost /\ joins \in 0 .. MaxJoins
      BY BoundsAssumption DEF Init
    <3> QED
      BY <2>1, <3>1 DEF Init, TypeOK
  <2>3. SentIsUnderWay /\ here
    BY DEF Init, SentIsUnderWay
  <2> QED
    BY <2>2, <2>3 DEF MarkInv
<1> QED
  BY <1>1, MarkStep, PTL DEF Spec

\* The two loops, their tasks, the links and the relay keep their types, for
\* any number of infos in flight.
THEOREM TypeCorrect == Spec => []TypeOK
<1>1. MarkInv => TypeOK
  BY DEF MarkInv
<1> QED
  BY <1>1, MarkInvariant, PTL

\* A side that has marked its info as sent makes it, holds it or has used it,
\* whatever retries, new attempts and guests come and go.
THEOREM MarkIsHonest == Spec => []SentIsUnderWay
<1>1. MarkInv => SentIsUnderWay
  BY DEF MarkInv
<1> QED
  BY <1>1, MarkInvariant, PTL

-----------------------------------------------------------------------------
(* Silent waits. Who has no link and shows no failure has not started one,  *)
(* for want of its own info or of the peer's. Its own is under way when it   *)
(* is announced; the peer's is a matter of counting. A side that has heard   *)
(* from the other counts, and so does each info that is being made or is    *)
(* under way, and each announcement that is still to be made. An info that  *)
(* arrives is heard, or is answered when another was heard before; a retry  *)
(* forgets what was heard and makes an info. So the sum does not fall, and  *)
(* it is two when a guest comes in; when nothing is under way any more both *)
(* sides have heard. Only an info made in an empty room is lost.            *)

Has(q, m) == \E i \in 1 .. Len(q) : q[i] = m
Hello == Note("hello")
Gone == Note("gone")
Ready == Note("room-ready")
Joined == Note("peer-joined")
Left == Note("peer-left")

\* The message at place i of q is behind every word that a peer has left, and
\* so is an info t.
Current(q, i) == \A j \in 1 .. Len(q) : j >= i => q[j] # Left
Seen(q, t) == \E i \in 1 .. Len(q) : q[i] = Signal(t) /\ Current(q, i)

\* The infos under way to r of the peer it has now.
Coming(r) == {t \in Tokens : Has(up[Peer(r)], Signal(t)) \/ Seen(down[r], t)}

One(b) == IF b THEN 1 ELSE 0

\* What r has heard or has yet to announce; a host who is still to be told that
\* the last guest has left will be told of the next.
Share(r) == IF Has(down[r], Left) THEN 1 ELSE One(peer[r] # NoToken) + One(~sent[r])
Infos(r) == collect[r] + Cardinality(Coming(Peer(r)))

Enough == here /\ ~alone => Share("host") + Share("guest") + Infos("host") + Infos("guest") >= 2

\* Every info is under way once, and not to one that has heard it.
Once(q) == \A i, j \in 1 .. Len(q) : q[i].type = "signal" /\ q[i] = q[j] => i = j
Single(r) == /\ Once(down[r]) /\ Once(up[Peer(r)])
             /\ \A t \in Tokens : ~(Has(down[r], Signal(t)) /\ Has(up[Peer(r)], Signal(t)))
             /\ peer[r] # NoToken => /\ ~Has(down[r], Signal(peer[r]))
                                     /\ ~Has(up[Peer(r)], Signal(peer[r]))

\* The last in q is the word that the peer has left, if there is anything.
Over(q) == q # <<>> => q[Len(q)] = Left

\* The guest's way in and out: nothing is sent behind gone, and a host alone in
\* the room has not announced, or will hear that it is.
Door == /\ \A i \in 1 .. Len(up["host"]) : up["host"][i].type = "signal"
        /\ here => present
        /\ \A i \in 1 .. Len(up["guest"]) :
              up["guest"][i] = Gone => ~here /\ present /\ i = Len(up["guest"])
        /\ ~here /\ present => Has(up["guest"], Gone)
        /\ ~present => up["guest"] = <<>> /\ Over(down["host"])
        /\ ~Has(down["guest"], Left)
        /\ ~present /\ ~alone => Has(down["host"], Left) \/ ~sent["host"]

\* Of a guest who is away nothing is left.
Vacant == ~here => /\ ~sent["guest"] /\ collect["guest"] = 0 /\ ready["guest"] = {}
                   /\ tries["guest"] = {} /\ links["guest"] = <<>> /\ ~failed["guest"]
                   /\ down["guest"] = <<>>

\* A host that has not announced to the guest in the room is told of it before
\* anything else, and a guest that it is in the room.
HostExpects ==
    present /\ (Has(down["host"], Left) \/ ~sent["host"])
       => \/ up["guest"] # <<>> /\ Head(up["guest"]) = Hello /\ Over(down["host"])
          \/ \E i \in 1 .. Len(down["host"]) :
                /\ down["host"][i] = Joined /\ Current(down["host"], i)
                /\ i # 1 => down["host"][i - 1] = Left
GuestExpects ==
    here /\ ~sent["guest"] => down["guest"] # <<>> /\ Head(down["guest"]) = Ready

\* Who has not announced yet has not heard anything.
Unheard(r) == ~sent[r] /\ ~Has(down[r], Left) => peer[r] = NoToken

\* A loop that has both infos has started; who has started knows how it ends.
Met(s) == s.started \/ NoToken \in {s.local, s.peer}
Started(r) == /\ Met(State(r))
              /\ started[r] => tries[r] # {} \/ links[r] # <<>> \/ failed[r]

WaitInv == /\ MarkInv /\ Enough /\ Door /\ Vacant /\ HostExpects /\ GuestExpects
           /\ \A r \in Role : Single(r) /\ Unheard(r) /\ Started(r)

-----------------------------------------------------------------------------
(* Queues of messages                                                      *)

\* What tells messages apart.
LEMMA MessageFacts ==
    /\ \A t : Signal(t).type = "signal" /\ Signal(t).token = t
    /\ Hello.type = "hello" /\ Gone.type = "gone" /\ Ready.type = "room-ready"
    /\ Joined.type = "peer-joined" /\ Left.type = "peer-left"
    /\ \A m \in Up : \/ m.type = "signal" /\ m.token \in Tokens /\ m = Signal(m.token)
                     \/ m.type = "hello" /\ m = Hello
                     \/ m.type = "gone" /\ m = Gone
    /\ \A m \in Down : \/ m.type = "signal" /\ m.token \in Tokens /\ m = Signal(m.token)
                       \/ m.type = "room-ready" /\ m = Ready
                       \/ m.type = "peer-joined" /\ m = Joined
                       \/ m.type = "peer-left" /\ m = Left
  BY DEF Signal, Note, Hello, Gone, Ready, Joined, Left, Up, Down

\* A queue with an element more, and with one less.
LEMMA Ends ==
    ASSUME NEW T, NEW q \in Seq(T)
    PROVE  /\ Len(q) \in Nat /\ (q = <<>> <=> Len(q) = 0)
           /\ \A i \in 1 .. Len(q) : q[i] \in T
           /\ \A e \in T : /\ Append(q, e) \in Seq(T) /\ Append(q, e) # <<>>
                           /\ Len(Append(q, e)) = Len(q) + 1
                           /\ \A i \in 1 .. Len(q) : Append(q, e)[i] = q[i]
                           /\ Append(q, e)[Len(q) + 1] = e
                           /\ Head(Append(q, e)) = IF q = <<>> THEN e ELSE Head(q)
           /\ q # <<>> => /\ Head(q) = q[1] /\ Head(q) \in T
                          /\ Tail(q) \in Seq(T) /\ Len(Tail(q)) = Len(q) - 1
                          /\ \A i \in 1 .. Len(Tail(q)) : Tail(q)[i] = q[i + 1]
  OBVIOUS

LEMMA HasAppend ==
    ASSUME NEW T, NEW q \in Seq(T), NEW e \in T, NEW m
    PROVE  Has(Append(q, e), m) <=> Has(q, m) \/ m = e
<1> DEFINE a == Append(q, e)
<1>1. /\ Len(q) \in Nat /\ Len(a) = Len(q) + 1 /\ a[Len(q) + 1] = e
      /\ \A i \in 1 .. Len(q) : a[i] = q[i]
  BY Ends
<1> HIDE DEF a
<1>2. Has(a, m) => Has(q, m) \/ m = e
  BY <1>1 DEF Has
<1>3. Has(q, m) => Has(a, m)
  <2> SUFFICES ASSUME NEW i \in 1 .. Len(q), q[i] = m PROVE Has(a, m)
    BY DEF Has
  <2>1. i \in 1 .. Len(a) /\ a[i] = m
    BY <1>1
  <2> QED
    BY <2>1 DEF Has
<1>4. m = e => Has(a, m)
  <2>1. Len(q) + 1 \in 1 .. Len(a)
    BY <1>1
  <2> QED
    BY <1>1, <2>1 DEF Has
<1> QED
  BY <1>2, <1>3, <1>4 DEF a

LEMMA HasTail ==
    ASSUME NEW T, NEW q \in Seq(T), q # <<>>, NEW m
    PROVE  Has(q, m) <=> Has(Tail(q), m) \/ m = Head(q)
<1> DEFINE b == Tail(q)
<1>1. /\ Len(q) \in Nat /\ Len(q) > 0 /\ Len(b) = Len(q) - 1 /\ Head(q) = q[1]
      /\ \A i \in 1 .. Len(b) : b[i] = q[i + 1]
  BY Ends
<1> HIDE DEF b
<1>2. ASSUME NEW i \in 1 .. Len(q), q[i] = m PROVE Has(b, m) \/ m = q[1]
  <2>1. CASE i # 1
    <3>1. i - 1 \in 1 .. Len(b) /\ b[i - 1] = q[(i - 1) + 1] /\ (i - 1) + 1 = i
      BY <1>1, <2>1
    <3> QED
      BY <1>2, <3>1 DEF Has
  <2> QED
    BY <1>2, <2>1
<1>3. ASSUME NEW i \in 1 .. Len(b), b[i] = m PROVE Has(q, m)
  <2>1. i + 1 \in 1 .. Len(q) /\ q[i + 1] = m
    BY <1>1, <1>3
  <2> QED
    BY <2>1 DEF Has
<1>4. Has(q, q[1])
  <2>1. 1 \in 1 .. Len(q)
    BY <1>1
  <2> QED
    BY <2>1 DEF Has
<1> QED
  BY <1>1, <1>2, <1>3, <1>4 DEF Has, b

LEMMA CurrentEnds ==
    ASSUME NEW q \in Seq(Down)
    PROVE  /\ \A e \in Down : \A i \in 1 .. Len(q) :
                 Current(Append(q, e), i) <=> Current(q, i) /\ e # Left
           /\ \A e \in Down : Current(Append(q, e), Len(q) + 1) <=> e # Left
           /\ q # <<>> => \A i \in 1 .. Len(Tail(q)) : Current(Tail(q), i) <=> Current(q, i + 1)
           /\ Current(q, 1) <=> ~Has(q, Left)
<1>1. ASSUME NEW e \in Down
      PROVE  /\ \A i \in 1 .. Len(q) : Current(Append(q, e), i) <=> Current(q, i) /\ e # Left
             /\ Current(Append(q, e), Len(q) + 1) <=> e # Left
  <2> DEFINE a == Append(q, e)
  <2>1. /\ Len(q) \in Nat /\ Len(a) = Len(q) + 1 /\ a[Len(q) + 1] = e
        /\ \A i \in 1 .. Len(q) : a[i] = q[i]
    BY Ends
  <2> HIDE DEF a
  <2>2. /\ \A j \in 1 .. Len(q) : j \in 1 .. Len(a)
        /\ Len(q) + 1 \in 1 .. Len(a)
        /\ \A j \in 1 .. Len(a) : j \in 1 .. Len(q) \/ j = Len(q) + 1
    BY <2>1
  <2>3. ASSUME NEW i \in 1 .. Len(q) PROVE Current(a, i) <=> Current(q, i) /\ e # Left
    <3>1. Len(q) + 1 >= i
      BY <2>1
    <3>2. Current(a, i) => Current(q, i) /\ e # Left
      BY <2>1, <2>2, <3>1 DEF Current
    <3>3. Current(q, i) /\ e # Left => Current(a, i)
      BY <2>1, <2>2 DEF Current
    <3> QED
      BY <3>2, <3>3
  <2>4. Current(a, Len(q) + 1) <=> e # Left
    <3>1. \A j \in 1 .. Len(a) : j >= Len(q) + 1 <=> j = Len(q) + 1
      BY <2>1
    <3> QED
      BY <2>1, <2>2, <3>1 DEF Current
  <2> QED
    BY <2>3, <2>4 DEF a
<1>2. ASSUME q # <<>>, NEW i \in 1 .. Len(Tail(q))
      PROVE  Current(Tail(q), i) <=> Current(q, i + 1)
  <2> DEFINE b == Tail(q)
  <2>1. /\ Len(q) \in Nat /\ Len(b) = Len(q) - 1 /\ i \in 1 .. Len(b)
        /\ \A j \in 1 .. Len(b) : b[j] = q[j + 1]
    BY <1>2, Ends
  <2> HIDE DEF b
  <2>2. Current(b, i) => Current(q, i + 1)
    <3> SUFFICES ASSUME Current(b, i), NEW j \in 1 .. Len(q), j >= i + 1 PROVE q[j] # Left
      BY DEF Current
    <3>1. j - 1 \in 1 .. Len(b) /\ j - 1 >= i /\ b[j - 1] = q[(j - 1) + 1] /\ (j - 1) + 1 = j
      BY <2>1
    <3> QED
      BY <3>1 DEF Current
  <2>3. Current(q, i + 1) => Current(b, i)
    <3> SUFFICES ASSUME Current(q, i + 1), NEW j \in 1 .. Len(b), j >= i PROVE b[j] # Left
      BY DEF Current
    <3>1. j + 1 \in 1 .. Len(q) /\ j + 1 >= i + 1 /\ b[j] = q[j + 1]
      BY <2>1
    <3> QED
      BY <3>1 DEF Current
  <2> QED
    BY <2>2, <2>3 DEF b
<1>3. Current(q, 1) <=> ~Has(q, Left)
  <2>1. \A j \in 1 .. Len(q) : j >= 1
    BY Ends
  <2> QED
    BY <2>1 DEF Current, Has
<1> QED
  BY <1>1, <1>2, <1>3

\* What is behind the last word that a peer has left.
LEMMA SeenAppend ==
    ASSUME NEW q \in Seq(Down), NEW e \in Down, e # Left, NEW t
    PROVE  Seen(Append(q, e), t) <=> Seen(q, t) \/ e = Signal(t)
<1> DEFINE a == Append(q, e)
<1>1. /\ Len(q) \in Nat /\ Len(a) = Len(q) + 1 /\ a[Len(q) + 1] = e
      /\ \A i \in 1 .. Len(q) : a[i] = q[i]
      /\ \A i \in 1 .. Len(q) : Current(a, i) <=> Current(q, i)
      /\ Current(a, Len(q) + 1)
  BY Ends, CurrentEnds
<1> HIDE DEF a
<1>2. /\ \A j \in 1 .. Len(q) : j \in 1 .. Len(a)
      /\ Len(q) + 1 \in 1 .. Len(a)
      /\ \A j \in 1 .. Len(a) : j \in 1 .. Len(q) \/ j = Len(q) + 1
  BY <1>1
<1>3. Seen(a, t) => Seen(q, t) \/ e = Signal(t)
  BY <1>1, <1>2 DEF Seen
<1>4. Seen(q, t) \/ e = Signal(t) => Seen(a, t)
  BY <1>1, <1>2 DEF Seen
<1> QED
  BY <1>3, <1>4 DEF a

LEMMA SeenTail ==
    ASSUME NEW q \in Seq(Down), q # <<>>, NEW t
    PROVE  Seen(q, t) <=> Seen(Tail(q), t) \/ (Head(q) = Signal(t) /\ ~Has(q, Left))
<1> DEFINE b == Tail(q)
<1>1. /\ Len(q) \in Nat /\ Len(q) > 0 /\ Len(b) = Len(q) - 1 /\ Head(q) = q[1]
      /\ \A i \in 1 .. Len(b) : b[i] = q[i + 1]
      /\ \A i \in 1 .. Len(b) : Current(b, i) <=> Current(q, i + 1)
      /\ Current(q, 1) <=> ~Has(q, Left)
  BY Ends, CurrentEnds
<1> HIDE DEF b
<1>2. ASSUME NEW i \in 1 .. Len(q), q[i] = Signal(t), Current(q, i)
      PROVE  Seen(b, t) \/ (Head(q) = Signal(t) /\ ~Has(q, Left))
  <2>1. CASE i # 1
    <3>1. i - 1 \in 1 .. Len(b) /\ b[i - 1] = q[(i - 1) + 1] /\ (i - 1) + 1 = i
      BY <1>1, <2>1
    <3>2. Current(b, i - 1)
      BY <1>1, <1>2, <3>1
    <3> QED
      BY <1>2, <3>1, <3>2 DEF Seen
  <2> QED
    BY <1>1, <1>2, <2>1
<1>3. ASSUME NEW i \in 1 .. Len(b), b[i] = Signal(t), Current(b, i) PROVE Seen(q, t)
  <2>1. i + 1 \in 1 .. Len(q) /\ q[i + 1] = Signal(t) /\ Current(q, i + 1)
    BY <1>1, <1>3
  <2> QED
    BY <2>1 DEF Seen
<1>4. Head(q) = Signal(t) /\ ~Has(q, Left) => Seen(q, t)
  <2>1. 1 \in 1 .. Len(q)
    BY <1>1
  <2> QED
    BY <1>1, <2>1 DEF Seen
<1> QED
  BY <1>2, <1>3, <1>4 DEF Seen, b

LEMMA SeenHas == \A q, t : Seen(q, t) => Has(q, Signal(t))
  BY DEF Seen, Has

LEMMA OnceEnds ==
    ASSUME NEW T, NEW q \in Seq(T), Once(q)
    PROVE  /\ \A e \in T : (e.type = "signal" => ~Has(q, e)) => Once(Append(q, e))
           /\ q # <<>> => /\ Once(Tail(q))
                          /\ Head(q).type = "signal" => ~Has(Tail(q), Head(q))
<1>1. ASSUME NEW e \in T, e.type = "signal" => ~Has(q, e) PROVE Once(Append(q, e))
  <2> DEFINE a == Append(q, e)
  <2>1. /\ Len(q) \in Nat /\ Len(a) = Len(q) + 1 /\ a[Len(q) + 1] = e
        /\ \A i \in 1 .. Len(q) : a[i] = q[i]
    BY Ends
  <2> HIDE DEF a
  <2>2. \A j \in 1 .. Len(a) : j \in 1 .. Len(q) \/ j = Len(q) + 1
    BY <2>1
  <2>3. ASSUME NEW i \in 1 .. Len(a), NEW j \in 1 .. Len(a), a[i].type = "signal", a[i] = a[j]
        PROVE  i = j
    BY <1>1, <2>1, <2>2, <2>3 DEF Once, Has
  <2> QED
    BY <2>3 DEF Once, a
<1>2. ASSUME q # <<>> PROVE Once(Tail(q)) /\ (Head(q).type = "signal" => ~Has(Tail(q), Head(q)))
  <2> DEFINE b == Tail(q)
  <2>1. /\ Len(q) \in Nat /\ Len(q) > 0 /\ Len(b) = Len(q) - 1 /\ Head(q) = q[1]
        /\ \A i \in 1 .. Len(b) : b[i] = q[i + 1]
    BY <1>2, Ends
  <2> HIDE DEF b
  <2>2. 1 \in 1 .. Len(q) /\ \A i \in 1 .. Len(b) : i + 1 \in 1 .. Len(q) /\ i + 1 # 1
    BY <2>1
  <2>3. ASSUME NEW i \in 1 .. Len(b), NEW j \in 1 .. Len(b), b[i].type = "signal", b[i] = b[j]
        PROVE  i = j
    <3>1. i + 1 = j + 1
      BY <2>1, <2>2, <2>3 DEF Once
    <3> QED
      BY <2>1, <3>1
  <2>4. q[1].type = "signal" => \A i \in 1 .. Len(b) : b[i] # q[1]
    BY <2>1, <2>2 DEF Once
  <2> QED
    BY <2>1, <2>3, <2>4 DEF Once, Has, b
<1> QED
  BY <1>1, <1>2

-----------------------------------------------------------------------------
(* What the steps do to what is counted                                    *)

LEMMA TwoSides ==
    /\ Role = {"host", "guest"} /\ "host" # "guest"
    /\ Peer("host") = "guest" /\ Peer("guest") = "host"
    /\ \A r \in Role : Peer(r) \in Role /\ Peer(r) # r /\ Peer(Peer(r)) = r
  BY DEF Role, Peer

LEMMA AnnounceEffect ==
    ASSUME NEW s \in Loops
    PROVE  LET a == Announce(s)
           IN  /\ a.sent /\ a.peer = s.peer /\ a.collect = s.collect + One(~s.sent)
               /\ a.started = s.started /\ a.local = s.local /\ a.tries = s.tries
<1>1. CASE s.sent
  <2>1. Announce(s) = s /\ s.collect \in Nat
    BY <1>1 DEF Announce, Loops
  <2> QED
    BY <1>1, <2>1 DEF One
<1>2. CASE ~s.sent
  <2>1. Announce(s) = [s EXCEPT !.sent = TRUE, !.collect = s.collect + 1]
    BY <1>2 DEF Announce
  <2> QED
    BY <1>2, <2>1 DEF One, Loops
<1> QED
  BY <1>1, <1>2

LEMMA StartEffect ==
    ASSUME NEW s \in Loops
    PROVE  LET a == Start(s)
           IN  /\ a.sent = s.sent /\ a.peer = s.peer /\ a.collect = s.collect
               /\ Met(a)
               /\ a.started => a.tries # {} \/ (s.started /\ a.tries = s.tries)
<1>1. CASE s.started \/ NoToken \in {s.local, s.peer}
  BY <1>1 DEF Start, Met
<1>2. CASE ~(s.started \/ NoToken \in {s.local, s.peer})
  <2>1. Start(s) = [s EXCEPT !.started = TRUE, !.local = NoToken,
                             !.tries = s.tries \cup {Pair(s.local, s.peer)}]
    BY <1>2 DEF Start, StartTry
  <2> QED
    BY <2>1 DEF Loops, Met
<1> QED
  BY <1>1, <1>2

LEMMA ResetEffect ==
    ASSUME NEW s \in Loops
    PROVE  LET f == ForgetPeer(s)
               a == Announce(f)
           IN  /\ ~f.sent /\ f.peer = NoToken /\ f.collect = s.collect /\ ~f.started /\ Met(f)
               /\ a.sent /\ a.peer = NoToken /\ a.collect = s.collect + 1 /\ ~a.started /\ Met(a)
<1> DEFINE f == ForgetPeer(s)
<1>1. /\ f \in Loops /\ ~f.sent /\ f.peer = NoToken /\ f.collect = s.collect
      /\ ~f.started /\ f.local = NoToken
  BY DEF Loops, ForgetPeer, Forget
<1> HIDE DEF f
<1>2. Met(f)
  BY <1>1 DEF Met
<1> QED
  BY <1>1, <1>2, AnnounceEffect DEF Met, One, f

\* Another info than the last is answered, the first is only heard.
LEMMA SignalEffect ==
    ASSUME NEW s \in Loops, NEW t \in Tokens, s.peer # t
    PROVE  LET a == OnSignal(s, t)
           IN  /\ a.peer = t /\ Met(a)
               /\ a.started => a.tries # {} \/ (s.started /\ a.tries = s.tries)
               /\ s.peer = NoToken => a.sent = s.sent /\ a.collect = s.collect
               /\ s.peer # NoToken => a.sent /\ a.collect = s.collect + 1
<1>1. CASE s.peer = NoToken
  <2> DEFINE f == [s EXCEPT !.peer = t]
  <2>1. /\ f \in Loops /\ f.peer = t /\ f.sent = s.sent /\ f.collect = s.collect
        /\ f.started = s.started /\ f.tries = s.tries
    BY DEF Loops
  <2>2. OnSignal(s, t) = Start(f)
    BY <1>1 DEF OnSignal, NewAttempt
  <2> HIDE DEF f
  <2> QED
    BY <1>1, <2>1, <2>2, StartEffect
<1>2. CASE s.peer # NoToken
  <2> DEFINE f == [Forget(s) EXCEPT !.peer = t]
             a == Announce(f)
  <2>1. /\ f \in Loops /\ f.peer = t /\ ~f.sent /\ f.collect = s.collect
        /\ ~f.started
    BY DEF Loops, Forget
  <2>2. OnSignal(s, t) = Start(Announce(f))
    BY <1>2 DEF OnSignal, NewAttempt
  <2> HIDE DEF f
  <2>3. a \in Loops /\ a.peer = t /\ a.sent /\ a.collect = s.collect + 1 /\ ~a.started
    <3>1. Honest(f, {})
      BY <2>1 DEF Honest
    <3> QED
      BY <2>1, <3>1, AnnounceEffect, AnnounceKeeps DEF One
  <2> HIDE DEF a
  <2> QED
    BY <1>2, <2>2, <2>3, StartEffect DEF a
<1> QED
  BY <1>1, <1>2

\* The loop of r after a step, and that of the other side.
LEMMA BecomeEffect ==
    ASSUME TypeOK, NEW r \in Role, NEW s \in Loops, Become(r, s)
    PROVE  /\ sent'[r] = s.sent /\ peer'[r] = s.peer /\ started'[r] = s.started
           /\ collect'[r] = s.collect /\ tries'[r] = s.tries /\ local'[r] = s.local
           /\ LET q == Peer(r)
              IN  /\ sent'[q] = sent[q] /\ peer'[q] = peer[q] /\ started'[q] = started[q]
                  /\ collect'[q] = collect[q] /\ tries'[q] = tries[q] /\ local'[q] = local[q]
           /\ Met(State(r))' <=> Met(s)
           /\ Met(State(Peer(r)))' <=> Met(State(Peer(r)))
<1>1. Peer(r) \in Role /\ Peer(r) # r
  BY TwoSides
<1>2. /\ sent'[r] = s.sent /\ peer'[r] = s.peer /\ started'[r] = s.started
      /\ collect'[r] = s.collect /\ tries'[r] = s.tries /\ local'[r] = s.local
  BY DEF TypeOK, Become
<1>3. LET q == Peer(r)
      IN  /\ sent'[q] = sent[q] /\ peer'[q] = peer[q] /\ started'[q] = started[q]
          /\ collect'[q] = collect[q] /\ tries'[q] = tries[q] /\ local'[q] = local[q]
  BY <1>1 DEF TypeOK, Become
<1> QED
  BY <1>2, <1>3 DEF Met, State

\* Infos are finitely many, and one more or less counts as one.
LEMMA ComingCount ==
    ASSUME NEW S \in SUBSET Tokens
    PROVE  /\ IsFiniteSet(S) /\ Cardinality(S) \in Nat
           /\ \A t \in Tokens \ S : Cardinality(S \cup {t}) = Cardinality(S) + 1
           /\ \A t \in S : Cardinality(S \ {t}) = Cardinality(S) - 1
<1>1. IsFiniteSet(S)
  BY TokensAssumption, FS_Subset
<1>2. Cardinality(S) \in Nat
  BY <1>1, FS_CardinalityType
<1>3. \A t \in Tokens \ S : Cardinality(S \cup {t}) = Cardinality(S) + 1
  BY <1>1, FS_AddElement
<1>4. \A t \in S : Cardinality(S \ {t}) = Cardinality(S) - 1
  BY <1>1, FS_RemoveElement
<1> QED
  BY <1>1, <1>2, <1>3, <1>4

LEMMA CountsAreNat ==
    ASSUME TypeOK, NEW r \in Role
    PROVE  /\ collect[r] \in Nat /\ Coming(r) \subseteq Tokens /\ Cardinality(Coming(r)) \in Nat
           /\ Infos(r) \in Nat /\ Share(r) \in Nat
<1>1. \A q \in Role : Coming(q) \subseteq Tokens /\ Cardinality(Coming(q)) \in Nat
  BY ComingCount DEF Coming
<1> QED
  BY <1>1, TwoSides DEF TypeOK, Infos, Share, One

-----------------------------------------------------------------------------
(* The steps                                                               *)

\* The sum as one side sees it.
Sum == Share("host") + Share("guest") + Infos("host") + Infos("guest")

LEMMA SumOfSides ==
    ASSUME TypeOK, NEW r \in Role
    PROVE  Sum = Share(r) + Share(Peer(r)) + collect[r] + collect[Peer(r)]
                  + Cardinality(Coming(r)) + Cardinality(Coming(Peer(r)))
<1>1. \A q \in Role : /\ Share(q) \in Nat /\ collect[q] \in Nat
                      /\ Cardinality(Coming(q)) \in Nat
  BY CountsAreNat
<1>2. "host" \in Role /\ "guest" \in Role
  BY TwoSides
<1>3. CASE r = "host"
  BY <1>1, <1>2, <1>3, TwoSides DEF Sum, Infos
<1>4. CASE r = "guest"
  BY <1>1, <1>2, <1>4, TwoSides DEF Sum, Infos
<1> QED
  BY <1>3, <1>4, TwoSides

\* What is counted, expected and under way does not depend on tries and links.
LEMMA WayKept ==
    ASSUME WaitInv, UNCHANGED <<sent, peer, collect, up, down, present, here, alone>>
    PROVE  /\ Enough' /\ Door' /\ HostExpects' /\ GuestExpects'
           /\ \A r \in Role : Single(r)' /\ Unheard(r)'
<1>1. \A r : Coming(r)' = Coming(r)
  BY DEF Coming, Seen, Has, Current
<1>2. \A r : Share(r)' = Share(r) /\ Infos(r)' = Infos(r)
  BY <1>1 DEF Share, Infos, Has
<1>3. Enough'
  BY <1>2 DEF WaitInv, Enough
<1>4. Door'
  BY DEF WaitInv, Door, Has, Over
<1>5. HostExpects' /\ GuestExpects'
  BY DEF WaitInv, HostExpects, GuestExpects, Has, Over, Current
<1>6. \A r \in Role : Single(r)' /\ Unheard(r)'
  BY DEF WaitInv, Single, Once, Unheard, Has
<1> QED
  BY <1>3, <1>4, <1>5, <1>6

\* The first message to a loop that has not announced is one that makes it.
LEMMA FirstWord ==
    ASSUME WaitInv, NEW r \in Role, down[r] # <<>>, ~sent[r], ~Has(down[r], Left)
    PROVE  Head(down[r]) = IF r = "host" THEN Joined ELSE Ready
<1>1. TypeOK /\ Door /\ Vacant /\ HostExpects /\ GuestExpects
  BY DEF WaitInv, MarkInv
<1>2. CASE r = "host"
  <2> DEFINE q == down["host"]
  <2>1. q \in Seq(Down) /\ q # <<>> /\ ~Has(q, Left)
    BY <1>1, <1>2 DEF TypeOK
  <2>2. /\ Len(q) \in Nat /\ Len(q) > 0 /\ Head(q) = q[1]
    BY <2>1, Ends
  <2> HIDE DEF q
  <2>3. ~Over(q)
    <3>1. Len(q) \in 1 .. Len(q)
      BY <2>2
    <3> QED
      BY <2>1, <3>1 DEF Over, Has
  <2>4. present
    BY <1>1, <2>3 DEF Door, q
  <2>5. PICK i \in 1 .. Len(q) : q[i] = Joined /\ (i # 1 => q[i - 1] = Left)
    BY <1>1, <1>2, <2>3, <2>4 DEF HostExpects, q
  <2>6. i = 1
    <3> SUFFICES ASSUME i # 1 PROVE FALSE
      OBVIOUS
    <3>1. i - 1 \in 1 .. Len(q) /\ q[i - 1] = Left
      BY <2>2, <2>5
    <3> QED
      BY <2>1, <3>1 DEF Has
  <2> QED
    BY <1>2, <2>2, <2>5, <2>6 DEF q
<1>3. CASE r = "guest"
  <2>1. here
    BY <1>1, <1>3 DEF Vacant
  <2> QED
    BY <1>1, <1>3, <2>1 DEF GuestExpects
<1> QED
  BY <1>2, <1>3, TwoSides

\* What an envelope m makes of a loop s, an info being one it has not heard.
Answered(r, s, m, a) ==
    /\ a.started => a.tries # {} \/ (s.started /\ a.tries = s.tries /\ m # Left)
    /\ m = Left => ~a.sent /\ a.peer = NoToken /\ a.collect = s.collect
    /\ m # Left => (s.sent => a.sent) /\ a.collect >= s.collect
    /\ m \in {Joined, Ready} =>
          a.peer = s.peer /\ a.collect + One(~a.sent) = s.collect + One(~s.sent)
    /\ m = (IF r = "host" THEN Joined ELSE Ready) => a.sent
    /\ m.type = "signal" =>
          /\ a.peer = m.token
          /\ s.peer = NoToken => a.sent = s.sent /\ a.collect = s.collect
          /\ s.peer # NoToken => a.sent /\ a.collect = s.collect + 1

LEMMA EnvelopeEffect ==
    ASSUME NEW s \in Loops, NEW rd, Honest(s, rd), NEW m \in Down, NEW r \in Role, Met(s),
           m.type = "signal" => s.peer # m.token
    PROVE  LET a == OnEnvelope(r, s, m)
           IN  a \in Loops /\ Met(a) /\ Answered(r, s, m, a)
<1> DEFINE a == OnEnvelope(r, s, m)
<1>1. a \in Loops
  BY OnEnvelopeKeeps
<1>2. s.collect \in Nat /\ s.sent \in BOOLEAN
  BY DEF Loops
<1>3. CASE m = Joined \/ (m = Ready /\ r = "guest")
  <2>1. a = Announce(s) /\ m # Left /\ m.type # "signal"
    BY <1>3, MessageFacts DEF OnEnvelope
  <2> HIDE DEF a
  <2>2. /\ a.sent /\ a.peer = s.peer /\ a.collect = s.collect + One(~s.sent)
        /\ a.started = s.started /\ a.local = s.local /\ a.tries = s.tries
    BY <2>1, AnnounceEffect
  <2>3. One(~a.sent) = 0 /\ One(~s.sent) \in {0, 1}
    BY <2>2 DEF One
  <2>4. Met(a)
    BY <2>2 DEF Met
  <2>5. a.collect >= s.collect /\ a.collect + One(~a.sent) = s.collect + One(~s.sent)
    BY <1>2, <2>2, <2>3
  <2>6. Answered(r, s, m, a)
    BY <2>1, <2>2, <2>5 DEF Answered
  <2> QED
    BY <1>1, <2>4, <2>6 DEF a
<1>4. CASE m = Ready /\ r = "host"
  <2>1. a = s /\ m # Left /\ m # Joined /\ m.type # "signal"
    BY <1>4, MessageFacts, TwoSides DEF OnEnvelope
  <2>2. Answered(r, s, m, s)
    BY <1>2, <1>4, <2>1 DEF Answered
  <2> QED
    BY <1>1, <2>1, <2>2
<1>5. CASE m = Left
  <2>1. a = ForgetPeer(s) /\ m # Joined /\ m # Ready /\ m.type # "signal"
    BY <1>5, MessageFacts DEF OnEnvelope
  <2> HIDE DEF a
  <2>2. ~a.sent /\ a.peer = NoToken /\ a.collect = s.collect /\ ~a.started /\ Met(a)
    BY <2>1, ResetEffect
  <2>3. Answered(r, s, m, a)
    BY <1>5, <2>1, <2>2 DEF Answered
  <2> QED
    BY <1>1, <2>2, <2>3 DEF a
<1>6. CASE m.type = "signal"
  <2>1. a = OnSignal(s, m.token) /\ m # Left /\ m # Joined /\ m # Ready /\ m.token \in Tokens
    BY <1>6, MessageFacts DEF OnEnvelope
  <2> HIDE DEF a
  <2>2. /\ a.peer = m.token /\ Met(a)
        /\ a.started => a.tries # {} \/ (s.started /\ a.tries = s.tries)
        /\ s.peer = NoToken => a.sent = s.sent /\ a.collect = s.collect
        /\ s.peer # NoToken => a.sent /\ a.collect = s.collect + 1
    BY <1>6, <2>1, SignalEffect
  <2>3. (s.sent => a.sent) /\ a.collect >= s.collect
    BY <1>2, <2>2
  <2>4. Answered(r, s, m, a)
    BY <1>6, <2>1, <2>2, <2>3 DEF Answered
  <2> QED
    BY <1>1, <2>2, <2>4 DEF a
<1> QED
  BY <1>3, <1>4, <1>5, <1>6, MessageFacts, TwoSides

\* The same of the sum after a step.
LEMMA SumAfter ==
    ASSUME TypeOK', NEW r \in Role
    PROVE  /\ Sum' = Share(r)' + Share(Peer(r))' + collect'[r] + collect'[Peer(r)]
                      + Cardinality(Coming(r)') + Cardinality(Coming(Peer(r))')
           /\ \A q \in Role : /\ Share(q)' \in Nat /\ collect'[q] \in Nat /\ Infos(q)' \in Nat
                              /\ Coming(q)' \subseteq Tokens /\ Cardinality(Coming(q)') \in Nat
<1>1. ASSUME NEW q \in Role
      PROVE  /\ Coming(q)' \subseteq Tokens /\ Cardinality(Coming(q)') \in Nat
             /\ collect'[q] \in Nat /\ Share(q)' \in Nat /\ Infos(q)' \in Nat
  <2>1. \A p \in Role : Coming(p)' \subseteq Tokens /\ Cardinality(Coming(p)') \in Nat
    BY ComingCount DEF Coming
  <2> QED
    BY <2>1, TwoSides DEF TypeOK, Share, One, Infos
<1>2. "host" \in Role /\ "guest" \in Role
  BY TwoSides
<1>3. CASE r = "host"
  BY <1>1, <1>2, <1>3, TwoSides DEF Sum, Infos
<1>4. CASE r = "guest"
  BY <1>1, <1>2, <1>4, TwoSides DEF Sum, Infos
<1> QED
  BY <1>1, <1>3, <1>4, TwoSides

\* A sum that does not fall is enough.
LEMMA EnoughKept ==
    ASSUME TypeOK, TypeOK', Enough, here' => here, alone => alone', NEW r \in Role,
           Share(r)' + Share(Peer(r))' + collect'[r] + collect'[Peer(r)]
             + Cardinality(Coming(r)') + Cardinality(Coming(Peer(r))')
           >= Share(r) + Share(Peer(r)) + collect[r] + collect[Peer(r)]
               + Cardinality(Coming(r)) + Cardinality(Coming(Peer(r)))
    PROVE  Enough'
<1>1. Sum' >= Sum
  BY SumOfSides, SumAfter
<1>2. Sum \in Nat /\ Sum' \in Nat
  BY CountsAreNat, SumAfter, TwoSides DEF Sum
<1> QED
  BY <1>1, <1>2 DEF Enough, Sum

\* What one side hears does not depend on what the other does with its queue.
LEMMA SideKept ==
    ASSUME NEW r, up'[Peer(r)] = up[Peer(r)], down'[r] = down[r],
           peer'[r] = peer[r], sent'[r] = sent[r]
    PROVE  /\ Coming(r)' = Coming(r) /\ Share(r)' = Share(r)
           /\ (Single(r) => Single(r)')
           /\ (Unheard(r) => Unheard(r)')
<1>1. Coming(r)' = Coming(r)
  BY DEF Coming, Seen, Has, Current
<1>2. Share(r)' = Share(r)
  BY DEF Share, Has
<1>3. Single(r) => Single(r)'
  BY DEF Single, Once, Has
<1>4. Unheard(r) => Unheard(r)'
  BY DEF Unheard, Has
<1> QED
  BY <1>1, <1>2, <1>3, <1>4

\* Nor do its attempts and links.
LEMMA StartedKept ==
    ASSUME NEW r, started'[r] = started[r], local'[r] = local[r], peer'[r] = peer[r],
           tries'[r] = tries[r], links'[r] = links[r], failed'[r] = failed[r], Started(r)
    PROVE  Started(r)'
  BY DEF Started, Met, State

-----------------------------------------------------------------------------
(* A step of a dispatch loop                                               *)

\* What the loop answers, and what it leaves in its queue.
LEMMA DispatchFacts ==
    ASSUME WaitInv, NEW r \in Role, Dispatch(r)
    PROVE  LET p == Peer(r)
               q == down[r]
               m == Head(q)
               a == OnEnvelope(r, State(r), m)
           IN  /\ q \in Seq(Down) /\ q # <<>> /\ m \in Down /\ down'[r] = Tail(q)
               /\ a \in Loops /\ Met(a) /\ Answered(r, State(r), m, a)
               /\ sent'[r] = a.sent /\ peer'[r] = a.peer /\ collect'[r] = a.collect
               /\ started'[r] = a.started /\ tries'[r] = a.tries /\ Met(State(r))'
               /\ failed'[r] = (failed[r] /\ m # Left) /\ links'[r] = links[r]
               /\ /\ sent'[p] = sent[p] /\ peer'[p] = peer[p] /\ collect'[p] = collect[p]
                  /\ started'[p] = started[p] /\ tries'[p] = tries[p] /\ local'[p] = local[p]
                  /\ down'[p] = down[p] /\ failed'[p] = failed[p] /\ links'[p] = links[p]
               /\ up' = up /\ present' = present /\ here' = here /\ alone' = alone
               /\ ready' = ready
               /\ \A t : m = Signal(t) => t \in Tokens /\ peer[r] # t
<1> DEFINE p == Peer(r)
           q == down[r]
           m == Head(q)
           a == OnEnvelope(r, State(r), m)
<1>1. TypeOK /\ SentIsUnderWay /\ Single(r) /\ Started(r) /\ p \in Role /\ p # r
  BY TwoSides DEF WaitInv, MarkInv
<1>2. q \in Seq(Down) /\ q # <<>> /\ m \in Down
  <2>1. q \in Seq(Down) /\ q # <<>>
    BY <1>1 DEF TypeOK, Dispatch
  <2> QED
    BY <2>1, Ends
<1>3. ASSUME NEW t, m = Signal(t) PROVE t \in Tokens /\ peer[r] # t
  <2>1. t \in Tokens
    BY <1>2, <1>3, MessageFacts
  <2>2. Has(q, Signal(t))
    BY <1>2, <1>3, HasTail
  <2> QED
    BY <1>1, <2>1, <2>2, TokensAssumption DEF Single
<1>4. State(r) \in Loops /\ Honest(State(r), ready[r]) /\ Met(State(r))
  BY <1>1, StateOfSide DEF Started
<1>5. m.type = "signal" => State(r).peer # m.token
  BY <1>2, <1>3, MessageFacts DEF State
<1>6. a \in Loops /\ Met(a) /\ Answered(r, State(r), m, a)
  BY <1>2, <1>4, <1>5, EnvelopeEffect
<1>7. /\ Become(r, a) /\ down' = [down EXCEPT ![r] = Tail(down[r])]
      /\ failed' = [failed EXCEPT ![r] = failed[r] /\ m.type # "peer-left"]
      /\ UNCHANGED <<ready, links, up, present, here, counts>>
  BY DEF Dispatch
<1>8. m.type # "peer-left" <=> m # Left
  BY <1>2, MessageFacts
<1>9. down'[r] = Tail(q) /\ down'[p] = down[p] /\ failed'[p] = failed[p]
  BY <1>1, <1>7 DEF TypeOK
<1>10. failed'[r] = (failed[r] /\ m # Left)
  BY <1>1, <1>7, <1>8 DEF TypeOK
<1> HIDE DEF a
<1>11. /\ sent'[r] = a.sent /\ peer'[r] = a.peer /\ collect'[r] = a.collect
       /\ started'[r] = a.started /\ tries'[r] = a.tries
       /\ sent'[p] = sent[p] /\ peer'[p] = peer[p] /\ collect'[p] = collect[p]
       /\ started'[p] = started[p] /\ tries'[p] = tries[p] /\ local'[p] = local[p]
       /\ (Met(State(r))' <=> Met(a))
  BY <1>1, <1>6, <1>7, BecomeEffect
<1>12. UNCHANGED <<up, present, here, alone, ready, links>>
  BY <1>7 DEF counts
<1> QED
  BY <1>2, <1>3, <1>6, <1>9, <1>10, <1>11, <1>12 DEF a

\* What an info brings is heard or answered.
LEMMA DispatchCount ==
    ASSUME WaitInv, TypeOK', NEW r \in Role, Dispatch(r)
    PROVE  Enough'
<1> DEFINE p == Peer(r)
           q == down[r]
           m == Head(q)
           a == OnEnvelope(r, State(r), m)
<1>1. /\ TypeOK /\ Enough /\ Single(r) /\ Unheard(r) /\ Door
      /\ p \in Role /\ Peer(p) = r
  BY TwoSides DEF WaitInv, MarkInv
<1>2. /\ q \in Seq(Down) /\ q # <<>> /\ m \in Down /\ down'[r] = Tail(q)
      /\ Answered(r, State(r), m, a)
      /\ sent'[r] = a.sent /\ peer'[r] = a.peer /\ collect'[r] = a.collect
      /\ sent'[p] = sent[p] /\ peer'[p] = peer[p] /\ collect'[p] = collect[p]
      /\ down'[p] = down[p]
      /\ up' = up /\ here' = here /\ alone' = alone
      /\ \A t : m = Signal(t) => t \in Tokens /\ peer[r] # t
  BY DispatchFacts
<1> HIDE DEF a
<1>3. /\ collect[r] \in Nat /\ collect[p] \in Nat /\ Coming(r) \subseteq Tokens
      /\ Cardinality(Coming(r)) \in Nat
      /\ Share(r) \in Nat /\ Share(p) \in Nat /\ Cardinality(Coming(p)) \in Nat
      /\ collect'[r] \in Nat /\ Share(r)' \in Nat /\ Cardinality(Coming(r)') \in Nat
  BY <1>1, CountsAreNat, SumAfter
<1>4. Coming(p)' = Coming(p) /\ Share(p)' = Share(p)
  BY <1>1, <1>2, SideKept
<1>5. Has(q, Left) <=> Has(Tail(q), Left) \/ m = Left
  BY <1>2, HasTail
<1>6. /\ State(r).sent = sent[r] /\ State(r).peer = peer[r] /\ State(r).collect = collect[r]
      /\ sent[r] \in BOOLEAN
  BY <1>1 DEF State, TypeOK
<1>7. /\ Share(r) = IF Has(q, Left) THEN 1 ELSE One(peer[r] # NoToken) + One(~sent[r])
      /\ Share(r)' = IF Has(Tail(q), Left) THEN 1 ELSE One(a.peer # NoToken) + One(~a.sent)
      /\ One(TRUE) = 1 /\ One(FALSE) = 0
  BY <1>2 DEF Share, One
<1>8. ASSUME ~(m.type = "signal" /\ ~Has(q, Left)) PROVE Coming(r)' = Coming(r)
  <2>1. ASSUME NEW t PROVE Seen(q, t) <=> Seen(Tail(q), t)
    BY <1>2, <1>8, SeenTail, MessageFacts
  <2> QED
    BY <1>2, <2>1 DEF Coming
<1>9. Share(r)' + collect'[r] + Cardinality(Coming(r)')
        >= Share(r) + collect[r] + Cardinality(Coming(r))
  <2>1. CASE m = Left
    <3>1. Coming(r)' = Coming(r)
      BY <1>8, <2>1, MessageFacts
    <3>2. Share(r) = 1 /\ Share(r)' = 1 /\ collect'[r] = collect[r]
      <4>1. ~a.sent /\ a.peer = NoToken /\ a.collect = collect[r]
        BY <1>2, <1>6, <2>1 DEF Answered
      <4> QED
        BY <1>2, <1>5, <1>7, <2>1, <4>1 DEF One
    <3> QED
      BY <1>3, <3>1, <3>2
  <2>2. CASE m # Left /\ Has(q, Left)
    <3>1. Coming(r)' = Coming(r)
      BY <1>8, <2>2
    <3>2. Share(r) = 1 /\ Share(r)' = 1 /\ collect'[r] >= collect[r]
      BY <1>2, <1>5, <1>6, <1>7, <2>2 DEF Answered
    <3> QED
      BY <1>3, <3>1, <3>2
  <2>3. CASE m \in {Joined, Ready} /\ ~Has(q, Left)
    <3>1. Coming(r)' = Coming(r)
      BY <1>8, <2>3, MessageFacts
    <3>2. a.peer = peer[r] /\ a.collect + One(~a.sent) = collect[r] + One(~sent[r])
      BY <1>2, <1>6, <2>3 DEF Answered
    <3>3. One(~a.sent) \in Nat /\ One(~sent[r]) \in Nat /\ One(peer[r] # NoToken) \in Nat
      BY DEF One
    <3>4. /\ Share(r) = One(peer[r] # NoToken) + One(~sent[r])
          /\ Share(r)' = One(peer[r] # NoToken) + One(~a.sent)
      BY <1>5, <1>7, <2>3, <3>2
    <3>5. Share(r)' + a.collect = Share(r) + collect[r]
      <4>1. a.collect \in Nat /\ collect[r] \in Nat
        BY <1>2, <1>3
      <4> QED
        BY <3>2, <3>4, <4>1 DEF One
    <3> QED
      BY <1>2, <1>3, <3>1, <3>5
  <2>4. CASE m.type = "signal" /\ ~Has(q, Left)
    <3> DEFINE t == m.token
    <3>1. t \in Tokens /\ m = Signal(t) /\ t # NoToken
      BY <1>2, <2>4, MessageFacts, TokensAssumption
    <3>2. Coming(r)' = Coming(r) \ {t} /\ t \in Coming(r)
      <4>1. /\ Seen(q, t) /\ ~Seen(Tail(q), t)
        <5>1. ~Has(Tail(q), Signal(t))
          BY <1>1, <1>2, <2>4, <3>1, OnceEnds DEF Single
        <5> QED
          BY <1>2, <2>4, <3>1, <5>1, SeenTail, SeenHas
      <4>2. ~Has(up[p], Signal(t))
        <5>1. Has(q, Signal(t))
          BY <4>1, SeenHas
        <5> QED
          BY <1>1, <3>1, <5>1 DEF Single
      <4>3. ASSUME NEW u, u # t PROVE Seen(q, u) <=> Seen(Tail(q), u)
        <5>1. m # Signal(u)
          BY <3>1, <4>3, MessageFacts
        <5> QED
          BY <1>2, <5>1, SeenTail
      <4> HIDE DEF t
      <4> QED
        BY <1>2, <3>1, <4>1, <4>2, <4>3 DEF Coming
    <3>3. Cardinality(Coming(r)') = Cardinality(Coming(r)) - 1
      BY <1>3, <3>2, ComingCount
    <3>4. /\ a.peer = t
          /\ peer[r] = NoToken => a.sent = sent[r] /\ a.collect = collect[r]
          /\ peer[r] # NoToken => a.sent /\ a.collect = collect[r] + 1
      BY <1>2, <1>6, <2>4 DEF Answered
    <3>5. ~Has(Tail(q), Left) /\ (~sent[r] => peer[r] = NoToken)
      BY <1>1, <1>5, <2>4 DEF Unheard
    <3> HIDE DEF t
    <3>6. /\ Share(r) = One(peer[r] # NoToken) + One(~sent[r])
          /\ Share(r)' = 1 + One(~a.sent)
      BY <1>7, <2>4, <3>1, <3>4, <3>5
    <3>7. CASE peer[r] = NoToken
      <4>1. Share(r)' = Share(r) + 1
        BY <3>4, <3>6, <3>7 DEF One
      <4> QED
        <5>1. collect'[r] = collect[r]
          BY <1>2, <3>4, <3>7
        <5> QED
          BY <1>3, <3>3, <4>1, <5>1
    <3>8. CASE peer[r] # NoToken
      <4>1. Share(r)' = 1 /\ Share(r) = 1
        BY <1>6, <3>4, <3>5, <3>6, <3>8 DEF One
      <4> QED
        BY <1>2, <1>3, <3>3, <3>4, <3>8, <4>1
    <3> QED
      BY <3>7, <3>8
  <2> QED
    BY <1>2, <2>1, <2>2, <2>3, <2>4, MessageFacts
<1>10. Share(r)' + Share(p)' + collect'[r] + collect'[p]
         + Cardinality(Coming(r)') + Cardinality(Coming(p)')
       >= Share(r) + Share(p) + collect[r] + collect[p]
           + Cardinality(Coming(r)) + Cardinality(Coming(p))
  <2>1. collect'[p] = collect[p] /\ Cardinality(Coming(p)') = Cardinality(Coming(p))
    BY <1>2, <1>4
  <2> QED
    BY <1>3, <1>4, <1>9, <2>1
<1> QED
  BY <1>1, <1>2, <1>10, EnoughKept

\* What is under way stays so once, and what is heard was announced.
LEMMA DispatchSides ==
    ASSUME WaitInv, NEW r \in Role, Dispatch(r)
    PROVE  \A x \in Role : Single(x)' /\ Unheard(x)' /\ Started(x)'
<1> DEFINE p == Peer(r)
           q == down[r]
           m == Head(q)
           a == OnEnvelope(r, State(r), m)
<1>1. /\ TypeOK /\ Single(r) /\ Single(p) /\ Unheard(r) /\ Unheard(p) /\ Started(r) /\ Started(p)
      /\ p \in Role /\ Peer(p) = r /\ Role = {r, p}
  BY TwoSides DEF WaitInv, MarkInv
<1>2. /\ q \in Seq(Down) /\ q # <<>> /\ m \in Down /\ down'[r] = Tail(q)
      /\ Answered(r, State(r), m, a)
      /\ sent'[r] = a.sent /\ peer'[r] = a.peer
      /\ started'[r] = a.started /\ tries'[r] = a.tries /\ Met(State(r))'
      /\ failed'[r] = (failed[r] /\ m # Left) /\ links'[r] = links[r]
      /\ sent'[p] = sent[p] /\ peer'[p] = peer[p]
      /\ started'[p] = started[p] /\ tries'[p] = tries[p] /\ local'[p] = local[p]
      /\ down'[p] = down[p] /\ failed'[p] = failed[p] /\ links'[p] = links[p]
      /\ up' = up
      /\ \A t : m = Signal(t) => t \in Tokens /\ peer[r] # t
  BY DispatchFacts
<1> HIDE DEF a
<1>3. /\ State(r).sent = sent[r] /\ State(r).peer = peer[r]
      /\ State(r).started = started[r] /\ State(r).tries = tries[r]
  BY DEF State
<1>4. Single(p)' /\ Unheard(p)' /\ Started(p)'
  BY <1>1, <1>2, SideKept, StartedKept
<1>5. Single(r)'
  <2>1. \A e : Has(Tail(q), e) => Has(q, e)
    BY <1>2, HasTail
  <2>2. Once(Tail(q)) /\ Once(up[p])
    BY <1>1, <1>2, OnceEnds DEF Single
  <2>3. ASSUME a.peer # NoToken
        PROVE  ~Has(Tail(q), Signal(a.peer)) /\ ~Has(up[p], Signal(a.peer))
    <3>1. CASE m.type = "signal"
      <4>1. m = Signal(a.peer) /\ a.peer \in Tokens
        BY <1>2, <3>1, MessageFacts DEF Answered
      <4>2. ~Has(Tail(q), m) /\ Has(q, m)
        BY <1>1, <1>2, <3>1, OnceEnds, HasTail DEF Single
      <4> QED
        BY <1>1, <4>1, <4>2 DEF Single
    <3>2. CASE m.type # "signal"
      <4>1. a.peer = peer[r]
        BY <1>2, <1>3, <2>3, <3>2, MessageFacts DEF Answered
      <4> QED
        BY <1>1, <2>1, <2>3, <4>1 DEF Single
    <3> QED
      BY <3>1, <3>2
  <2> QED
    BY <1>1, <1>2, <2>1, <2>2, <2>3 DEF Single
<1>6. Unheard(r)'
  <2> SUFFICES ASSUME ~a.sent, ~Has(Tail(q), Left), a.peer # NoToken PROVE FALSE
    BY <1>2 DEF Unheard
  <2>1. m # Left /\ ~sent[r] /\ ~Has(q, Left)
    BY <1>2, <1>3, HasTail DEF Answered
  <2>2. m = IF r = "host" THEN Joined ELSE Ready
    BY <1>2, <2>1, FirstWord
  <2> QED
    BY <1>2, <2>2 DEF Answered
<1>7. Started(r)'
  BY <1>1, <1>2, <1>3 DEF Started, Answered
<1> QED
  BY <1>1, <1>4, <1>5, <1>6, <1>7

\* The words that are due.
LEMMA DispatchWords ==
    ASSUME WaitInv, NEW r \in Role, Dispatch(r)
    PROVE  Door' /\ Vacant' /\ HostExpects' /\ GuestExpects'
<1> DEFINE p == Peer(r)
           q == down[r]
           m == Head(q)
           b == Tail(q)
           a == OnEnvelope(r, State(r), m)
<1>1. /\ TypeOK /\ Door /\ Vacant /\ HostExpects /\ GuestExpects
      /\ p \in Role /\ Peer(p) = r /\ p # r
      /\ (r = "host" /\ p = "guest") \/ (r = "guest" /\ p = "host")
  BY TwoSides DEF WaitInv, MarkInv
<1>2. /\ q \in Seq(Down) /\ q # <<>> /\ m \in Down /\ down'[r] = b
      /\ Answered(r, State(r), m, a)
      /\ sent'[r] = a.sent /\ collect'[r] = a.collect /\ tries'[r] = a.tries
      /\ failed'[r] = (failed[r] /\ m # Left) /\ links'[r] = links[r]
      /\ sent'[p] = sent[p] /\ collect'[p] = collect[p] /\ tries'[p] = tries[p]
      /\ down'[p] = down[p] /\ failed'[p] = failed[p] /\ links'[p] = links[p]
      /\ up' = up /\ present' = present /\ here' = here /\ alone' = alone /\ ready' = ready
  BY DispatchFacts
<1> HIDE DEF a
<1>3. State(r).sent = sent[r]
  BY DEF State
<1>4. /\ Len(q) \in Nat /\ m = q[1] /\ Len(b) = Len(q) - 1
      /\ \A i \in 1 .. Len(b) : b[i] = q[i + 1]
      /\ (b # <<>> => Len(b) \in Nat /\ Len(b) # 0)
  <2>1. b \in Seq(Down)
    BY <1>2, Ends
  <2>2. b # <<>> => Len(b) \in Nat /\ Len(b) # 0
    BY <2>1, Ends
  <2> QED
    BY <1>2, <2>2, Ends
<1>5. Has(q, Left) <=> Has(b, Left) \/ m = Left
  BY <1>2, HasTail
<1>6. m # Left => (sent[r] => a.sent)
  BY <1>2, <1>3 DEF Answered
<1>7. m = Left => ~a.sent
  BY <1>2 DEF Answered
<1>8. m = (IF r = "host" THEN Joined ELSE Ready) => a.sent
  BY <1>2 DEF Answered
<1> HIDE DEF b
<1>9. Over(q) => Over(b)
  <2> SUFFICES ASSUME Over(q), b # <<>> PROVE b[Len(b)] = Left
    BY DEF Over
  <2>1. Len(b) \in 1 .. Len(b) /\ Len(b) + 1 = Len(q)
    BY <1>4
  <2> QED
    BY <1>2, <1>4, <2>1 DEF Over
<1>10. CASE r = "guest"
  <2>1. down'["host"] = down["host"] /\ sent'["host"] = sent["host"] /\ q = down["guest"]
        /\ down'["guest"] = b /\ sent'["guest"] = a.sent
    BY <1>1, <1>2, <1>10
  <2>2. here
    BY <1>2, <2>1, <1>1 DEF Vacant
  <2>3. ~Has(q, Left)
    BY <1>1, <2>1 DEF Door
  <2> HIDE DEF q
  <2>4. Door'
    BY <1>1, <1>2, <1>5, <2>1, <2>3 DEF Door
  <2>5. HostExpects'
    BY <1>1, <1>2, <2>1 DEF HostExpects
  <2>6. GuestExpects'
    <3> SUFFICES ASSUME ~a.sent PROVE FALSE
      BY <2>1 DEF GuestExpects
    <3>1. ~sent["guest"]
      BY <1>5, <1>6, <1>10, <2>3
    <3>2. m = Ready
      BY <1>1, <2>1, <2>2, <3>1 DEF GuestExpects
    <3> QED
      BY <1>8, <1>10, <3>2, TwoSides
  <2> QED
    BY <1>2, <2>2, <2>4, <2>5, <2>6 DEF Vacant
<1>11. CASE r = "host"
  <2>1. /\ down'["guest"] = down["guest"] /\ sent'["guest"] = sent["guest"] /\ q = down["host"]
        /\ down'["host"] = b /\ sent'["host"] = a.sent
        /\ collect'["guest"] = collect["guest"] /\ tries'["guest"] = tries["guest"]
        /\ links'["guest"] = links["guest"] /\ failed'["guest"] = failed["guest"]
    BY <1>1, <1>2, <1>11
  <2> HIDE DEF q
  <2>2. Vacant'
    BY <1>1, <1>2, <2>1 DEF Vacant
  <2>3. GuestExpects'
    BY <1>1, <1>2, <2>1 DEF GuestExpects
  <2>4. Door'
    <3>1. ASSUME ~present, ~alone PROVE Has(b, Left) \/ ~a.sent
      <4>1. Over(q)
        BY <1>1, <2>1, <3>1 DEF Door
      <4>2. Len(q) \in 1 .. Len(q)
        BY <1>2, <1>4, Ends
      <4>3. Has(q, Left)
        BY <1>2, <4>1, <4>2 DEF Over, Has
      <4> QED
        BY <1>5, <1>7, <4>3
    <3> QED
      BY <1>1, <1>2, <1>9, <2>1, <3>1 DEF Door
  <2>5. HostExpects'
    <3> SUFFICES ASSUME present, Has(b, Left) \/ ~a.sent
                 PROVE  \/ up["guest"] # <<>> /\ Head(up["guest"]) = Hello /\ Over(b)
                        \/ \E i \in 1 .. Len(b) : /\ b[i] = Joined /\ Current(b, i)
                                                  /\ i # 1 => b[i - 1] = Left
      BY <1>2, <2>1 DEF HostExpects
    <3>1. Has(q, Left) \/ ~sent["host"]
      BY <1>5, <1>6, <1>11
    <3>2. CASE up["guest"] # <<>> /\ Head(up["guest"]) = Hello /\ Over(q)
      BY <1>9, <3>2
    <3>3. ASSUME NEW i \in 1 .. Len(q), q[i] = Joined, Current(q, i), i # 1 => q[i - 1] = Left
          PROVE  \E j \in 1 .. Len(b) : /\ b[j] = Joined /\ Current(b, j)
                                        /\ j # 1 => b[j - 1] = Left
      <4>1. i # 1
        <5> SUFFICES ASSUME i = 1 PROVE FALSE
          OBVIOUS
        <5>1. m = Joined /\ ~Has(q, Left)
          BY <1>2, <1>4, <3>3, CurrentEnds
        <5> QED
          BY <1>5, <1>8, <1>11, <5>1
      <4> DEFINE j == i - 1
      <4>2. j \in 1 .. Len(b) /\ b[j] = q[j + 1] /\ j + 1 = i
        BY <1>4, <4>1
      <4>3. Current(b, j)
        BY <1>2, <3>3, <4>2, CurrentEnds DEF b
      <4>4. j # 1 => b[j - 1] = Left
        <5> SUFFICES ASSUME j # 1 PROVE b[j - 1] = Left
          OBVIOUS
        <5>1. j - 1 \in 1 .. Len(b) /\ b[j - 1] = q[(j - 1) + 1] /\ (j - 1) + 1 = i - 1
          BY <1>4, <4>2
        <5> QED
          BY <3>3, <4>1, <5>1
      <4> HIDE DEF j
      <4> QED
        BY <3>3, <4>2, <4>3, <4>4
    <3> QED
      BY <1>1, <2>1, <3>1, <3>2, <3>3 DEF HostExpects
  <2> QED
    BY <2>2, <2>3, <2>4, <2>5
<1> QED
  BY <1>1, <1>10, <1>11

-----------------------------------------------------------------------------
(* A retry, and the tasks                                                  *)

LEMMA RetryWaits ==
    ASSUME WaitInv, MarkInv', NEW r \in Role, Retry(r)
    PROVE  WaitInv'
<1> DEFINE p == Peer(r)
           a == Announce(ForgetPeer(State(r)))
<1>1. /\ TypeOK /\ TypeOK' /\ Enough /\ Door /\ Vacant /\ HostExpects /\ GuestExpects
      /\ Single(r) /\ Single(p) /\ Unheard(r) /\ Unheard(p) /\ Started(p)
      /\ p \in Role /\ Peer(p) = r /\ p # r /\ Role = {r, p}
      /\ (r = "host" /\ p = "guest") \/ (r = "guest" /\ p = "host")
  BY TwoSides DEF WaitInv, MarkInv
<1>2. State(r) \in Loops /\ State(r).collect = collect[r]
  BY <1>1, StateOfSide DEF State
<1>3. /\ a \in Loops /\ a.sent /\ a.peer = NoToken /\ a.collect = collect[r] + 1
      /\ ~a.started /\ Met(a)
  <2>1. ForgetPeer(State(r)) \in Loops /\ Honest(ForgetPeer(State(r)), {})
    BY <1>2, ForgetKeeps
  <2>2. a \in Loops
    BY <2>1, AnnounceKeeps
  <2> QED
    BY <1>2, <2>2, ResetEffect
<1>4. /\ Become(r, a) /\ failed[r] /\ failed' = [failed EXCEPT ![r] = FALSE]
      /\ alone' = (alone \/ (r = "host" /\ ~present))
      /\ UNCHANGED <<ready, links, up, down, present, here>>
  BY DEF Retry, net
<1> HIDE DEF a
<1>5. /\ sent'[r] /\ peer'[r] = NoToken /\ collect'[r] = collect[r] + 1
      /\ ~started'[r] /\ Met(State(r))'
      /\ sent'[p] = sent[p] /\ peer'[p] = peer[p] /\ started'[p] = started[p]
      /\ collect'[p] = collect[p] /\ tries'[p] = tries[p] /\ local'[p] = local[p]
  BY <1>1, <1>3, <1>4, BecomeEffect
<1>6. failed'[p] = failed[p] /\ links'[p] = links[p]
  BY <1>1, <1>4 DEF TypeOK
<1>7. /\ Coming(p)' = Coming(p) /\ Share(p)' = Share(p)
      /\ Single(p)' /\ Unheard(p)' /\ Started(p)'
  BY <1>1, <1>4, <1>5, <1>6, SideKept, StartedKept
<1>8. Coming(r)' = Coming(r)
  BY <1>4 DEF Coming, Has, Seen, Current
<1>9. Share(r)' + 1 >= Share(r)
  <2>1. /\ Share(r) = IF Has(down[r], Left) THEN 1
                      ELSE One(peer[r] # NoToken) + One(~sent[r])
        /\ Share(r)' = IF Has(down[r], Left) THEN 1 ELSE 0
    BY <1>4, <1>5 DEF Share, One, Has
  <2>2. Share(r) \in {0, 1}
    BY <1>1, <2>1 DEF Unheard, One
  <2> QED
    BY <2>1, <2>2
<1>10. Enough'
  <2>1. /\ collect[r] \in Nat /\ collect[p] \in Nat /\ Share(r) \in Nat /\ Share(p) \in Nat
        /\ Cardinality(Coming(r)) \in Nat /\ Cardinality(Coming(p)) \in Nat
        /\ Share(r)' \in Nat
    BY <1>1, CountsAreNat, SumAfter
  <2>2. Share(r)' + Share(p)' + collect'[r] + collect'[p]
          + Cardinality(Coming(r)') + Cardinality(Coming(p)')
        >= Share(r) + Share(p) + collect[r] + collect[p]
            + Cardinality(Coming(r)) + Cardinality(Coming(p))
    BY <1>5, <1>7, <1>8, <1>9, <2>1
  <2> QED
    BY <1>1, <1>4, <2>2, EnoughKept
<1>11. Single(r)' /\ Unheard(r)' /\ Started(r)'
  <2>1. Single(r)'
    BY <1>1, <1>4, <1>5 DEF Single, Once, Has
  <2> QED
    BY <1>5, <2>1 DEF Unheard, Started
<1>12. r = "guest" => here
  BY <1>1, <1>4 DEF Vacant
<1>13. Vacant'
  BY <1>1, <1>4, <1>5, <1>6, <1>12 DEF Vacant
<1>14. Door'
  <2>1. ASSUME ~present, ~alone' PROVE Has(down["host"], Left) \/ ~sent'["host"]
    BY <1>1, <1>4, <1>5, <2>1 DEF Door
  <2> QED
    BY <1>1, <1>4, <2>1 DEF Door, Has, Over
<1>15. HostExpects' /\ GuestExpects'
  <2>1. \A x \in Role : ~sent'[x] => ~sent[x]
    BY <1>1, <1>5
  <2> QED
    BY <1>1, <1>4, <2>1, TwoSides DEF HostExpects, GuestExpects, Has, Over, Current
<1> QED
  BY <1>1, <1>7, <1>10, <1>11, <1>13, <1>14, <1>15 DEF WaitInv

LEMMA PreparedWaits ==
    ASSUME WaitInv, MarkInv', NEW r \in Role, NEW t \in Tokens, Prepared(r, t)
    PROVE  WaitInv'
<1> DEFINE p == Peer(r)
           s == [State(r) EXCEPT !.local = t]
           a == Start(s)
<1>1. /\ TypeOK /\ Vacant /\ Started(r) /\ Started(p)
      /\ p \in Role /\ Peer(p) = r /\ p # r /\ Role = {r, p}
      /\ (r = "host" /\ p = "guest") \/ (r = "guest" /\ p = "host")
  BY TwoSides DEF WaitInv, MarkInv
<1>2. /\ s \in Loops /\ s.sent = sent[r] /\ s.peer = peer[r] /\ s.collect = collect[r]
      /\ s.started = started[r] /\ s.tries = tries[r] /\ Honest(s, {})
  <2>1. State(r) \in Loops
    BY <1>1, StateOfSide
  <2> QED
    BY <2>1, TokensAssumption DEF State, Loops, Honest
<1>3. /\ t \in ready[r] /\ ready' = [ready EXCEPT ![r] = ready[r] \ {t}] /\ Become(r, a)
      /\ UNCHANGED <<links, failed, up, down, present, here, alone>>
  BY DEF Prepared, net, counts
<1> HIDE DEF s
<1>4. /\ a \in Loops /\ a.sent = sent[r] /\ a.peer = peer[r] /\ a.collect = collect[r] /\ Met(a)
      /\ a.started => a.tries # {} \/ (started[r] /\ a.tries = tries[r])
  BY <1>2, StartEffect, StartKeeps
<1> HIDE DEF a
<1>5. /\ sent'[r] = sent[r] /\ peer'[r] = peer[r] /\ collect'[r] = collect[r]
      /\ started'[r] = a.started /\ tries'[r] = a.tries /\ Met(State(r))'
      /\ sent'[p] = sent[p] /\ peer'[p] = peer[p] /\ started'[p] = started[p]
      /\ collect'[p] = collect[p] /\ tries'[p] = tries[p] /\ local'[p] = local[p]
  BY <1>1, <1>3, <1>4, BecomeEffect
<1>6. UNCHANGED <<sent, peer, collect>>
  <2>1. /\ sent' = [sent EXCEPT ![r] = sent[r]] /\ peer' = [peer EXCEPT ![r] = peer[r]]
        /\ collect' = [collect EXCEPT ![r] = collect[r]]
    BY <1>3, <1>4 DEF Become
  <2> QED
    BY <1>1, <2>1 DEF TypeOK
<1>7. /\ Enough' /\ Door' /\ HostExpects' /\ GuestExpects'
      /\ \A x \in Role : Single(x)' /\ Unheard(x)'
  BY <1>3, <1>6, WayKept
<1>8. Started(r)' /\ Started(p)'
  BY <1>1, <1>3, <1>4, <1>5, StartedKept DEF Started
<1>9. Vacant'
  <2>1. ready'[p] = ready[p]
    BY <1>1, <1>3 DEF TypeOK
  <2>2. r = "guest" => here
    BY <1>1, <1>3 DEF Vacant
  <2> QED
    BY <1>1, <1>3, <1>5, <1>6, <2>1, <2>2 DEF Vacant
<1> QED
  BY <1>1, <1>7, <1>8, <1>9 DEF WaitInv

LEMMA LinkWaits ==
    ASSUME WaitInv, MarkInv',
           \/ \E r \in Role : Lost(r) \/ \E p \in tries[r] : Fails(r, p)
           \/ \E p \in Pairs : HostEstablishes(p) \/ GuestEstablishes(p)
    PROVE  WaitInv'
<1>1. /\ TypeOK /\ Vacant /\ \A r \in Role : Started(r)
      /\ Role = {"host", "guest"} /\ "host" # "guest"
  BY TwoSides DEF WaitInv, MarkInv
<1>2. UNCHANGED <<sent, local, peer, started, collect, ready, up, down, present, here, alone>>
  BY DEF Lost, Fails, HostEstablishes, GuestEstablishes, loop, tasks, net, counts
<1>3. /\ Enough' /\ Door' /\ HostExpects' /\ GuestExpects'
      /\ \A x \in Role : Single(x)' /\ Unheard(x)'
  BY <1>2, WayKept
<1>4. PICK r \in Role :
         /\ tries[r] # {} \/ links[r] # <<>>
         /\ \A x \in Role \ {r} : /\ tries'[x] = tries[x] /\ links'[x] = links[x]
                                  /\ failed'[x] = failed[x]
         /\ links'[r] # <<>> \/ failed'[r]
  <2>1. ASSUME NEW r \in Role, Lost(r)
        PROVE  /\ links[r] # <<>>
               /\ \A x \in Role \ {r} : /\ tries'[x] = tries[x] /\ links'[x] = links[x]
                                        /\ failed'[x] = failed[x]
               /\ links'[r] # <<>> \/ failed'[r]
    BY <1>1, <2>1 DEF Lost, TypeOK, tasks
  <2>2. ASSUME NEW r \in Role, NEW p \in tries[r], Fails(r, p)
        PROVE  /\ tries[r] # {}
               /\ \A x \in Role \ {r} : /\ tries'[x] = tries[x] /\ links'[x] = links[x]
                                        /\ failed'[x] = failed[x]
               /\ failed'[r]
    BY <1>1, <2>2 DEF Fails, TypeOK
  <2>3. ASSUME NEW p \in Pairs, HostEstablishes(p)
        PROVE  /\ tries["host"] # {}
               /\ \A x \in Role \ {"host"} : /\ tries'[x] = tries[x] /\ links'[x] = links[x]
                                             /\ failed'[x] = failed[x]
               /\ links'["host"] # <<>>
    <3>1. links["host"] \in Seq(Pairs) /\ links'["host"] = Append(links["host"], p)
      BY <1>1, <2>3 DEF HostEstablishes, TypeOK
    <3>2. links'["host"] # <<>>
      BY <3>1, Ends
    <3> QED
      BY <1>1, <2>3, <3>2 DEF HostEstablishes, TypeOK
  <2>4. ASSUME NEW p \in Pairs, GuestEstablishes(p)
        PROVE  /\ tries["guest"] # {}
               /\ \A x \in Role \ {"guest"} : /\ tries'[x] = tries[x] /\ links'[x] = links[x]
                                              /\ failed'[x] = failed[x]
               /\ links'["guest"] # <<>>
    <3>1. links["guest"] \in Seq(Pairs) /\ links'["guest"] = Append(links["guest"], p)
      BY <1>1, <2>4 DEF GuestEstablishes, TypeOK
    <3>2. links'["guest"] # <<>>
      BY <3>1, Ends
    <3> QED
      BY <1>1, <2>4, <3>2 DEF GuestEstablishes, TypeOK
  <2> QED
    BY <1>1, <2>1, <2>2, <2>3, <2>4
<1>5. ASSUME NEW x \in Role PROVE Started(x)'
  BY <1>1, <1>2, <1>4 DEF Started, Met, State
<1>6. Vacant'
  <2>1. r = "guest" => here
    BY <1>1, <1>4 DEF Vacant
  <2> QED
    BY <1>1, <1>2, <1>4, <2>1 DEF Vacant
<1> QED
  BY <1>3, <1>5, <1>6 DEF WaitInv

\* A new token is one that nobody has heard and that is not under way.
LEMMA UnusedFacts ==
    ASSUME TypeOK, NEW t \in Unused, NEW r \in Role
    PROVE  t \in Tokens /\ peer[r] # t /\ ~Has(up[r], Signal(t)) /\ ~Has(down[r], Signal(t))
<1>1. t \in Tokens /\ t \notin Mentioned(r)
  BY DEF Unused
<1>2. t # peer[r] /\ t \notin TokensIn(up[r]) /\ t \notin TokensIn(down[r])
  BY <1>1 DEF Mentioned
<1>3. ASSUME NEW q, t \notin TokensIn(q), NEW i \in 1 .. Len(q) PROVE q[i] # Signal(t)
  BY <1>3, MessageFacts DEF TokensIn
<1> QED
  BY <1>1, <1>2, <1>3 DEF Has

LEMMA CollectedWaits ==
    ASSUME WaitInv, MarkInv', NEW r \in Role, Collected(r)
    PROVE  WaitInv'
<1> DEFINE p == Peer(r)
<1>1. /\ TypeOK /\ TypeOK' /\ Enough /\ Door /\ Vacant /\ HostExpects /\ GuestExpects
      /\ Single(r) /\ Single(p) /\ Unheard(r) /\ Unheard(p) /\ Started(r) /\ Started(p)
      /\ p \in Role /\ Peer(p) = r /\ p # r /\ Role = {r, p}
      /\ (r = "host" /\ p = "guest") \/ (r = "guest" /\ p = "host")
  BY TwoSides DEF WaitInv, MarkInv
<1>2. PICK t \in Unused : /\ ready' = [ready EXCEPT ![r] = ready[r] \cup {t}]
                          /\ up' = [up EXCEPT ![r] = Append(up[r], Signal(t))]
  BY DEF Collected
<1>3. /\ collect[r] > 0 /\ collect' = [collect EXCEPT ![r] = collect[r] - 1]
      /\ UNCHANGED <<sent, local, peer, started, tries, links, failed, down, present, here, alone>>
  BY DEF Collected, loop, counts
<1>4. t \in Tokens /\ \A x \in Role : /\ peer[x] # t /\ ~Has(up[x], Signal(t))
                                      /\ ~Has(down[x], Signal(t))
  BY <1>1, UnusedFacts
<1>5. /\ up[r] \in Seq(Up) /\ Signal(t) \in Up
      /\ up'[r] = Append(up[r], Signal(t)) /\ up'[p] = up[p]
      /\ ready'[p] = ready[p]
      /\ collect'[r] = collect[r] - 1 /\ collect'[p] = collect[p]
  BY <1>1, <1>2, <1>3, <1>4, Messages DEF TypeOK
<1>6. \A m : Has(up'[r], m) <=> Has(up[r], m) \/ m = Signal(t)
  BY <1>5, HasAppend
<1>7. /\ Coming(r)' = Coming(r) /\ Share(r)' = Share(r) /\ Single(r)' /\ Unheard(r)'
  BY <1>1, <1>3, <1>5, SideKept
<1>8. Share(p)' = Share(p) /\ Unheard(p)'
  BY <1>1, <1>3 DEF Share, Has, Unheard
<1>9. Coming(p)' = Coming(p) \cup {t} /\ t \notin Coming(p)
  <2>1. \A u : Seen(down[p], u)' <=> Seen(down[p], u)
    BY <1>3
  <2>2. \A u : Signal(u) = Signal(t) <=> u = t
    BY MessageFacts
  <2>3. \A u : Has(up[r], Signal(u))' <=> Has(up[r], Signal(u)) \/ u = t
    BY <1>6, <2>2 DEF Has
  <2>4. ~Seen(down[p], t)
    BY <1>1, <1>4, SeenHas
  <2> QED
    BY <1>1, <1>4, <2>1, <2>3, <2>4 DEF Coming
<1>10. Enough'
  <2>1. /\ collect[r] \in Nat /\ collect[p] \in Nat /\ Share(r) \in Nat /\ Share(p) \in Nat
        /\ Cardinality(Coming(r)) \in Nat /\ Cardinality(Coming(p)) \in Nat
        /\ Coming(p) \subseteq Tokens
    BY <1>1, CountsAreNat
  <2>2. Cardinality(Coming(p)') = Cardinality(Coming(p)) + 1
    BY <1>4, <1>9, <2>1, ComingCount
  <2>3. Share(r)' + Share(p)' + collect'[r] + collect'[p]
          + Cardinality(Coming(r)') + Cardinality(Coming(p)')
        >= Share(r) + Share(p) + collect[r] + collect[p]
            + Cardinality(Coming(r)) + Cardinality(Coming(p))
    <3>1. /\ Share(r)' = Share(r) /\ Share(p)' = Share(p)
          /\ Cardinality(Coming(r)') = Cardinality(Coming(r))
          /\ collect'[r] = collect[r] - 1 /\ collect'[p] = collect[p]
      BY <1>5, <1>7, <1>8
    <3> QED
      BY <2>1, <2>2, <3>1
  <2> QED
    BY <1>1, <1>3, <2>3, EnoughKept
<1>11. Single(p)'
  <2>1. Once(down[p])' /\ (\A m : Has(down[p], m)' <=> Has(down[p], m))
    BY <1>1, <1>3 DEF Single
  <2>2. Once(Append(up[r], Signal(t)))
    BY <1>1, <1>4, <1>5, OnceEnds DEF Single
  <2>3. \A u : Signal(u) = Signal(t) => u = t
    BY MessageFacts
  <2> QED
    BY <1>1, <1>3, <1>4, <1>5, <1>6, <2>1, <2>2, <2>3 DEF Single
<1>12. Started(r)' /\ Started(p)'
  BY <1>1, <1>3, StartedKept
<1>13. r = "guest" => here
  BY <1>1, <1>3 DEF Vacant
<1>14. Vacant'
  BY <1>1, <1>3, <1>5, <1>13 DEF Vacant
<1>15. HostExpects' /\ GuestExpects'
  <2>1. up["guest"] # <<>> => up'["guest"] # <<>> /\ Head(up'["guest"]) = Head(up["guest"])
    BY <1>1, <1>5, Ends
  <2> QED
    BY <1>1, <1>3, <2>1 DEF HostExpects, GuestExpects, Has, Over, Current
<1>16. Door'
  <2>1. ASSUME NEW i \in 1 .. Len(up'[r]) PROVE i \in 1 .. Len(up[r]) \/ up'[r][i] = Signal(t)
    BY <1>5, Ends
  <2>2. \A i \in 1 .. Len(up[r]) : up'[r][i] = up[r][i]
    BY <1>5, Ends
  <2>3. Signal(t).type = "signal" /\ Signal(t) # Gone
    BY MessageFacts
  <2>4. \A i \in 1 .. Len(up'["host"]) : up'["host"][i].type = "signal"
    BY <1>1, <1>5, <2>1, <2>2, <2>3 DEF Door
  <2>5. \A i \in 1 .. Len(up'["guest"]) :
           up'["guest"][i] = Gone => ~here /\ present /\ i = Len(up'["guest"])
    BY <1>1, <1>5, <1>13, <2>1, <2>2, <2>3 DEF Door
  <2>6. ~here /\ present => Has(up'["guest"], Gone)
    BY <1>1, <1>5, <1>13 DEF Door
  <2>7. ~present => up'["guest"] = <<>>
    BY <1>1, <1>5, <1>13 DEF Door
  <2> QED
    BY <1>1, <1>3, <2>4, <2>5, <2>6, <2>7 DEF Door, Has, Over
<1> QED
  BY <1>1, <1>7, <1>8, <1>10, <1>11, <1>12, <1>14, <1>15, <1>16 DEF WaitInv

-----------------------------------------------------------------------------
(* The room                                                                *)

\* What the room takes from one queue, and where it puts it.
LEMMA RelayFacts ==
    ASSUME WaitInv, NEW r \in Role, Relay(r)
    PROVE  LET p == Peer(r)
               m == Head(up[r])
               to(q, e) == IF q = "guest" /\ ~(present /\ here) THEN down[q]
                                                                ELSE Append(down[q], e)
           IN  /\ up[r] \in Seq(Up) /\ up[r] # <<>> /\ m \in Up
               /\ up'[r] = Tail(up[r]) /\ up'[p] = up[p]
               /\ UNCHANGED <<sent, local, peer, started, collect, ready, tries,
                              links, failed, here, alone>>
               /\ r = "guest" => present
               /\ \/ /\ m.type = "signal" /\ present' = present /\ down'[r] = down[r]
                     /\ down'[p] = to(p, m)
                  \/ /\ r = "guest" /\ m = Hello /\ present' = present
                     /\ down'["host"] = Append(down["host"], Joined)
                     /\ down'["guest"] = to("guest", Joined)
                  \/ /\ r = "guest" /\ m = Gone /\ ~present' /\ ~here
                     /\ down'["host"] = Append(down["host"], Left)
                     /\ down'["guest"] = down["guest"]
<1> DEFINE p == Peer(r)
           m == Head(up[r])
           to(q, e) == IF q = "guest" /\ ~(present /\ here) THEN down[q] ELSE Append(down[q], e)
<1>1. TypeOK /\ Door /\ p \in Role /\ p # r /\ Role = {"host", "guest"} /\ "host" # "guest"
  BY TwoSides DEF WaitInv, MarkInv
<1>2. /\ up[r] \in Seq(Up) /\ up[r] # <<>> /\ m \in Up /\ m = up[r][1] /\ 1 \in 1 .. Len(up[r])
  <2>1. up[r] \in Seq(Up) /\ up[r] # <<>>
    BY <1>1 DEF TypeOK, Relay
  <2> QED
    BY <2>1, Ends
<1>3. up'[r] = Tail(up[r]) /\ up'[p] = up[p]
  BY <1>1 DEF Relay, TypeOK
<1>4. UNCHANGED <<sent, local, peer, started, collect, ready, tries, links, failed, here, alone>>
  BY DEF Relay, loop, tasks, counts
<1>5. r = "guest" => present
  BY <1>1, <1>2 DEF Door
<1>6. r = "guest" \/ m.type = "signal"
  BY <1>1, <1>2 DEF Door
<1>7. CASE m.type = "signal"
  <2>1. down' = [down EXCEPT ![p] = to(p, m)] /\ present' = present
    BY <1>7 DEF Relay
  <2>2. down'[p] = to(p, m) /\ down'[r] = down[r]
    BY <1>1, <2>1 DEF TypeOK
  <2> QED
    BY <1>2, <1>3, <1>4, <1>5, <1>7, <2>1, <2>2
<1>8. CASE m.type = "hello"
  <2>1. m = Hello /\ r = "guest"
    BY <1>2, <1>6, <1>8, MessageFacts
  <2>2. down' = [q \in Role |-> to(q, Joined)] /\ present' = present
    BY <1>8 DEF Relay, Joined
  <2>3. /\ down'["host"] = Append(down["host"], Joined)
        /\ down'["guest"] = to("guest", Joined)
    BY <1>1, <2>2
  <2> QED
    BY <1>2, <1>3, <1>4, <1>5, <2>1, <2>2, <2>3
<1>9. CASE m.type = "gone"
  <2>1. m = Gone /\ r = "guest"
    BY <1>2, <1>6, <1>9, MessageFacts
  <2>2. ~here
    BY <1>1, <1>2, <2>1 DEF Door
  <2>3. down' = [down EXCEPT !["host"] = Append(down["host"], Left)] /\ ~present'
    BY <1>9 DEF Relay, Left
  <2>4. down'["host"] = Append(down["host"], Left) /\ down'["guest"] = down["guest"]
    BY <1>1, <2>3 DEF TypeOK
  <2> QED
    BY <1>2, <1>3, <1>4, <1>5, <2>1, <2>2, <2>3, <2>4
<1> QED
  BY <1>2, <1>7, <1>8, <1>9 DEF Up

\* A queue of a side with a word or an info more is not yet its end.
LEMMA Longer ==
    ASSUME NEW q \in Seq(Down), NEW e \in Down, e # Left
    PROVE  LET a == Append(q, e)
           IN  /\ a \in Seq(Down) /\ a # <<>> /\ (q # <<>> => Head(a) = Head(q))
               /\ \A m : Has(a, m) <=> Has(q, m) \/ m = e
               /\ \A t : Seen(a, t) <=> Seen(q, t) \/ e = Signal(t)
               /\ \A i \in 1 .. Len(q) :
                     /\ i \in 1 .. Len(a) /\ a[i] = q[i]
                     /\ Current(q, i) => Current(a, i)
                     /\ i # 1 => a[i - 1] = q[i - 1]
<1> DEFINE a == Append(q, e)
<1>1. a \in Seq(Down) /\ a # <<>> /\ (q # <<>> => Head(a) = Head(q))
  BY Ends
<1>2. \A m : Has(a, m) <=> Has(q, m) \/ m = e
  BY HasAppend
<1>3. \A t : Seen(a, t) <=> Seen(q, t) \/ e = Signal(t)
  BY SeenAppend
<1>4. ASSUME NEW i \in 1 .. Len(q)
      PROVE  /\ i \in 1 .. Len(a) /\ a[i] = q[i]
             /\ Current(q, i) => Current(a, i)
             /\ i # 1 => a[i - 1] = q[i - 1]
  <2>1. Len(q) \in Nat /\ Len(a) = Len(q) + 1 /\ \A j \in 1 .. Len(q) : a[j] = q[j]
    BY Ends
  <2>2. Current(q, i) => Current(a, i)
    BY CurrentEnds
  <2> HIDE DEF a
  <2>3. i # 1 => i - 1 \in 1 .. Len(q)
    BY <2>1
  <2> QED
    BY <2>1, <2>2, <2>3
<1> QED
  BY <1>1, <1>2, <1>3, <1>4

\* What is only passed on stays as much, and as often, under way.
LEMMA PassedOn ==
    ASSUME WaitInv, TypeOK', NEW r \in Role, Relay(r), Head(up[r]) # Gone
    PROVE  /\ Enough'
           /\ \A x \in Role : Single(x)' /\ Unheard(x)'
           /\ \A x \in Role : /\ Has(down[x], Left)' <=> Has(down[x], Left)
                              /\ down[x] # <<>> => /\ down'[x] # <<>>
                                                   /\ Head(down'[x]) = Head(down[x])
           /\ ~present => down'["host"] = down["host"]
           /\ ~here => down'["guest"] = down["guest"]
<1> DEFINE p == Peer(r)
           m == Head(up[r])
<1>1. /\ TypeOK /\ Enough /\ Door /\ Vacant /\ Single(r) /\ Single(p) /\ Unheard(r) /\ Unheard(p)
      /\ p \in Role /\ Peer(p) = r /\ p # r /\ Role = {r, p}
      /\ (r = "host" /\ p = "guest") \/ (r = "guest" /\ p = "host")
      /\ down[r] \in Seq(Down) /\ down[p] \in Seq(Down)
  BY TwoSides DEF WaitInv, MarkInv, TypeOK
<1>2. /\ up[r] \in Seq(Up) /\ up[r] # <<>> /\ m \in Up
      /\ up'[r] = Tail(up[r]) /\ up'[p] = up[p]
      /\ UNCHANGED <<sent, peer, collect, here, alone>>
      /\ r = "guest" => present
  BY RelayFacts
<1>3. \A e : Has(up[r], e) <=> Has(Tail(up[r]), e) \/ e = m
  BY <1>2, HasTail
<1>4. Once(Tail(up[r])) /\ (m.type = "signal" => ~Has(Tail(up[r]), m))
  BY <1>1, <1>2, OnceEnds DEF Single
<1>5. CASE m.type = "signal"
  <2> DEFINE t == m.token
  <2>1. /\ t \in Tokens /\ m = Signal(t) /\ m \in Down /\ m # Left
        /\ \A u : m = Signal(u) <=> u = t
    BY <1>2, <1>5, MessageFacts, Messages
  <2>2. /\ present' = present /\ down'[r] = down[r]
        /\ down'[p] = IF p = "guest" /\ ~(present /\ here) THEN down[p] ELSE Append(down[p], m)
    BY <1>5, RelayFacts, MessageFacts
  <2> HIDE DEF t
  <2>3. /\ Coming(r)' = Coming(r) /\ Share(r)' = Share(r)
        /\ Single(r)' /\ Unheard(r)'
    BY <1>1, <1>2, <2>2, SideKept
  <2>4. CASE p = "guest" /\ ~here
    <3>1. down'[p] = down[p]
      BY <2>2, <2>4
    <3>2. Single(p)'
      BY <1>1, <1>2, <1>3, <1>4, <3>1 DEF Single
    <3>3. Unheard(p)'
      BY <1>1, <1>2, <3>1 DEF Unheard
    <3>4. Enough'
      BY <1>2, <2>4 DEF Enough
    <3>5. \A x \in Role : down'[x] = down[x]
      BY <1>1, <2>2, <3>1
    <3> QED
      BY <1>1, <2>3, <3>2, <3>3, <3>4, <3>5, TwoSides
  <2>5. CASE ~(p = "guest" /\ ~here)
    <3> DEFINE a == Append(down[p], m)
    <3>1. down'[p] = a
      BY <1>1, <2>2, <2>5 DEF Door
    <3>2. /\ a # <<>> /\ (down[p] # <<>> => Head(a) = Head(down[p]))
          /\ \A e : Has(a, e) <=> Has(down[p], e) \/ e = m
          /\ \A u : Seen(a, u) <=> Seen(down[p], u) \/ u = t
      BY <1>1, <2>1, Longer
    <3>3. Once(a)
      <4>1. ~Has(down[p], m)
        BY <1>1, <1>3, <2>1 DEF Single
      <4> QED
        BY <1>1, <2>1, <4>1, OnceEnds DEF Single
    <3> HIDE DEF a
    <3>4. Coming(p)' = Coming(p)
      BY <1>1, <1>2, <1>3, <2>1, <3>1, <3>2 DEF Coming
    <3>5. Has(a, Left) <=> Has(down[p], Left)
      BY <2>1, <3>2
    <3>6. Share(p)' = Share(p) /\ Unheard(p)'
      BY <1>1, <1>2, <3>1, <3>5 DEF Share, Unheard
    <3>7. Single(p)'
      <4>1. ASSUME NEW u \in Tokens PROVE ~(Has(a, Signal(u)) /\ Has(Tail(up[r]), Signal(u)))
        BY <1>1, <1>3, <1>4, <1>5, <2>1, <3>2 DEF Single
      <4>2. ASSUME peer[p] # NoToken
            PROVE  ~Has(a, Signal(peer[p])) /\ ~Has(Tail(up[r]), Signal(peer[p]))
        BY <1>1, <1>3, <2>1, <3>2, <4>2 DEF Single
      <4> QED
        BY <1>1, <1>2, <1>4, <3>1, <3>3, <4>1, <4>2 DEF Single
    <3>8. Enough'
      <4>1. /\ collect[r] \in Nat /\ collect[p] \in Nat /\ Share(r) \in Nat /\ Share(p) \in Nat
            /\ Cardinality(Coming(r)) \in Nat /\ Cardinality(Coming(p)) \in Nat
        BY <1>1, CountsAreNat
      <4>2. /\ Share(r)' = Share(r) /\ Share(p)' = Share(p)
            /\ Cardinality(Coming(r)') = Cardinality(Coming(r))
            /\ Cardinality(Coming(p)') = Cardinality(Coming(p))
            /\ collect'[r] = collect[r] /\ collect'[p] = collect[p]
        BY <1>2, <2>3, <3>4, <3>6
      <4>3. Share(r)' + Share(p)' + collect'[r] + collect'[p]
              + Cardinality(Coming(r)') + Cardinality(Coming(p)')
            >= Share(r) + Share(p) + collect[r] + collect[p]
                + Cardinality(Coming(r)) + Cardinality(Coming(p))
        BY <4>1, <4>2
      <4> QED
        BY <1>1, <1>2, <4>3, EnoughKept
    <3>9. /\ ~present => p # "host"
          /\ ~here => p # "guest"
      BY <1>1, <1>2, <2>5
    <3> QED
      BY <1>1, <2>2, <2>3, <3>1, <3>2, <3>5, <3>6, <3>7, <3>8, <3>9, TwoSides
  <2> QED
    BY <2>4, <2>5
<1>6. CASE m.type # "signal"
  <2>1. /\ r = "guest" /\ m = Hello /\ present
        /\ down'["host"] = Append(down["host"], Joined)
        /\ down'["guest"] = IF here THEN Append(down["guest"], Joined) ELSE down["guest"]
    BY <1>6, RelayFacts
  <2>2. /\ Joined # Left /\ Joined \in Down /\ Joined.type # "signal"
        /\ \A u : Joined # Signal(u) /\ m # Signal(u)
    BY <2>1, Messages, MessageFacts DEF Joined
  <2>3. ASSUME NEW x \in Role
        PROVE  /\ \A u : /\ Has(down'[x], Signal(u)) <=> Has(down[x], Signal(u))
                         /\ Seen(down'[x], u) <=> Seen(down[x], u)
               /\ Has(down'[x], Left) <=> Has(down[x], Left)
               /\ Once(down'[x])
               /\ down[x] # <<>> => down'[x] # <<>> /\ Head(down'[x]) = Head(down[x])
    <3>1. down[x] \in Seq(Down) /\ Once(down[x])
      BY <1>1 DEF Single
    <3>2. CASE down'[x] = down[x]
      BY <3>1, <3>2
    <3>3. CASE down'[x] = Append(down[x], Joined)
      <4>1. Once(down'[x])
        BY <2>2, <3>1, <3>3, OnceEnds
      <4> QED
        BY <2>2, <3>1, <3>3, <4>1, Longer
    <3> QED
      BY <2>1, <3>2, <3>3, TwoSides
  <2>4. ASSUME NEW x \in Role
        PROVE  /\ \A u : Has(up'[x], Signal(u)) <=> Has(up[x], Signal(u))
               /\ Once(up'[x])
    BY <1>1, <1>2, <1>3, <1>4, <2>2 DEF Single
  <2>5. ASSUME NEW x \in Role
        PROVE  Coming(x)' = Coming(x) /\ Share(x)' = Share(x) /\ Single(x)' /\ Unheard(x)'
    <3>1. Peer(x) \in Role /\ Single(x) /\ Unheard(x)
      BY <1>1, TwoSides
    <3>2. Coming(x)' = Coming(x)
      BY <2>3, <2>4, <3>1 DEF Coming
    <3>3. Share(x)' = Share(x) /\ Unheard(x)'
      BY <1>2, <2>3, <3>1 DEF Share, Unheard
    <3>4. Single(x)'
      BY <1>2, <2>3, <2>4, <3>1 DEF Single
    <3> QED
      BY <3>2, <3>3, <3>4
  <2>6. Enough'
    <3>1. \A x \in Role : Share(x)' = Share(x) /\ Infos(x)' = Infos(x)
      BY <1>2, <2>5, TwoSides DEF Infos
    <3> QED
      BY <1>1, <1>2, <3>1, TwoSides DEF Enough
  <2> QED
    BY <2>1, <2>3, <2>5, <2>6, TwoSides
<1> QED
  BY <1>5, <1>6

LEMMA RelayWaits ==
    ASSUME WaitInv, MarkInv', NEW r \in Role, Relay(r)
    PROVE  WaitInv'
<1> DEFINE p == Peer(r)
           q == up[r]
           b == Tail(q)
           m == Head(q)
<1>1. /\ TypeOK /\ TypeOK' /\ Door /\ Vacant /\ HostExpects /\ GuestExpects
      /\ \A x \in Role : Single(x) /\ Unheard(x) /\ Started(x)
      /\ p \in Role /\ p # r /\ Role = {"host", "guest"} /\ "host" # "guest"
      /\ (r = "host" /\ p = "guest") \/ (r = "guest" /\ p = "host")
      /\ down["host"] \in Seq(Down)
  BY TwoSides DEF WaitInv, MarkInv, TypeOK
<1>2. /\ q \in Seq(Up) /\ q # <<>> /\ m \in Up /\ up'[r] = b /\ up'[p] = up[p]
      /\ UNCHANGED <<sent, local, peer, started, collect, ready, tries, links, failed, here, alone>>
      /\ r = "guest" => present
  BY RelayFacts
<1>3. \A x \in Role : Started(x)'
  BY <1>1, <1>2, StartedKept
<1>4. /\ Len(q) \in Nat /\ m = q[1] /\ Len(b) = Len(q) - 1 /\ b \in Seq(Up)
      /\ \A i \in 1 .. Len(b) : i + 1 \in 1 .. Len(q) /\ b[i] = q[i + 1]
      /\ \A e : Has(q, e) <=> Has(b, e) \/ e = m
  BY <1>2, Ends, HasTail
<1> HIDE DEF b
<1>5. /\ \A i \in 1 .. Len(up'["host"]) : up'["host"][i].type = "signal"
      /\ \A i \in 1 .. Len(up'["guest"]) :
            up'["guest"][i] = Gone => ~here /\ present /\ i = Len(up'["guest"])
  <2>1. CASE r = "host"
    BY <1>1, <1>2, <1>4, <2>1 DEF Door
  <2>2. CASE r = "guest"
    <3>1. \A i \in 1 .. Len(q) : q[i] = Gone => ~here /\ present /\ i = Len(q)
      BY <1>1, <2>2 DEF Door
    <3>2. ASSUME NEW i \in 1 .. Len(b), b[i] = Gone PROVE ~here /\ present /\ i = Len(b)
      <4>1. i + 1 \in 1 .. Len(q) /\ q[i + 1] = Gone /\ i \in Nat
        BY <1>4, <3>2
      <4>2. ~here /\ present /\ i + 1 = Len(q)
        BY <3>1, <4>1
      <4> QED
        BY <1>4, <4>1, <4>2
    <3>3. up'["guest"] = b /\ up'["host"] = up["host"]
      BY <1>1, <1>2, <2>2
    <3>4. \A i \in 1 .. Len(up["host"]) : up["host"][i].type = "signal"
      BY <1>1 DEF Door
    <3> QED
      BY <3>2, <3>3, <3>4
  <2> QED
    BY <1>1, <2>1, <2>2
<1>6. CASE m # Gone
  <2>1. /\ Enough'
        /\ \A x \in Role : Single(x)' /\ Unheard(x)'
        /\ \A x \in Role : /\ Has(down'[x], Left) <=> Has(down[x], Left)
                           /\ down[x] # <<>> => /\ down'[x] # <<>>
                                                /\ Head(down'[x]) = Head(down[x])
        /\ ~present => down'["host"] = down["host"]
        /\ ~here => down'["guest"] = down["guest"]
    BY <1>1, <1>6, PassedOn DEF Has
  <2>2. present' = present
    BY <1>6, RelayFacts, MessageFacts
  <2>3. Vacant'
    BY <1>1, <1>2, <2>1 DEF Vacant
  <2>4. GuestExpects'
    BY <1>1, <1>2, <2>1 DEF GuestExpects
  <2>5. Door'
    <3>1. ~here /\ present => Has(up'["guest"], Gone)
      BY <1>1, <1>2, <1>4, <1>6 DEF Door
    <3>2. ~present => up'["guest"] = <<>> /\ Over(down'["host"])
      BY <1>1, <1>2, <2>1 DEF Door
    <3> QED
      BY <1>1, <1>2, <1>5, <2>1, <2>2, <3>1, <3>2 DEF Door
  <2>6. HostExpects'
    <3> DEFINE d == down["host"]
               c == down'["host"]
    <3> SUFFICES ASSUME present, Has(d, Left) \/ ~sent["host"]
                 PROVE  \/ up'["guest"] # <<>> /\ Head(up'["guest"]) = Hello /\ Over(c)
                        \/ \E i \in 1 .. Len(c) : /\ c[i] = Joined /\ Current(c, i)
                                                  /\ i # 1 => c[i - 1] = Left
      BY <1>1, <1>2, <2>1, <2>2 DEF HostExpects
    <3>1. \/ up["guest"] # <<>> /\ Head(up["guest"]) = Hello /\ Over(d)
          \/ \E i \in 1 .. Len(d) : /\ d[i] = Joined /\ Current(d, i)
                                    /\ i # 1 => d[i - 1] = Left
      BY <1>1 DEF HostExpects
    <3>2. CASE r = "host"
      <4>1. c = d /\ up'["guest"] = up["guest"]
        BY <1>1, <1>2, <1>6, <3>2, RelayFacts
      <4> QED
        BY <3>1, <4>1
    <3>3. CASE r = "guest"
      <4>1. PICK e \in Down : /\ c = Append(d, e) /\ e # Left
                              /\ (m = Hello => e = Joined) /\ (m.type = "signal" => e = m)
        <5>1. CASE m = Hello
          <6>1. c = Append(d, Joined)
            BY <3>3, <5>1, RelayFacts, MessageFacts
          <6> QED
            BY <5>1, <6>1, Messages, MessageFacts DEF Joined
        <5>2. CASE m.type = "signal"
          <6>1. c = Append(d, m)
            BY <1>1, <3>3, <5>2, RelayFacts, MessageFacts
          <6>2. m \in Down /\ m # Left /\ m # Hello
            BY <1>2, <5>2, MessageFacts, Messages
          <6> QED
            BY <6>1, <6>2
        <5> QED
          BY <1>2, <1>6, <5>1, <5>2, MessageFacts
      <4> HIDE DEF c
      <4>2. \A i \in 1 .. Len(d) : /\ i \in 1 .. Len(c) /\ c[i] = d[i]
                                   /\ Current(d, i) => Current(c, i)
                                   /\ i # 1 => c[i - 1] = d[i - 1]
        BY <1>1, <4>1, Longer
      <4>3. CASE \E i \in 1 .. Len(d) : /\ d[i] = Joined /\ Current(d, i)
                                        /\ i # 1 => d[i - 1] = Left
        <5>1. PICK i \in 1 .. Len(d) : d[i] = Joined /\ Current(d, i) /\ (i # 1 => d[i - 1] = Left)
          BY <4>3
        <5>2. i \in 1 .. Len(c) /\ c[i] = Joined /\ Current(c, i) /\ (i # 1 => c[i - 1] = Left)
          BY <4>2, <5>1
        <5> QED
          BY <5>2
      <4>4. CASE m = Hello /\ Over(d)
        <5> DEFINE i == Len(d) + 1
        <5>1. /\ Len(d) \in Nat /\ i \in 1 .. Len(c) /\ c[i] = Joined
              /\ d = <<>> <=> Len(d) = 0
              /\ \A j \in 1 .. Len(d) : c[j] = d[j]
          BY <1>1, <4>1, <4>4, Ends
        <5>2. Current(c, i)
          BY <1>1, <4>1, CurrentEnds
        <5>3. i # 1 => c[i - 1] = Left
          <6> SUFFICES ASSUME i # 1 PROVE c[i - 1] = Left
            OBVIOUS
          <6>1. Len(d) \in 1 .. Len(d) /\ i - 1 = Len(d) /\ d # <<>>
            BY <5>1
          <6> QED
            BY <4>4, <5>1, <6>1 DEF Over
        <5> HIDE DEF i
        <5> QED
          BY <5>1, <5>2, <5>3
      <4> QED
        BY <3>1, <3>3, <4>3, <4>4
    <3> QED
      BY <1>1, <3>2, <3>3
  <2> QED
    BY <1>1, <1>3, <2>1, <2>3, <2>4, <2>5, <2>6 DEF WaitInv
<1>7. CASE m = Gone
  <2>1. /\ r = "guest" /\ ~present' /\ ~here
        /\ down'["host"] = Append(down["host"], Left)
        /\ down'["guest"] = down["guest"] /\ up'["host"] = up["host"]
    BY <1>1, <1>2, <1>7, RelayFacts, MessageFacts
  <2>2. /\ Left \in Down /\ Left.type # "signal"
        /\ \A t : m # Signal(t) /\ Left # Signal(t)
    BY <1>7, MessageFacts DEF Left, Note, Down
  <2>3. /\ \A e : Has(down'["host"], e) <=> Has(down["host"], e) \/ e = Left
        /\ Once(down'["host"]) /\ Once(b) /\ Over(down'["host"])
    <3> DEFINE c == Append(down["host"], Left)
    <3>1. \A e : Has(c, e) <=> Has(down["host"], e) \/ e = Left
      BY <1>1, <2>2, HasAppend
    <3>2. Once(c) /\ Once(b)
      <4>1. Once(down["host"]) /\ Once(q)
        BY <1>1, <2>1, TwoSides DEF Single
      <4> QED
        BY <1>1, <1>2, <2>2, <4>1, OnceEnds DEF b
    <3>3. Len(c) = Len(down["host"]) + 1 /\ c[Len(down["host"]) + 1] = Left
      BY <1>1, <2>2, Ends
    <3> QED
      BY <2>1, <3>1, <3>2, <3>3 DEF Over
  <2>4. Single("host")' /\ Unheard("host")'
    <3>1. Single("host") /\ Peer("host") = "guest"
      BY <1>1, TwoSides
    <3> QED
      BY <1>2, <1>4, <2>1, <2>2, <2>3, <3>1 DEF Single, Unheard
  <2>5. Single("guest")' /\ Unheard("guest")'
    <3>1. Single("guest") /\ Unheard("guest") /\ Peer("guest") = "host"
      BY <1>1, TwoSides
    <3> QED
      BY <1>2, <2>1, <3>1, SideKept
  <2>6. Enough' /\ HostExpects' /\ GuestExpects'
    BY <1>2, <2>1 DEF Enough, HostExpects, GuestExpects
  <2>7. Vacant'
    BY <1>1, <1>2, <2>1 DEF Vacant
  <2>8. Door'
    <3>1. b = <<>>
      <4>1. 1 \in 1 .. Len(q) /\ q[1] = Gone
        BY <1>2, <1>4, <1>7, Ends
      <4>2. Len(q) = 1
        BY <1>1, <2>1, <4>1 DEF Door
      <4> QED
        BY <1>4, <4>2, Ends
    <3>2. \A i \in 1 .. Len(up'["guest"]) : up'["guest"][i] # Gone
      BY <1>2, <2>1, <3>1
    <3>3. ~Has(down'["guest"], Left) /\ Has(down'["host"], Left)
      BY <1>1, <2>1, <2>3 DEF Door
    <3> QED
      BY <1>2, <1>5, <2>1, <2>3, <3>1, <3>2, <3>3 DEF Door
  <2> QED
    BY <1>1, <1>3, <2>4, <2>5, <2>6, <2>7, <2>8 DEF WaitInv
<1> QED
  BY <1>6, <1>7

\* A queue of one message, and none.
LEMMA ShortQueues ==
    /\ \A m, e : Has(<<e>>, m) <=> m = e
    /\ \A m : ~Has(<<>>, m)
    /\ \A t : ~Seen(<<>>, t)
    /\ \A e : Once(<<e>>)
    /\ Once(<<>>) /\ Over(<<>>)
<1>1. ASSUME NEW e PROVE Len(<<e>>) = 1 /\ <<e>>[1] = e /\ \A i \in 1 .. Len(<<e>>) : i = 1
  OBVIOUS
<1>2. ASSUME NEW e, NEW m PROVE Has(<<e>>, m) <=> m = e
  BY <1>1 DEF Has
<1>3. ASSUME NEW e PROVE Once(<<e>>)
  BY <1>1 DEF Once
<1>4. \A i \in 1 .. Len(<<>>) : FALSE
  OBVIOUS
<1>5. (\A m : ~Has(<<>>, m)) /\ (\A t : ~Seen(<<>>, t)) /\ Once(<<>>) /\ Over(<<>>)
  BY <1>4 DEF Has, Seen, Once, Over
<1> QED
  BY <1>2, <1>3, <1>5

LEMMA GuestLeavesWaits ==
    ASSUME WaitInv, MarkInv', GuestLeaves
    PROVE  WaitInv'
<1> DEFINE s == [sent |-> FALSE, local |-> NoToken, peer |-> NoToken, started |-> FALSE,
                 collect |-> 0, tries |-> {}]
           q == up["guest"]
           a == Append(q, Gone)
<1>1. /\ TypeOK /\ Door /\ HostExpects /\ Single("host") /\ Single("guest") /\ Unheard("host")
      /\ Started("host") /\ Role = {"host", "guest"} /\ "host" # "guest"
      /\ Peer("host") = "guest" /\ Peer("guest") = "host"
      /\ "host" \in Role /\ "guest" \in Role
  BY TwoSides DEF WaitInv, MarkInv
<1>2. here /\ present /\ ~here' /\ present' = present /\ alone' = alone
  BY <1>1 DEF GuestLeaves, counts, Door
<1>3. s \in Loops /\ Become("guest", s)
  BY DEF Loops, GuestLeaves
<1>4. /\ ~sent'["guest"] /\ peer'["guest"] = NoToken /\ ~started'["guest"]
      /\ collect'["guest"] = 0 /\ tries'["guest"] = {} /\ local'["guest"] = NoToken
      /\ sent'["host"] = sent["host"] /\ peer'["host"] = peer["host"]
      /\ started'["host"] = started["host"] /\ collect'["host"] = collect["host"]
      /\ tries'["host"] = tries["host"] /\ local'["host"] = local["host"]
  BY <1>1, <1>3, BecomeEffect
<1>5. /\ q \in Seq(Up) /\ Gone \in Up /\ up'["guest"] = a /\ up'["host"] = up["host"]
      /\ down'["guest"] = <<>> /\ down'["host"] = down["host"]
      /\ ready'["guest"] = {} /\ links'["guest"] = <<>> /\ ~failed'["guest"]
      /\ links'["host"] = links["host"] /\ failed'["host"] = failed["host"]
  BY <1>1, Messages DEF GuestLeaves, TypeOK, Gone
<1>6. /\ Len(q) \in Nat /\ Len(a) = Len(q) + 1 /\ a[Len(q) + 1] = Gone /\ a # <<>>
      /\ \A i \in 1 .. Len(q) : a[i] = q[i]
      /\ q # <<>> => Head(a) = Head(q)
      /\ \A e : Has(a, e) <=> Has(q, e) \/ e = Gone
  BY <1>5, Ends, HasAppend
<1>7. /\ Gone.type # "signal" /\ \A t : Gone # Signal(t)
  BY MessageFacts
<1>8. Once(a)
  BY <1>1, <1>5, <1>7, OnceEnds DEF Single
<1> HIDE DEF a
<1>9. Single("host")' /\ Unheard("host")' /\ Started("host")'
  <2>1. Single("host")'
    BY <1>1, <1>4, <1>5, <1>6, <1>7, <1>8 DEF Single
  <2> QED
    BY <1>1, <1>4, <1>5, <2>1, StartedKept DEF Unheard
<1>10. Single("guest")' /\ Unheard("guest")' /\ Started("guest")'
  <2>1. Once(up["host"])
    BY <1>1 DEF Single
  <2>2. Single("guest")'
    BY <1>1, <1>4, <1>5, <2>1, ShortQueues DEF Single
  <2> QED
    BY <1>4, <2>2 DEF Unheard, Started, Met, State
<1>11. Enough' /\ GuestExpects' /\ Vacant'
  BY <1>2, <1>4, <1>5 DEF Enough, GuestExpects, Vacant
<1>12. HostExpects'
  BY <1>1, <1>2, <1>4, <1>5, <1>6 DEF HostExpects
<1>13. Door'
  <2>1. ASSUME NEW i \in 1 .. Len(a), a[i] = Gone PROVE i = Len(a)
    <3>1. i \in 1 .. Len(q) => q[i] # Gone
      BY <1>1, <1>2 DEF Door
    <3> QED
      BY <1>6, <2>1, <3>1
  <2>2. Has(a, Gone) /\ ~Has(down'["guest"], Left)
    BY <1>5, <1>6, ShortQueues
  <2> QED
    BY <1>1, <1>2, <1>5, <2>1, <2>2 DEF Door
<1> QED
  BY <1>1, <1>9, <1>10, <1>11, <1>12, <1>13 DEF WaitInv

LEMMA GuestJoinsWaits ==
    ASSUME WaitInv, MarkInv', GuestJoins
    PROVE  WaitInv'
<1>1. /\ TypeOK /\ TypeOK' /\ Door /\ Vacant /\ Single("host") /\ Single("guest")
      /\ Unheard("host") /\ Unheard("guest") /\ Started("host") /\ Started("guest")
      /\ Role = {"host", "guest"} /\ "host" # "guest"
      /\ Peer("host") = "guest" /\ Peer("guest") = "host"
      /\ "host" \in Role /\ "guest" \in Role
  BY TwoSides DEF WaitInv, MarkInv
<1>2. /\ ~here /\ ~present /\ here' /\ present'
      /\ up' = [up EXCEPT !["guest"] = <<Hello>>]
      /\ down' = [down EXCEPT !["guest"] = <<Ready>>]
      /\ UNCHANGED <<sent, local, peer, started, collect, ready, tries, links, failed, alone>>
  BY DEF GuestJoins, loop, tasks, Hello, Ready
<1>3. /\ up'["guest"] = <<Hello>> /\ up'["host"] = up["host"]
      /\ down'["guest"] = <<Ready>> /\ down'["host"] = down["host"]
  BY <1>1, <1>2 DEF TypeOK
<1>4. /\ ~sent["guest"] /\ down["guest"] = <<>> /\ peer["guest"] = NoToken
      /\ up["guest"] = <<>> /\ Over(down["host"])
  BY <1>1, <1>2, ShortQueues DEF Vacant, Door, Unheard
<1>5. /\ Hello # Gone /\ Ready # Left
      /\ \A t : Hello # Signal(t) /\ Ready # Signal(t)
  BY MessageFacts
<1>6. Single("host")' /\ Unheard("host")' /\ Started("host")'
  <2>1. Single("host")'
    BY <1>1, <1>2, <1>3, <1>5, ShortQueues DEF Single
  <2> QED
    BY <1>1, <1>2, <1>3, <2>1, StartedKept DEF Unheard
<1>7. Single("guest")' /\ Unheard("guest")' /\ Started("guest")'
  <2>1. Single("guest")'
    BY <1>1, <1>2, <1>3, <1>4, <1>5, ShortQueues DEF Single
  <2> QED
    BY <1>1, <1>2, <1>4, <2>1, StartedKept DEF Unheard
<1>8. Enough'
  <2>1. Share("guest")' >= 1
    BY <1>2, <1>3, <1>4, <1>5, ShortQueues DEF Share, One
  <2>2. ASSUME ~alone PROVE Share("host")' >= 1
    BY <1>1, <1>2, <1>3, <2>2 DEF Door, Share, One
  <2>3. \A x \in Role : Share(x)' \in Nat /\ Infos(x)' \in Nat
    BY <1>1, SumAfter
  <2> QED
    BY <1>1, <1>2, <2>1, <2>2, <2>3 DEF Enough
<1>9. HostExpects' /\ GuestExpects' /\ Vacant'
  <2>1. Head(<<Hello>>) = Hello /\ <<Hello>> # <<>> /\ Head(<<Ready>>) = Ready /\ <<Ready>> # <<>>
    OBVIOUS
  <2> QED
    BY <1>2, <1>3, <1>4, <2>1 DEF HostExpects, GuestExpects, Vacant
<1>10. Door'
  <2>1. \A i \in 1 .. Len(up'["guest"]) : up'["guest"][i] # Gone
    BY <1>3, <1>5
  <2>2. ~Has(down'["guest"], Left)
    BY <1>3, <1>5, ShortQueues
  <2> QED
    BY <1>1, <1>2, <1>3, <2>1, <2>2 DEF Door
<1> QED
  BY <1>1, <1>6, <1>7, <1>8, <1>9, <1>10 DEF WaitInv

-----------------------------------------------------------------------------
(* The theorem                                                             *)

LEMMA WaitStep == WaitInv /\ [Next]_vars => WaitInv'
<1> SUFFICES ASSUME WaitInv, [Next]_vars PROVE WaitInv'
  OBVIOUS
<1>1. MarkInv /\ MarkInv'
  BY MarkStep DEF WaitInv
<1>2. ASSUME NEW r \in Role, Dispatch(r) PROVE WaitInv'
  <2>1. TypeOK'
    BY <1>1 DEF MarkInv
  <2> QED
    BY <1>1, <1>2, <2>1, DispatchCount, DispatchSides, DispatchWords DEF WaitInv
<1>3. ASSUME NEW r \in Role, Retry(r) PROVE WaitInv'
  BY <1>1, <1>3, RetryWaits
<1>4. ASSUME NEW r \in Role, NEW t \in Tokens, Prepared(r, t) PROVE WaitInv'
  BY <1>1, <1>4, PreparedWaits
<1>5. ASSUME NEW r \in Role, Collected(r) PROVE WaitInv'
  BY <1>1, <1>5, CollectedWaits
<1>6. ASSUME \/ \E r \in Role : Lost(r) \/ \E p \in tries[r] : Fails(r, p)
             \/ \E p \in Pairs : HostEstablishes(p) \/ GuestEstablishes(p)
      PROVE  WaitInv'
  BY <1>1, <1>6, LinkWaits
<1>7. ASSUME NEW r \in Role, Relay(r) PROVE WaitInv'
  BY <1>1, <1>7, RelayWaits
<1>8. CASE GuestLeaves
  BY <1>1, <1>8, GuestLeavesWaits
<1>9. CASE GuestJoins
  BY <1>1, <1>9, GuestJoinsWaits
<1>10. CASE UNCHANGED vars
  <2>1. UNCHANGED <<sent, local, peer, started, collect, ready, tries, links, failed,
                    up, down, present, here, alone>>
    BY <1>10 DEF vars, loop, tasks, net, counts
  <2>2. /\ Enough' /\ Door' /\ HostExpects' /\ GuestExpects'
        /\ \A x \in Role : Single(x)' /\ Unheard(x)'
    BY <2>1, WayKept
  <2>3. Vacant' /\ \A x \in Role : Started(x)'
    BY <2>1, StartedKept DEF WaitInv, Vacant
  <2> QED
    BY <1>1, <2>2, <2>3 DEF WaitInv
<1> QED
  BY <1>2, <1>3, <1>4, <1>5, <1>6, <1>7, <1>8, <1>9, <1>10 DEF Next

LEMMA WaitStart == Init => Enough /\ Door /\ Vacant /\ HostExpects /\ GuestExpects
                             /\ \A r \in Role : Single(r) /\ Unheard(r) /\ Started(r)
<1> SUFFICES ASSUME Init
             PROVE  /\ Enough /\ Door /\ Vacant /\ HostExpects /\ GuestExpects
                    /\ \A r \in Role : Single(r) /\ Unheard(r) /\ Started(r)
  OBVIOUS
<1>1. /\ \A r \in Role : /\ ~sent[r] /\ local[r] = NoToken /\ peer[r] = NoToken /\ ~started[r]
                         /\ collect[r] = 0
      /\ up["host"] = <<>> /\ up["guest"] = <<Hello>>
      /\ down["host"] = <<>> /\ down["guest"] = <<Ready>>
      /\ here /\ present
  BY TwoSides DEF Init, Hello, Ready
<1>2. /\ Hello # Gone /\ Ready # Left
      /\ \A t : Hello # Signal(t) /\ Ready # Signal(t)
  BY MessageFacts
<1>3. \A r \in Role : Single(r) /\ Unheard(r) /\ Started(r)
  <2> SUFFICES ASSUME NEW r \in Role PROVE Single(r) /\ Unheard(r) /\ Started(r)
    OBVIOUS
  <2> DEFINE d == down[r]
             u == up[Peer(r)]
  <2>0. (d = <<>> \/ d = <<Ready>>) /\ (u = <<>> \/ u = <<Hello>>)
    BY <1>1, TwoSides
  <2> HIDE DEF d, u
  <2>1. Once(d) /\ Once(u)
    BY <2>0, ShortQueues
  <2>2. \A t \in Tokens : ~Has(d, Signal(t)) /\ ~Has(u, Signal(t))
    BY <1>2, <2>0, ShortQueues
  <2>3. peer[r] = NoToken /\ local[r] = NoToken /\ ~started[r]
    BY <1>1
  <2>4. Single(r)
    BY <2>1, <2>2, <2>3 DEF Single, d, u
  <2> QED
    BY <2>3, <2>4 DEF Unheard, Started, Met, State
<1>4. /\ Head(<<Hello>>) = Hello /\ <<Hello>> # <<>> /\ Head(<<Ready>>) = Ready /\ <<Ready>> # <<>>
      /\ Len(<<Hello>>) = 1 /\ <<Hello>>[1] = Hello /\ Len(<<>>) = 0
  OBVIOUS
<1>5. Vacant /\ HostExpects /\ GuestExpects
  BY <1>1, <1>4, ShortQueues DEF Vacant, HostExpects, GuestExpects
<1>6. Door
  BY <1>1, <1>2, <1>4, ShortQueues DEF Door
<1>7. Enough
  <2>1. \A r \in Role : Share(r) = 1
    BY <1>1, <1>2, ShortQueues, TwoSides DEF Share, One
  <2>2. \A r \in Role : Coming(r) = {}
    BY <1>1, <1>2, ShortQueues, TwoSides DEF Coming, Seen, Current, Has
  <2>3. Cardinality({}) = 0
    BY FS_EmptySet
  <2>4. \A r \in Role : Infos(r) = 0
    <3> SUFFICES ASSUME NEW r \in Role PROVE Infos(r) = 0
      OBVIOUS
    <3>1. collect[r] = 0 /\ Cardinality(Coming(Peer(r))) = 0
      BY <1>1, <2>2, <2>3, TwoSides
    <3> QED
      BY <3>1 DEF Infos
  <2> QED
    BY <2>1, <2>4, TwoSides DEF Enough
<1> QED
  BY <1>3, <1>5, <1>6, <1>7

\* In the room of a host that has not retried alone, who has no link and shows no
\* failure will hear from the other, or be heard.
THEOREM WaitInvariant == Spec => []WaitInv
<1>1. Init /\ MarkInv => WaitInv
  BY WaitStart DEF WaitInv
<1> QED
  BY <1>1, MarkInvariant, WaitStep, PTL DEF Spec

\* Nobody waits for ever without being told, as long as no host has used its
\* retry in the empty room: when nothing is under way, each side has a link or
\* shows a failed one.
THEOREM NobodyWaitsUntold == Spec => []ToldUnlessAlone
<1>1. WaitInv => ToldUnlessAlone
  <2> SUFFICES ASSUME WaitInv, ~alone, Quiet, here, NEW r \in Role
               PROVE  links[r] # <<>> \/ failed[r]
    BY DEF ToldUnlessAlone, NoSilentWait
  <2>1. /\ TypeOK /\ SentIsUnderWay /\ Enough /\ Door /\ HostExpects /\ GuestExpects
        /\ \A x \in Role : Unheard(x) /\ Started(x)
        /\ \A x \in Role : Peer(x) \in Role
    BY TwoSides DEF WaitInv, MarkInv
  <2>2. \A x \in Role : /\ collect[x] = 0 /\ ready[x] = {} /\ tries[x] = {}
                        /\ up[x] = <<>> /\ down[x] = <<>>
    BY DEF Quiet
  <2>3. \A i \in 1 .. Len(<<>>) : FALSE
    OBVIOUS
  <2>4. \A x \in Role : sent[x]
    <3>1. sent["guest"]
      BY <2>1, <2>2, TwoSides DEF GuestExpects
    <3>2. sent["host"]
      BY <2>1, <2>2, <2>3, TwoSides DEF HostExpects, Door
    <3> QED
      BY <3>1, <3>2, TwoSides
  <2>5. \A x \in Role : Coming(x) = {}
    BY <2>1, <2>2, ShortQueues DEF Coming
  <2>6. Cardinality({}) = 0
    BY FS_EmptySet
  <2>7. \A x \in Role : Infos(x) = 0 /\ Share(x) = One(peer[x] # NoToken)
    <3> SUFFICES ASSUME NEW x \in Role
                 PROVE  Infos(x) = 0 /\ Share(x) = One(peer[x] # NoToken)
      OBVIOUS
    <3>1. collect[x] = 0 /\ Cardinality(Coming(Peer(x))) = 0
      BY <2>1, <2>2, <2>5, <2>6
    <3>2. sent[x] /\ ~Has(down[x], Left)
      BY <2>2, <2>4, ShortQueues
    <3> QED
      BY <3>1, <3>2 DEF Infos, Share, One
  <2>8. \A x \in Role : peer[x] # NoToken
    BY <2>1, <2>7, TwoSides DEF Enough, One
  <2>9. local[r] # NoToken \/ started[r]
    BY <2>1, <2>2, <2>4 DEF SentIsUnderWay
  <2>10. started[r]
    BY <2>1, <2>8, <2>9 DEF Started, Met, State
  <2> QED
    BY <2>1, <2>2, <2>10 DEF Started
<1> QED
  BY <1>1, WaitInvariant, PTL
===============================================================================
