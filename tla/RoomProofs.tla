----------------------------- MODULE RoomProofs -----------------------------
(***************************************************************************)
(* The worker's room, for every set of codes and sockets: who is in it,    *)
(* and what its members are told.                                          *)
(***************************************************************************)
EXTENDS Room, FiniteSetTheorems, TLAPS

\* A socket of a map was accepted by a room; one still being set up is in none.
Placed == \A s \in Sockets : /\ sessions[s] # "absent" => home[s] \in Codes
                             /\ phase[s] \in {"idle", "creating"} => sessions[s] = "absent"

\* The inductive invariant. OneHostOneGuest needs the flag to be exact, since
\* the flag, not the map, is what admits a host; and the flag stays exact only
\* because the host takes every other member of its room with it.
RoomInv == TypeOK /\ Placed /\ FlagMatchesMap /\ OneHostOneGuest /\ ForgottenIsClosed

-----------------------------------------------------------------------------

\* A set with two different elements has at least two elements.
LEMMA TwoElements ==
    ASSUME NEW S, IsFiniteSet(S), NEW a \in S, NEW b \in S, a # b
    PROVE  Cardinality(S) >= 2
<1>1. IsFiniteSet({a}) /\ Cardinality({a}) = 1
  BY FS_Singleton
<1>2. b \notin {a}
  OBVIOUS
<1>3. /\ IsFiniteSet({a} \cup {b})
      /\ Cardinality({a} \cup {b}) = IF b \in {a} THEN Cardinality({a}) ELSE Cardinality({a}) + 1
  BY <1>1, FS_AddElement, Zenon
<1>4. Cardinality({a} \cup {b}) = 2
  BY <1>1, <1>2, <1>3
<1>5. {a} \cup {b} \in SUBSET S
  OBVIOUS
<1>6. Cardinality({a} \cup {b}) <= Cardinality(S) /\ Cardinality(S) \in Nat
  BY <1>5, FS_Subset, FS_CardinalityType
<1> QED
  BY <1>4, <1>6

\* The members of a room are finitely many.
LEMMA MembersFinite ==
    ASSUME NEW c
    PROVE  IsFiniteSet(Members(c))
  BY SocketsAssumption, FS_Subset DEF Members

\* Sending appends messages of a kind the client knows.
LEMMA SendAllType ==
    ASSUME NEW d \in [Sockets -> Seq(ServerMsg)], NEW to, NEW m \in ServerMsg
    PROVE  SendAll(d, to, m) \in [Sockets -> Seq(ServerMsg)]
  BY DEF SendAll

\* Handling takes a message from the head, leaving appends one at the end.
LEMMA QueueType ==
    ASSUME TypeOK, NEW s \in Sockets
    PROVE  /\ up[s] # <<>> /\ Consume(s) => up' \in [Sockets -> Seq(ClientMsg)]
           /\ down[s] # <<>> => [down EXCEPT ![s] = Tail(@)] \in [Sockets -> Seq(ServerMsg)]
           /\ [down EXCEPT ![s] = <<>>] \in [Sockets -> Seq(ServerMsg)]
           /\ \A m \in ClientMsg : [up EXCEPT ![s] = Append(@, m)] \in [Sockets -> Seq(ClientMsg)]
<1>1. up[s] \in Seq(ClientMsg) /\ down[s] \in Seq(ServerMsg)
  BY DEF TypeOK
<1>2. /\ up[s] # <<>> => Tail(up[s]) \in Seq(ClientMsg)
      /\ down[s] # <<>> => Tail(down[s]) \in Seq(ServerMsg)
      /\ \A m \in ClientMsg : Append(up[s], m) \in Seq(ClientMsg)
      /\ <<>> \in Seq(ServerMsg)
  BY <1>1
<1> QED
  BY <1>2 DEF TypeOK, Consume

LEMMA FarewellType ==
    ASSUME TypeOK, NEW s \in Sockets
    PROVE  Farewell(s) \in [Sockets -> Seq(ServerMsg)]
  BY SendAllType DEF Farewell, TypeOK, ServerMsg

\* Type correctness: queues hold known messages, the router never starts an
\* attempt beyond the last (index.ts, the loop of fetch).
THEOREM TypeCorrect == Spec => []TypeOK
<1>1. Init => TypeOK
  BY AttemptsAssumption DEF Init, TypeOK, Phase, Role
<1>2. TypeOK /\ [Next]_vars => TypeOK'
  <2> SUFFICES ASSUME TypeOK, [Next]_vars
               PROVE  TypeOK'
    OBVIOUS
  <2> USE AttemptsAssumption
  <2>1. ASSUME NEW s \in Sockets, NEW c \in Codes, CreateTaken(s, c)
        PROVE  TypeOK'
    <3>1. attempts[s] \in 0 .. CREATE_ROOM_ATTEMPTS - 1
      BY DEF TypeOK
    <3>2. attempts' \in [Sockets -> 0 .. CREATE_ROOM_ATTEMPTS - 1]
      <4>1. CASE LastAttempt(s)
        <5>1. 0 \in 0 .. CREATE_ROOM_ATTEMPTS - 1
          OBVIOUS
        <5> QED
          BY <2>1, <4>1, <5>1 DEF CreateTaken, TypeOK
      <4>2. CASE ~LastAttempt(s)
        <5>1. attempts[s] + 1 \in 0 .. CREATE_ROOM_ATTEMPTS - 1
          BY <3>1, <4>2 DEF LastAttempt
        <5> QED
          BY <2>1, <4>2, <5>1 DEF CreateTaken, TypeOK
      <4> QED
        BY <4>1, <4>2
    <3> QED
      BY <2>1, <3>2 DEF CreateTaken, TypeOK, Phase
  <2>2. ASSUME NEW s \in Sockets, NEW c \in Codes, NEW r \in Role, Accept(s, c, r)
        PROVE  TypeOK'
    <3>1. <<"hello">> \in Seq(ClientMsg) /\ <<"room-ready">> \in Seq(ServerMsg)
      BY DEF ClientMsg, ServerMsg
    <3>2. /\ up' \in [Sockets -> Seq(ClientMsg)]
          /\ down' \in [Sockets -> Seq(ServerMsg)]
      BY <2>2, <3>1 DEF Accept, TypeOK
    <3> QED
      BY <2>2, <3>2 DEF Accept, TypeOK, Phase
  <2>3. ASSUME NEW s \in Sockets, NEW c \in Codes, JoinRefused(s, c)
        PROVE  TypeOK'
    BY <2>3 DEF JoinRefused, TypeOK, Phase
  <2>4. ASSUME NEW s \in Sockets, Handle(s)
        PROVE  TypeOK'
    <3>1. up' \in [Sockets -> Seq(ClientMsg)]
      BY <2>4, QueueType DEF Handle, HandleInvalid, HandleHello, HandleSignal,
                             HandleDisconnect
    <3>2. CASE HandleInvalid(s) \/ HandleHello(s) \/ HandleSignal(s)
      <4>1. \A to : \A m \in {"error", "peer-joined", "signal"} :
               SendAll(down, to, m) \in [Sockets -> Seq(ServerMsg)]
        BY SendAllType DEF TypeOK, ServerMsg
      <4>2. down' \in [Sockets -> Seq(ServerMsg)]
        <5>1. CASE HandleInvalid(s)
          BY <4>1, <5>1 DEF HandleInvalid
        <5>2. CASE HandleHello(s)
          BY <4>1, <5>2 DEF HandleHello, TypeOK
        <5>3. CASE HandleSignal(s)
          BY <4>1, <5>3 DEF HandleSignal
        <5> QED
          BY <3>2, <5>1, <5>2, <5>3
      <4>3. strays' \subseteq Sockets
        BY <3>2 DEF HandleInvalid, HandleHello, HandleSignal, TypeOK, Others, Members
      <4> QED
        BY <3>1, <3>2, <4>2, <4>3 DEF HandleInvalid, HandleHello, HandleSignal, TypeOK
    <3>3. CASE HandleDisconnect(s)
      <4>1. Farewell(s) \in [Sockets -> Seq(ServerMsg)]
        BY FarewellType
      <4>2. down' \in [Sockets -> Seq(ServerMsg)]
        BY <3>3, <4>1 DEF HandleDisconnect, Disconnect, ServerMsg
      <4> QED
        BY <3>1, <3>3, <4>2 DEF HandleDisconnect, Disconnect, TypeOK, Role
    <3> QED
      BY <2>4, <3>2, <3>3 DEF Handle
  <2>5. ASSUME NEW s \in Sockets, NEW m \in {"signal", "invalid"}, ClientSend(s, m)
        PROVE  TypeOK'
    <3>1. m \in ClientMsg
      BY DEF ClientMsg
    <3> QED
      BY <2>5, <3>1, QueueType DEF ClientSend, TypeOK
  <2>6. ASSUME NEW s \in Sockets, ClientBye(s) \/ ClientLeave(s) \/ ClientClosed(s)
        PROVE  TypeOK'
    <3>1. \A m \in {"bye", "close"} :
             [up EXCEPT ![s] = Append(@, m)] \in [Sockets -> Seq(ClientMsg)]
      BY QueueType DEF ClientMsg
    <3>2. [down EXCEPT ![s] = <<>>] \in [Sockets -> Seq(ServerMsg)]
      BY QueueType
    <3>3. CASE ClientBye(s)
      BY <3>1, <3>3 DEF ClientBye, TypeOK, Phase
    <3>4. CASE ClientLeave(s)
      BY <3>1, <3>2, <3>4 DEF ClientLeave, TypeOK, Phase
    <3>5. CASE ClientClosed(s)
      BY <3>1, <3>2, <3>5 DEF ClientClosed, TypeOK, Phase
    <3> QED
      BY <2>6, <3>3, <3>4, <3>5
  <2>7. ASSUME NEW s \in Sockets, ClientRecv(s)
        PROVE  TypeOK'
    <3>1. down' \in [Sockets -> Seq(ServerMsg)]
      BY <2>7, QueueType DEF ClientRecv
    <3>2. \A m : Believed(m, roster[s]) \subseteq BOOLEAN
      BY DEF Believed, TypeOK
    <3>3. roster' \in [Sockets -> BOOLEAN]
      BY <2>7, <3>2 DEF ClientRecv, TypeOK
    <3> QED
      BY <2>7, <3>1, <3>3 DEF ClientRecv, TypeOK
  <2>8. ASSUME NEW s \in Sockets, Renew(s)
        PROVE  TypeOK'
    BY <2>8 DEF Renew, TypeOK, Phase
  <2>9. ASSUME NEW c \in Codes, Restart(c)
        PROVE  TypeOK'
    <3>1. /\ up' \in [Sockets -> Seq(ClientMsg)]
          /\ down' \in [Sockets -> Seq(ServerMsg)]
      BY <2>9 DEF Restart, TypeOK
    <3> QED
      BY <2>9, <3>1 DEF Restart, TypeOK, Role, Phase
  <2>10. CASE UNCHANGED vars
    BY <2>10 DEF vars, TypeOK
  <2> QED
    BY <2>1, <2>2, <2>3, <2>4, <2>5, <2>6, <2>7, <2>8, <2>9, <2>10
       DEF Next, CreateOK, JoinOK, Role
<1> QED
  BY <1>1, <1>2, PTL DEF Spec

-----------------------------------------------------------------------------
(* Each action preserves the rest of RoomInv                               *)

\* What an action that leaves the maps and flags alone may do to the rest.
LEMMA MapsUntouched ==
    ASSUME RoomInv, UNCHANGED <<hostPresent, sessions, home>>,
           \A s \in Sockets :
              /\ closed[s] => closed'[s]
              /\ phase'[s] \in {"idle", "creating"} => sessions[s] = "absent"
              /\ Reading(s)' => Reading(s)
    PROVE  Placed' /\ FlagMatchesMap' /\ OneHostOneGuest' /\ ForgottenIsClosed'
  BY DEF RoomInv, Placed, FlagMatchesMap, OneHostOneGuest, ForgottenIsClosed,
         Hosts, Guests, Members

\* A room with a guest and a host has no seat left.
LEMMA GuestMeansFull ==
    ASSUME NEW c \in Codes, NEW h \in Hosts(c), NEW g \in Guests(c)
    PROVE  Full(c)
<1>1. h \in Members(c) /\ g \in Members(c) /\ h # g
  BY DEF Hosts, Guests
<1> QED
  BY <1>1, TwoElements, MembersFinite DEF Full, MAX_PEERS_PER_ROOM

\* Admitting a socket keeps the invariant: a host is admitted where the map is
\* empty, a guest where there is a host and no other guest.
LEMMA AcceptKeeps ==
    ASSUME RoomInv, NEW s \in Sockets, NEW c \in Codes, NEW r \in Role,
           phase[s] \in {"idle", "creating"}, Accept(s, c, r),
           r = "host" => ~Taken(c),
           r = "guest" => hostPresent[c] /\ ~Full(c)
    PROVE  Placed' /\ FlagMatchesMap' /\ OneHostOneGuest' /\ ForgottenIsClosed'
<1> USE DEF Accept, RoomInv
<1>1. sessions[s] = "absent"
  BY DEF Placed
<1>2. /\ home' = [home EXCEPT ![s] = c]
      /\ sessions' = [sessions EXCEPT ![s] = r]
      /\ home \in [Sockets -> Codes \cup {NoCode}]
      /\ sessions \in [Sockets -> Role \cup {"absent"}]
      /\ r # "absent"
  BY DEF TypeOK, Role
<1>3. /\ Hosts(c)' = IF r = "host" THEN Hosts(c) \cup {s} ELSE Hosts(c)
      /\ Guests(c)' = IF r = "guest" THEN Guests(c) \cup {s} ELSE Guests(c)
      /\ \A d \in Codes \ {c} : Hosts(d)' = Hosts(d) /\ Guests(d)' = Guests(d)
  BY <1>1, <1>2 DEF Hosts, Guests, Members
<1>4. /\ hostPresent'[c] = (hostPresent[c] \/ r = "host")
      /\ \A d \in Codes \ {c} : hostPresent'[d] = hostPresent[d]
  BY DEF TypeOK
<1>5. r = "host" => Hosts(c) = {} /\ Guests(c) = {}
  BY DEF Taken, FlagMatchesMap, OneHostOneGuest
<1>6. r = "guest" => Hosts(c) # {} /\ Guests(c) = {}
  BY GuestMeansFull DEF FlagMatchesMap
<1>7. r = "host" \/ r = "guest"
  BY DEF Role
<1>8. FlagMatchesMap'
  BY <1>3, <1>4, <1>5, <1>6, <1>7 DEF FlagMatchesMap
<1>9. OneHostOneGuest'
  BY <1>3, <1>5, <1>6, <1>7 DEF OneHostOneGuest
<1>10. Placed'
  BY <1>1, <1>2 DEF Placed, TypeOK
<1>11. ForgottenIsClosed'
  BY <1>1, <1>2 DEF ForgottenIsClosed, Reading, TypeOK
<1> QED
  BY <1>8, <1>9, <1>10, <1>11

\* A disconnect keeps the invariant: the host takes its guest along, a guest
\* goes alone, and a socket that is no longer in the map changes no room.
LEMMA DisconnectKeeps ==
    ASSUME RoomInv, NEW s \in Sockets, Disconnect(s), UNCHANGED <<home, phase>>
    PROVE  Placed' /\ FlagMatchesMap' /\ OneHostOneGuest' /\ ForgottenIsClosed'
<1> USE DEF RoomInv, Disconnect
<1>1. \A t \in Sockets : sessions'[t] = IF t = s \/ t \in Evicted(s) THEN "absent" ELSE sessions[t]
  OBVIOUS
<1>2. \A t \in Sockets : /\ t = s \/ t \in Evicted(s) => closed'[t]
                         /\ closed[t] => closed'[t]
  BY DEF ClosedWith
<1>3. CASE sessions[s] = "host"
  <2> DEFINE c == home[s]
  <2>1. c \in Codes /\ s \in Hosts(c)
    BY <1>3 DEF Placed, Hosts, Members
  <2>2. Evicted(s) = Members(c) \ {s}
    BY <1>3 DEF Evicted, Others
  <2>3. Hosts(c)' = {} /\ Guests(c)' = {}
    BY <1>1, <2>2 DEF Hosts, Guests, Members
  <2>4. \A d \in Codes \ {c} : Hosts(d)' = Hosts(d) /\ Guests(d)' = Guests(d)
    BY <1>1, <2>2 DEF Hosts, Guests, Members
  <2>5. ~hostPresent'[c] /\ \A d \in Codes \ {c} : hostPresent'[d] = hostPresent[d]
    BY <1>3, <2>1 DEF ClosesRoom, TypeOK
  <2> QED
    BY <1>1, <1>2, <2>3, <2>4, <2>5
       DEF Placed, FlagMatchesMap, OneHostOneGuest, ForgottenIsClosed, Reading
<1>4. CASE sessions[s] # "host"
  <2>1. Evicted(s) = {}
    BY <1>4 DEF Evicted
  <2>2. \A d \in Codes : Hosts(d)' = Hosts(d) /\ Guests(d)' \subseteq Guests(d)
    BY <1>1, <1>4, <2>1 DEF Hosts, Guests, Members
  <2>3. hostPresent' = hostPresent
    BY <1>4 DEF ClosesRoom, TypeOK
  <2> QED
    BY <1>1, <1>2, <2>1, <2>2, <2>3
       DEF Placed, FlagMatchesMap, OneHostOneGuest, ForgottenIsClosed, Reading
<1> QED
  BY <1>3, <1>4

\* A restart empties the object's map and clears its flag together.
LEMMA RestartKeeps ==
    ASSUME RoomInv, NEW c \in Codes, Restart(c)
    PROVE  Placed' /\ FlagMatchesMap' /\ OneHostOneGuest' /\ ForgottenIsClosed'
<1> USE DEF RoomInv, Restart
<1>1. \A s \in Sockets : sessions'[s] = IF home[s] = c THEN "absent" ELSE sessions[s]
  OBVIOUS
<1>2. Hosts(c)' = {} /\ Guests(c)' = {}
  BY <1>1 DEF Hosts, Guests, Members
<1>3. \A d \in Codes \ {c} : Hosts(d)' = Hosts(d) /\ Guests(d)' = Guests(d)
  BY <1>1 DEF Hosts, Guests, Members
<1>4. ~hostPresent'[c] /\ \A d \in Codes \ {c} : hostPresent'[d] = hostPresent[d]
  BY DEF TypeOK
<1>5. FlagMatchesMap' /\ OneHostOneGuest'
  BY <1>2, <1>3, <1>4 DEF FlagMatchesMap, OneHostOneGuest
<1>6. Placed' /\ ForgottenIsClosed'
  BY <1>1 DEF Placed, ForgottenIsClosed, Reading, TypeOK
<1> QED
  BY <1>5, <1>6

\* RoomInv is inductive.
LEMMA RoomInvStep == RoomInv /\ TypeOK' /\ [Next]_vars => RoomInv'
<1> SUFFICES ASSUME RoomInv, TypeOK', [Next]_vars
             PROVE  Placed' /\ FlagMatchesMap' /\ OneHostOneGuest' /\ ForgottenIsClosed'
  BY DEF RoomInv
<1>1. ASSUME NEW s \in Sockets, NEW c \in Codes, CreateTaken(s, c) \/ JoinRefused(s, c)
      PROVE  Placed' /\ FlagMatchesMap' /\ OneHostOneGuest' /\ ForgottenIsClosed'
  BY <1>1, MapsUntouched DEF CreateTaken, JoinRefused, RoomInv, TypeOK, Placed, Reading
<1>2. ASSUME NEW s \in Sockets, NEW c \in Codes, CreateOK(s, c)
      PROVE  Placed' /\ FlagMatchesMap' /\ OneHostOneGuest' /\ ForgottenIsClosed'
  BY <1>2, AcceptKeeps DEF CreateOK, Role
<1>3. ASSUME NEW s \in Sockets, NEW c \in Codes, JoinOK(s, c)
      PROVE  Placed' /\ FlagMatchesMap' /\ OneHostOneGuest' /\ ForgottenIsClosed'
  BY <1>3, AcceptKeeps DEF JoinOK, Role
<1>4. ASSUME NEW s \in Sockets, Handle(s)
      PROVE  Placed' /\ FlagMatchesMap' /\ OneHostOneGuest' /\ ForgottenIsClosed'
  <2>1. CASE HandleInvalid(s) \/ HandleHello(s) \/ HandleSignal(s)
    BY <2>1, MapsUntouched DEF HandleInvalid, HandleHello, HandleSignal, RoomInv, Placed, Reading
  <2>2. CASE HandleDisconnect(s)
    BY <2>2, DisconnectKeeps DEF HandleDisconnect
  <2> QED
    BY <1>4, <2>1, <2>2 DEF Handle
<1>5. ASSUME NEW s \in Sockets,
             \/ \E m \in {"signal", "invalid"} : ClientSend(s, m)
             \/ ClientBye(s) \/ ClientLeave(s) \/ ClientRecv(s) \/ ClientClosed(s)
      PROVE  Placed' /\ FlagMatchesMap' /\ OneHostOneGuest' /\ ForgottenIsClosed'
  <2>1. UNCHANGED <<hostPresent, sessions, home, closed>>
    BY <1>5 DEF ClientSend, ClientBye, ClientLeave, ClientRecv, ClientClosed
  <2>2. \A t \in Sockets : /\ phase'[t] = phase[t] \/ phase'[t] \in {"leaving", "over"}
                           /\ Reading(t)' => Reading(t)
    BY <1>5 DEF ClientSend, ClientBye, ClientLeave, ClientRecv, ClientClosed,
                Reading, RoomInv, TypeOK
  <2> QED
    BY <2>1, <2>2, MapsUntouched DEF RoomInv, Placed
<1>6. ASSUME NEW s \in Sockets, Renew(s)
      PROVE  Placed' /\ FlagMatchesMap' /\ OneHostOneGuest' /\ ForgottenIsClosed'
  <2>1. \A d \in Codes : Hosts(d)' = Hosts(d) /\ Guests(d)' = Guests(d)
    BY <1>6 DEF Renew, RoomInv, TypeOK, Hosts, Guests, Members
  <2>2. FlagMatchesMap' /\ OneHostOneGuest'
    BY <1>6, <2>1 DEF Renew, RoomInv, FlagMatchesMap, OneHostOneGuest
  <2>3. Placed'
    BY <1>6 DEF Renew, RoomInv, TypeOK, Placed
  <2>4. ForgottenIsClosed'
    BY <1>6 DEF Renew, RoomInv, TypeOK, ForgottenIsClosed, Reading
  <2> QED
    BY <2>2, <2>3, <2>4
<1>7. ASSUME NEW c \in Codes, Restart(c)
      PROVE  Placed' /\ FlagMatchesMap' /\ OneHostOneGuest' /\ ForgottenIsClosed'
  BY <1>7, RestartKeeps
<1>8. CASE UNCHANGED vars
  BY <1>8, MapsUntouched DEF vars, RoomInv, Placed, Reading
<1> QED
  BY <1>1, <1>2, <1>3, <1>4, <1>5, <1>6, <1>7, <1>8 DEF Next

\* The flag and the occupancy rule hold in every room, and no forgotten socket
\* is left open (index.ts, RoomObject.fetch and disconnect).
THEOREM RoomInvariant == Spec => []RoomInv
<1>1. Init => RoomInv
  <2>1. Init => TypeOK
    BY AttemptsAssumption DEF Init, TypeOK, Phase, Role
  <2> QED
    BY <2>1 DEF Init, RoomInv, Placed, FlagMatchesMap, OneHostOneGuest, ForgottenIsClosed,
                Hosts, Guests, Members, Reading
<1> QED
  BY <1>1, TypeCorrect, RoomInvStep, PTL DEF Spec

\* hostPresent is exactly "the map holds a host".
THEOREM FlagIsExact == Spec => []FlagMatchesMap
  BY RoomInvariant, PTL DEF RoomInv

\* One host, at most one guest, and no guest without a host.
THEOREM Occupancy == Spec => []OneHostOneGuest
  BY RoomInvariant, PTL DEF RoomInv

\* A socket the room forgot is closed.
THEOREM NoForgottenSocket == Spec => []ForgottenIsClosed
  BY RoomInvariant, PTL DEF RoomInv

\* A room closes only together with its own host's connection.
THEOREM RoomOutlivesStaleEvents == Spec => OnlyItsHostCloses
<1>1. RoomInv /\ [Next]_vars =>
        [\A c \in Codes : hostPresent[c] /\ ~hostPresent'[c]
             => \A h \in Hosts(c) : closed'[h] /\ sessions'[h] = "absent"]_vars
  <2> SUFFICES ASSUME RoomInv, Next, NEW c \in Codes, hostPresent[c], ~hostPresent'[c],
                      NEW h \in Hosts(c)
               PROVE  closed'[h] /\ sessions'[h] = "absent"
    BY DEF vars
  <2>1. h \in Sockets /\ home[h] = c /\ sessions[h] = "host"
    BY DEF Hosts, Members
  <2>2. ASSUME NEW d \in Codes, Restart(d)
        PROVE  closed'[h] /\ sessions'[h] = "absent"
    BY <2>1, <2>2 DEF Restart, RoomInv, TypeOK
  <2>3. ASSUME NEW s \in Sockets, HandleDisconnect(s)
        PROVE  closed'[h] /\ sessions'[h] = "absent"
    <3>1. sessions[s] = "host" /\ home[s] = c
      BY <2>3 DEF HandleDisconnect, Disconnect, ClosesRoom
    <3>2. s = h
      BY <2>1, <3>1 DEF RoomInv, OneHostOneGuest, Hosts, Members
    <3> QED
      BY <2>3, <3>2 DEF HandleDisconnect, Disconnect, ClosedWith
  <2>4. ASSUME NEW s \in Sockets, NEW d \in Codes, NEW r \in Role, Accept(s, d, r)
        PROVE  FALSE
    BY <2>4 DEF Accept, RoomInv, TypeOK
  <2> QED
    BY <2>2, <2>3, <2>4
       DEF Next, CreateTaken, CreateOK, JoinRefused, JoinOK, Handle, HandleInvalid,
           HandleHello, HandleSignal, ClientSend, ClientBye, ClientLeave, ClientRecv,
           ClientClosed, Renew, Role
<1> QED
  BY <1>1, RoomInvariant, PTL DEF Spec, OnlyItsHostCloses

-----------------------------------------------------------------------------
(* The rooms implement the abstract service                                *)

\* The sole element of a set of at most one socket.
LEMMA SoleElement ==
    ASSUME NEW S \in SUBSET Sockets, \A s, t \in S : s = t
    PROVE  /\ S = {} => Sole(S) = NoOne
           /\ \A s \in S : Sole(S) = s
           /\ S # {} => Sole(S) # NoOne
  BY SocketsAssumption DEF Sole

\* A room with one host is seen by the service as owned by it; likewise a guest.
LEMMA Seen ==
    ASSUME RoomInv, NEW c \in Codes
    PROVE  /\ \A s \in Hosts(c) : HostOf(c) = s
           /\ \A s \in Guests(c) : GuestOf(c) = s
           /\ Hosts(c) = {} <=> HostOf(c) = NoOne
           /\ Guests(c) = {} <=> GuestOf(c) = NoOne
<1>1. /\ Hosts(c) \in SUBSET Sockets /\ Guests(c) \in SUBSET Sockets
      /\ \A s, t \in Hosts(c) : s = t
      /\ \A s, t \in Guests(c) : s = t
  BY DEF RoomInv, OneHostOneGuest, Hosts, Guests, Members
<1> QED
  BY <1>1, SoleElement DEF HostOf, GuestOf

\* The service's occupants of a room are the members of the map.
LEMMA OccupantsAreMembers ==
    ASSUME RoomInv, NEW s \in Sockets, sessions[s] = "absent", NEW d \in Codes
    PROVE  s \notin Service!Occupants(d)
<1>1. s \notin Hosts(d) /\ s \notin Guests(d)
  BY DEF Hosts, Guests, Members
<1>2. HostOf(d) # s /\ GuestOf(d) # s
  BY <1>1, Seen, SocketsAssumption DEF Hosts, Guests, Members
<1> QED
  BY <1>2 DEF Service!Occupants

\* A step that changes no room's host or guest is a stutter of the service.
LEMMA SameRooms ==
    ASSUME \A d \in Codes : Hosts(d)' = Hosts(d) /\ Guests(d)' = Guests(d)
    PROVE  UNCHANGED Service!vars
  BY DEF Service!vars, HostOf, GuestOf

\* A step that empties one room, if it was owned, is its Shut.
LEMMA EmptiedRoom ==
    ASSUME RoomInv, RoomInv', NEW c \in Codes, Hosts(c)' = {}, Guests(c)' = {},
           \A d \in Codes \ {c} : Hosts(d)' = Hosts(d) /\ Guests(d)' = Guests(d)
    PROVE  [Service!Next]_(Service!vars)
<1>1. HostOf(c)' = NoOne /\ GuestOf(c)' = NoOne
  BY SoleElement DEF HostOf, GuestOf
<1>2. \A d \in Codes \ {c} : HostOf(d)' = HostOf(d) /\ GuestOf(d)' = GuestOf(d)
  BY DEF HostOf, GuestOf
<1>3. CASE Hosts(c) = {}
  <2>1. Guests(c) = {}
    BY <1>3 DEF RoomInv, OneHostOneGuest
  <2> QED
    BY <1>3, <2>1, SameRooms
<1>4. CASE Hosts(c) # {}
  <2>1. HostOf(c) # NoOne
    BY <1>4, Seen
  <2>2. Service!Shut(c)
    BY <1>1, <1>2, <2>1 DEF Service!Shut
  <2> QED
    BY <2>2 DEF Service!Next
<1> QED
  BY <1>3, <1>4

\* Admitting a socket is Open for a host and Enter for a guest.
LEMMA AcceptIsAdmission ==
    ASSUME RoomInv, RoomInv', NEW s \in Sockets, NEW c \in Codes, NEW r \in Role,
           phase[s] \in {"idle", "creating"}, Accept(s, c, r),
           r = "host" => ~Taken(c),
           r = "guest" => hostPresent[c] /\ ~Full(c)
    PROVE  [Service!Next]_(Service!vars)
<1>1. sessions[s] = "absent"
  BY DEF RoomInv, Placed
<1>2. \A d \in Codes : s \notin Service!Occupants(d)
  BY <1>1, OccupantsAreMembers
<1>3. /\ Hosts(c)' = IF r = "host" THEN Hosts(c) \cup {s} ELSE Hosts(c)
      /\ Guests(c)' = IF r = "guest" THEN Guests(c) \cup {s} ELSE Guests(c)
      /\ \A d \in Codes \ {c} : Hosts(d)' = Hosts(d) /\ Guests(d)' = Guests(d)
  BY <1>1 DEF Accept, RoomInv, TypeOK, Role, Hosts, Guests, Members
<1>4. \A d \in Codes \ {c} : HostOf(d)' = HostOf(d) /\ GuestOf(d)' = GuestOf(d)
  BY <1>3 DEF HostOf, GuestOf
<1>5. CASE r = "host"
  <2>1. Hosts(c) = {} /\ Guests(c)' = Guests(c)
    BY <1>3, <1>5 DEF Taken, RoomInv, FlagMatchesMap
  <2>2. Hosts(c)' = {s}
    BY <1>3, <1>5, <2>1
  <2>3. HostOf(c) = NoOne /\ HostOf(c)' = s /\ GuestOf(c)' = GuestOf(c)
    BY <2>1, <2>2, SoleElement DEF HostOf, GuestOf
  <2>4. Service!Open(c, s)
    BY <1>2, <1>4, <2>3 DEF Service!Open
  <2> QED
    BY <2>4 DEF Service!Next
<1>6. CASE r = "guest"
  <2>1. Hosts(c) # {} /\ Hosts(c)' = Hosts(c)
    BY <1>3, <1>6 DEF RoomInv, FlagMatchesMap
  <2>2. Guests(c) = {}
    BY <1>6, <2>1, GuestMeansFull
  <2>3. Guests(c)' = {s}
    BY <1>3, <1>6, <2>2
  <2>4. HostOf(c) # NoOne /\ HostOf(c)' = HostOf(c) /\ GuestOf(c) = NoOne /\ GuestOf(c)' = s
    BY <2>1, <2>2, <2>3, Seen, SoleElement DEF HostOf, GuestOf
  <2>5. Service!Enter(c, s)
    BY <1>2, <1>4, <2>4 DEF Service!Enter
  <2> QED
    BY <2>5 DEF Service!Next
<1> QED
  BY <1>5, <1>6 DEF Role

\* A disconnect is Shut for a host, Leave for a guest, nothing for a stranger.
LEMMA DisconnectIsDeparture ==
    ASSUME RoomInv, RoomInv', NEW s \in Sockets, Disconnect(s), UNCHANGED home
    PROVE  [Service!Next]_(Service!vars)
<1> DEFINE c == home[s]
<1>1. \A t \in Sockets : sessions'[t] = IF t = s \/ t \in Evicted(s) THEN "absent" ELSE sessions[t]
  BY DEF Disconnect
<1>2. CASE sessions[s] = "host"
  <2>1. c \in Codes
    BY <1>2 DEF RoomInv, Placed
  <2>2. Evicted(s) = Members(c) \ {s}
    BY <1>2 DEF Evicted, Others
  <2>3. Hosts(c)' = {} /\ Guests(c)' = {}
    BY <1>1, <2>2 DEF Hosts, Guests, Members
  <2>4. \A d \in Codes \ {c} : Hosts(d)' = Hosts(d) /\ Guests(d)' = Guests(d)
    BY <1>1, <2>2 DEF Hosts, Guests, Members
  <2> QED
    BY <2>1, <2>3, <2>4, EmptiedRoom
<1>3. CASE sessions[s] = "guest"
  <2>1. c \in Codes /\ s \in Guests(c)
    BY <1>3 DEF RoomInv, Placed, Guests, Members
  <2>2. Guests(c) = {s}
    BY <2>1 DEF RoomInv, OneHostOneGuest
  <2>3. Evicted(s) = {}
    BY <1>3 DEF Evicted
  <2>4. Hosts(c)' = Hosts(c) /\ Guests(c)' = {}
    BY <1>1, <1>3, <2>2, <2>3 DEF Hosts, Guests, Members
  <2>5. \A d \in Codes \ {c} : Hosts(d)' = Hosts(d) /\ Guests(d)' = Guests(d)
    BY <1>1, <2>3 DEF Hosts, Guests, Members
  <2>6. \A d \in Codes \ {c} : HostOf(d)' = HostOf(d) /\ GuestOf(d)' = GuestOf(d)
    BY <2>5 DEF HostOf, GuestOf
  <2>7. HostOf(c)' = HostOf(c) /\ GuestOf(c)' = NoOne /\ GuestOf(c) # NoOne
    BY <2>1, <2>4, Seen, SoleElement DEF HostOf, GuestOf
  <2>8. Service!Leave(c)
    BY <2>1, <2>6, <2>7 DEF Service!Leave
  <2> QED
    BY <2>1, <2>8 DEF Service!Next
<1>4. CASE sessions[s] = "absent"
  <2>1. Evicted(s) = {}
    BY <1>4 DEF Evicted
  <2>2. \A d \in Codes : Hosts(d)' = Hosts(d) /\ Guests(d)' = Guests(d)
    BY <1>1, <1>4, <2>1 DEF Hosts, Guests, Members
  <2> QED
    BY <2>2, SameRooms
<1> QED
  BY <1>2, <1>3, <1>4 DEF RoomInv, TypeOK, Role

\* Every behaviour of the worker's rooms is one of the abstract room service.
THEOREM RoomImplementsService == Spec => ImplementsService
<1>1. Init => Service!Init
  <2>1. Init => \A c \in Codes : Hosts(c) = {} /\ Guests(c) = {}
    BY DEF Init, Hosts, Guests, Members
  <2> QED
    BY <2>1, SoleElement DEF Service!Init, HostOf, GuestOf
<1>2. RoomInv /\ RoomInv' /\ [Next]_vars => [Service!Next]_(Service!vars)
  <2> SUFFICES ASSUME RoomInv, RoomInv', [Next]_vars
               PROVE  [Service!Next]_(Service!vars)
    OBVIOUS
  <2>1. ASSUME NEW s \in Sockets, NEW c \in Codes, CreateOK(s, c)
        PROVE  [Service!Next]_(Service!vars)
    BY <2>1, AcceptIsAdmission DEF CreateOK, Role
  <2>2. ASSUME NEW s \in Sockets, NEW c \in Codes, JoinOK(s, c)
        PROVE  [Service!Next]_(Service!vars)
    BY <2>2, AcceptIsAdmission DEF JoinOK, Role
  <2>3. ASSUME NEW s \in Sockets, HandleDisconnect(s)
        PROVE  [Service!Next]_(Service!vars)
    BY <2>3, DisconnectIsDeparture DEF HandleDisconnect
  <2>4. ASSUME NEW c \in Codes, Restart(c)
        PROVE  [Service!Next]_(Service!vars)
    <3>1. \A s \in Sockets : sessions'[s] = IF home[s] = c THEN "absent" ELSE sessions[s]
      BY <2>4 DEF Restart
    <3>2. Hosts(c)' = {} /\ Guests(c)' = {}
      BY <2>4, <3>1 DEF Restart, Hosts, Guests, Members
    <3>3. \A d \in Codes \ {c} : Hosts(d)' = Hosts(d) /\ Guests(d)' = Guests(d)
      BY <2>4, <3>1 DEF Restart, Hosts, Guests, Members
    <3> QED
      BY <2>4, <3>2, <3>3, EmptiedRoom
  <2>5. ASSUME NEW s \in Sockets, Renew(s)
        PROVE  [Service!Next]_(Service!vars)
    <3>1. \A d \in Codes : Hosts(d)' = Hosts(d) /\ Guests(d)' = Guests(d)
      BY <2>5 DEF Renew, RoomInv, TypeOK, Hosts, Guests, Members
    <3> QED
      BY <3>1, SameRooms
  <2>6. CASE UNCHANGED <<sessions, home>>
    <3>1. \A d \in Codes : Hosts(d)' = Hosts(d) /\ Guests(d)' = Guests(d)
      BY <2>6 DEF Hosts, Guests, Members
    <3> QED
      BY <3>1, SameRooms
  <2> QED
    BY <2>1, <2>2, <2>3, <2>4, <2>5, <2>6
       DEF Next, vars, CreateTaken, JoinRefused, Handle, HandleInvalid, HandleHello,
           HandleSignal, ClientSend, ClientBye, ClientLeave, ClientRecv, ClientClosed
<1> QED
  BY <1>1, <1>2, RoomInvariant, PTL DEF Spec, ImplementsService, Service!Spec

-----------------------------------------------------------------------------
(* What the sockets of a room are told, for queues of any length: a guest  *)
(* learns of the host's leave before its socket is closed, nobody is left  *)
(* with a peer that is gone, and a host and a guest learn of each other.   *)
(* The properties speak of drained sockets; the invariant says the same of *)
(* what is still on its way: the last announcement under way, or the       *)
(* roster if there is none, is right.                                      *)

\* The last word in the queue q on whether there is a peer is m, and a message
\* of N may say the contrary; r says that its reader believes the contrary now.
Ends(q, m, N, r) ==
    /\ \A i \in 1 .. Len(q) : q[i] \in N => \E j \in 1 .. Len(q) : j > i /\ q[j] = m
    /\ r => \E j \in 1 .. Len(q) : q[j] = m

\* Accepted sockets are closed exactly when their room has forgotten them; only
\* accepted sockets send; a client says bye when it is no longer open.
Marked ==
    \A s \in Sockets :
        /\ sessions[s] = "absent" /\ home[s] # NoCode => closed[s]
        /\ closed[s] => sessions[s] = "absent" /\ home[s] # NoCode
        /\ up[s] # <<>> \/ Reading(s) => home[s] # NoCode
        /\ phase[s] \in {"idle", "creating"} => home[s] = NoCode /\ ~roster[s]
        /\ phase[s] = "open" => ~Pending(s, {"bye", "close"})

\* To a client that did not leave, the close comes last and after peer-left.
Warned(s) ==
    \A i \in 1 .. Len(down[s]) :
        down[s][i] = "closed" => /\ i = Len(down[s]) /\ closed[s]
                                 /\ IF i = 1 THEN ~roster[s] ELSE down[s][i - 1] = "peer-left"
Warning == \A s \in Sockets : phase[s] = "open" => Warned(s)

\* Who is alone in its room will believe so, unless a stray signal tells it
\* otherwise: a signal announces a peer like a hello.
Alone == \A s \in Sockets :
            sessions[s] # "absent" /\ Reading(s) /\ Others(s) = {} /\ s \notin strays
                => Ends(down[s], "peer-left", {"peer-joined", "signal"}, roster[s])

\* Once the guest has said hello, both will know of each other.
Paired == \A c \in Codes : \A g \in Guests(c), s \in Members(c) :
            Reading(g) /\ Reading(s) /\ ~Pending(g, {"hello"})
                => Ends(down[s], "peer-joined", {"peer-left"}, ~roster[s])

Announced == Marked /\ Warning /\ Alone /\ Paired

-----------------------------------------------------------------------------
(* Queues                                                                  *)

\* A message that does not contradict the last word changes nothing, or is it.
LEMMA EndsAppend ==
    ASSUME NEW T, NEW q \in Seq(T), NEW e \in T, NEW m, NEW N, NEW r,
           e \notin N, Ends(q, m, N, r) \/ e = m
    PROVE  Ends(Append(q, e), m, N, r)
<1> DEFINE a == Append(q, e)
<1>1. /\ Len(q) \in Nat /\ Len(a) = Len(q) + 1
      /\ \A i \in 1 .. Len(q) : a[i] = q[i]
      /\ a[Len(q) + 1] = e
  OBVIOUS
<1> HIDE DEF a
<1>2. CASE e = m
  BY <1>1, <1>2 DEF Ends
<1>3. CASE Ends(q, m, N, r)
  BY <1>1, <1>3 DEF Ends
<1> QED
  BY <1>2, <1>3 DEF a

\* Taking the first message and believing it.
LEMMA EndsTail ==
    ASSUME NEW T, NEW q \in Seq(T), q # <<>>, NEW m, NEW N, m \notin N, NEW r, NEW b,
           Ends(q, m, N, r), b => Head(q) \in N \/ (r /\ Head(q) # m)
    PROVE  Ends(Tail(q), m, N, b)
<1> DEFINE a == Tail(q)
<1>1. /\ Len(q) \in Nat /\ Len(q) > 0 /\ Len(a) = Len(q) - 1
      /\ \A i \in 1 .. Len(a) : a[i] = q[i + 1]
      /\ Head(q) = q[1]
  OBVIOUS
<1> HIDE DEF a
<1>2. ASSUME NEW i \in 1 .. Len(q), NEW j \in 1 .. Len(q), j > i, q[j] = m
      PROVE  \E k \in 1 .. Len(a) : k > i - 1 /\ a[k] = m
  <2>1. j - 1 \in 1 .. Len(a) /\ a[j - 1] = q[j] /\ j - 1 > i - 1
    BY <1>1, <1>2
  <2> QED
    BY <1>2, <2>1
<1>3. ASSUME NEW i \in 1 .. Len(a), a[i] \in N
      PROVE  \E k \in 1 .. Len(a) : k > i /\ a[k] = m
  <2>1. i + 1 \in 1 .. Len(q) /\ q[i + 1] \in N /\ (i + 1) - 1 = i
    BY <1>1, <1>3
  <2>2. PICK j \in 1 .. Len(q) : j > i + 1 /\ q[j] = m
    BY <2>1 DEF Ends
  <2> QED
    BY <1>2, <2>1, <2>2
<1>4. ASSUME b PROVE \E k \in 1 .. Len(a) : a[k] = m
  <2>1. \E j \in 1 .. Len(q) : j > 1 /\ q[j] = m
    BY <1>1, <1>4 DEF Ends
  <2>2. 1 \in 1 .. Len(q)
    BY <1>1
  <2> QED
    BY <1>2, <2>1, <2>2
<1> QED
  BY <1>3, <1>4 DEF Ends, a

\* A reader who has read everything believes m.
LEMMA EndsEmpty ==
    ASSUME NEW m, NEW N, NEW r, Ends(<<>>, m, N, r)
    PROVE  ~r
  BY DEF Ends

\* Another client message adds its own kind to what is pending.
LEMMA PendingAppend ==
    ASSUME TypeOK, NEW s \in Sockets, NEW m \in ClientMsg, NEW ms,
           up'[s] = Append(up[s], m)
    PROVE  /\ Pending(s, ms) => Pending(s, ms)'
           /\ Pending(s, ms)' /\ m \notin ms => Pending(s, ms)
<1> DEFINE q == up[s]
           a == Append(q, m)
<1>1. /\ Len(q) \in Nat /\ Len(a) = Len(q) + 1
      /\ \A i \in 1 .. Len(q) : a[i] = q[i]
      /\ a[Len(q) + 1] = m
  BY DEF TypeOK
<1>2. up'[s] = a
  OBVIOUS
<1> HIDE DEF a
<1> QED
  BY <1>1, <1>2 DEF Pending

\* Taking a client message removes at most its own kind from what is pending.
LEMMA PendingTail ==
    ASSUME TypeOK, NEW s \in Sockets, up[s] # <<>>, NEW ms, up'[s] = Tail(up[s])
    PROVE  /\ Pending(s, ms)' => Pending(s, ms)
           /\ Pending(s, ms) /\ Head(up[s]) \notin ms => Pending(s, ms)'
<1> DEFINE q == up[s]
           a == Tail(q)
<1>1. /\ Len(q) \in Nat /\ Len(q) > 0 /\ Len(a) = Len(q) - 1
      /\ \A i \in 1 .. Len(a) : a[i] = q[i + 1]
      /\ Head(q) = q[1]
  BY DEF TypeOK
<1>2. up'[s] = a
  OBVIOUS
<1> HIDE DEF a, q
<1>3. ASSUME NEW i \in 1 .. Len(a), a[i] \in ms PROVE \E k \in 1 .. Len(q) : q[k] \in ms
  <2>1. i + 1 \in 1 .. Len(q) /\ q[i + 1] \in ms
    BY <1>1, <1>3
  <2> QED
    BY <2>1
<1>4. ASSUME NEW i \in 1 .. Len(q), q[i] \in ms, Head(q) \notin ms
      PROVE  \E k \in 1 .. Len(a) : a[k] \in ms
  <2>1. i # 1
    BY <1>1, <1>4
  <2>2. i - 1 \in 1 .. Len(a) /\ (i - 1) + 1 = i
    BY <1>1, <2>1
  <2>3. a[i - 1] \in ms
    BY <1>1, <1>4, <2>2
  <2> QED
    BY <2>2, <2>3
<1> QED
  BY <1>2, <1>3, <1>4 DEF Pending, q

\* A socket that the worker has not closed has no close on its way.
LEMMA OpenIsNotWarned ==
    ASSUME NEW s \in Sockets, Warned(s), ~closed[s]
    PROVE  \A i \in 1 .. Len(down[s]) : down[s][i] # "closed"
  BY DEF Warned

\* It stays so with another message.
LEMMA WarnedAppend ==
    ASSUME TypeOK, NEW s \in Sockets, Warned(s), ~closed[s], NEW e \in ServerMsg,
           e # "closed", down'[s] = Append(down[s], e)
    PROVE  Warned(s)'
<1> DEFINE q == down[s]
           a == Append(q, e)
<1>1. /\ Len(q) \in Nat /\ Len(a) = Len(q) + 1
      /\ \A i \in 1 .. Len(q) : a[i] = q[i]
      /\ a[Len(q) + 1] = e
  BY DEF TypeOK
<1>2. \A i \in 1 .. Len(q) : q[i] # "closed"
  BY OpenIsNotWarned
<1>3. down'[s] = a
  OBVIOUS
<1> HIDE DEF a, q
<1>4. \A i \in 1 .. Len(a) : a[i] # "closed"
  BY <1>1, <1>2
<1> QED
  BY <1>3, <1>4 DEF Warned

-----------------------------------------------------------------------------
(* Each action keeps the announcements                                     *)

\* The rooms are as they were.
LEMMA SameRoomsAnnounced ==
    ASSUME UNCHANGED <<sessions, home>>
    PROVE  /\ \A s \in Sockets : Others(s)' = Others(s)
           /\ \A c \in Codes : Guests(c)' = Guests(c) /\ Members(c)' = Members(c)
  BY DEF Others, Members, Guests

\* What an action may do that tells nobody anything: refuse, speak, leave.
LEMMA FrameKeeps ==
    ASSUME RoomInv, Announced, UNCHANGED <<sessions, home, closed, roster, strays>>,
           \A s \in Sockets :
              /\ phase'[s] = "open" => phase[s] = "open"
              /\ Reading(s)' => Reading(s) /\ down'[s] = down[s]
              /\ phase'[s] \in {"idle", "creating"} => phase[s] \in {"idle", "creating"}
              /\ up'[s] # <<>> => up[s] # <<>> \/ Reading(s)
              /\ phase'[s] = "open" /\ Pending(s, {"bye", "close"})'
                   => Pending(s, {"bye", "close"})
              /\ Pending(s, {"hello"}) => Pending(s, {"hello"})'
    PROVE  Announced'
<1>1. Marked'
  BY DEF Announced, Marked
<1>2. Warning'
  BY DEF Announced, Warning, Warned, Reading
<1>3. Alone'
  BY SameRoomsAnnounced DEF Announced, Alone
<1>4. Paired'
  <2> SUFFICES ASSUME NEW c \in Codes, NEW g \in Guests(c)', NEW s \in Members(c)',
                      Reading(g)', Reading(s)', ~Pending(g, {"hello"})'
               PROVE  Ends(down[s], "peer-joined", {"peer-left"}, ~roster[s])'
    BY DEF Paired
  <2>1. g \in Guests(c) /\ s \in Members(c) /\ g \in Sockets /\ s \in Sockets
    BY SameRoomsAnnounced DEF Members, Guests
  <2> QED
    BY <2>1 DEF Announced, Paired, Ends
<1> QED
  BY <1>1, <1>2, <1>3, <1>4 DEF Announced

\* A refused client takes no part in any room.
LEMMA RefusedKeeps ==
    ASSUME RoomInv, Announced, NEW s \in Sockets, NEW c \in Codes,
           CreateTaken(s, c) \/ JoinRefused(s, c)
    PROVE  Announced'
  BY FrameKeeps DEF CreateTaken, JoinRefused, RoomInv, TypeOK, Reading, Pending

\* What a client sends, its leave included, is on its way to the worker only.
LEMMA SpeakKeeps ==
    ASSUME RoomInv, Announced, NEW s \in Sockets,
           \/ \E m \in {"signal", "invalid"} : ClientSend(s, m)
           \/ ClientBye(s) \/ ClientLeave(s) \/ ClientClosed(s)
    PROVE  Announced'
<1>1. PICK m \in {"signal", "invalid", "bye", "close"} :
        /\ up' = [up EXCEPT ![s] = Append(@, m)]
        /\ phase'[s] = "open" => m \notin {"bye", "close"}
  BY DEF ClientSend, ClientBye, ClientLeave, ClientClosed, RoomInv, TypeOK
<1>2. /\ m \in ClientMsg /\ m # "hello"
      /\ up'[s] = Append(up[s], m) /\ \A t \in Sockets \ {s} : up'[t] = up[t]
  BY <1>1 DEF ClientMsg, RoomInv, TypeOK
<1>3. /\ Pending(s, {"hello"}) => Pending(s, {"hello"})'
      /\ phase'[s] = "open" /\ Pending(s, {"bye", "close"})' => Pending(s, {"bye", "close"})
  BY <1>1, <1>2, PendingAppend DEF RoomInv
<1>4. \A t \in Sockets \ {s} : /\ Pending(t, {"hello"})' = Pending(t, {"hello"})
                              /\ Pending(t, {"bye", "close"})' = Pending(t, {"bye", "close"})
  BY <1>2 DEF Pending
<1>5. /\ Reading(s) /\ UNCHANGED <<sessions, home, closed, roster, strays>>
      /\ \A t \in Sockets : /\ phase'[t] = "open" => phase[t] = "open"
                            /\ Reading(t)' => Reading(t) /\ down'[t] = down[t]
                            /\ phase'[t] \in {"idle", "creating"}
                                 => phase[t] \in {"idle", "creating"}
  BY DEF ClientSend, ClientBye, ClientLeave, ClientClosed, RoomInv, TypeOK, Reading
<1> QED
  BY <1>2, <1>3, <1>4, <1>5, FrameKeeps

\* A new socket is alone in its room, or a guest that has not yet said hello.
LEMMA AcceptAnnounces ==
    ASSUME RoomInv, Announced, NEW s \in Sockets, NEW c \in Codes, NEW r \in Role,
           phase[s] \in {"idle", "creating"}, Accept(s, c, r),
           r = "host" => ~Taken(c),
           r = "guest" => hostPresent[c] /\ ~Full(c)
    PROVE  Announced'
<1> USE DEF Accept
<1>1. /\ sessions[s] = "absent" /\ home[s] = NoCode /\ ~closed[s] /\ ~roster[s]
      /\ c # NoCode /\ r # "absent"
  BY CodesAssumption DEF RoomInv, Placed, Announced, Marked, Role
<1>2. /\ sessions'[s] = r /\ home'[s] = c /\ phase'[s] = "open"
      /\ up'[s] = <<"hello">> /\ down'[s] = <<"room-ready">>
      /\ \A t \in Sockets \ {s} : /\ sessions'[t] = sessions[t] /\ home'[t] = home[t]
                                 /\ phase'[t] = phase[t] /\ up'[t] = up[t]
                                 /\ down'[t] = down[t]
  BY DEF RoomInv, TypeOK
<1>3. Pending(s, {"hello"})' /\ ~Pending(s, {"bye", "close"})'
  BY <1>2 DEF Pending
<1>4. Marked'
  BY <1>1, <1>2, <1>3 DEF Announced, Marked, Reading, Pending
<1>5. Warning'
  BY <1>2 DEF Announced, Warning, Warned
<1>6. Alone'
  <2> SUFFICES ASSUME NEW t \in Sockets, sessions'[t] # "absent", Reading(t)', Others(t)' = {},
                      t \notin strays'
               PROVE  Ends(down[t], "peer-left", {"peer-joined", "signal"}, roster[t])'
    BY DEF Alone
  <2>1. CASE t = s
    BY <1>1, <1>2, <2>1 DEF Ends
  <2>2. CASE t # s
    <3>1. Others(t) = {}
      BY <1>1, <1>2, <2>2 DEF Others, Members
    <3> QED
      BY <1>2, <2>2, <3>1 DEF Announced, Alone, Reading
  <2> QED
    BY <2>1, <2>2
<1>7. Paired'
  <2> SUFFICES ASSUME NEW d \in Codes, NEW g \in Guests(d)', NEW t \in Members(d)',
                      Reading(g)', Reading(t)', ~Pending(g, {"hello"})'
               PROVE  Ends(down[t], "peer-joined", {"peer-left"}, ~roster[t])'
    BY DEF Paired
  <2>1. g \in Sockets /\ t \in Sockets /\ g # s
    BY <1>3 DEF Guests, Members
  <2>2. g \in Guests(d)
    BY <1>2, <2>1 DEF Guests, Members
  <2>3. t # s
    <3> SUFFICES ASSUME t = s PROVE FALSE
      OBVIOUS
    <3>1. d = c
      BY <1>2 DEF Members
    <3>2. PICK h \in Hosts(c) : TRUE
      BY <2>2, <3>1 DEF RoomInv, OneHostOneGuest
    <3>3. hostPresent[c] /\ Full(c)
      BY <2>2, <3>1, <3>2, GuestMeansFull DEF RoomInv, FlagMatchesMap
    <3> QED
      BY <3>3 DEF Taken, Role
  <2>4. t \in Members(d)
    BY <1>2, <2>1, <2>3 DEF Members
  <2>5. Reading(g) /\ Reading(t) /\ ~Pending(g, {"hello"})
    BY <1>2, <2>1, <2>3 DEF Reading, Pending
  <2> QED
    BY <1>2, <2>1, <2>2, <2>3, <2>4, <2>5 DEF Announced, Paired, Ends
<1> QED
  BY <1>4, <1>5, <1>6, <1>7 DEF Announced

\* Handling an event of s takes no other kind of event from any queue.
LEMMA ConsumeOnly ==
    ASSUME RoomInv, NEW s \in Sockets, up[s] # <<>>, Consume(s)
    PROVE  /\ \A t \in Sockets : up'[t] # <<>> => up[t] # <<>>
           /\ \A t \in Sockets, ms \in {{"hello"}, {"bye", "close"}} :
                 /\ Pending(t, ms)' => Pending(t, ms)
                 /\ t # s \/ Head(up[s]) \notin ms => Pending(t, ms)' = Pending(t, ms)
<1>1. up'[s] = Tail(up[s]) /\ \A t \in Sockets \ {s} : up'[t] = up[t]
  BY DEF Consume, RoomInv, TypeOK
<1>2. \A ms : \A t \in Sockets \ {s} : Pending(t, ms)' = Pending(t, ms)
  BY <1>1 DEF Pending
<1>3. ASSUME NEW ms \in {{"hello"}, {"bye", "close"}}
      PROVE  /\ Pending(s, ms)' => Pending(s, ms)
             /\ Head(up[s]) \notin ms => Pending(s, ms)' = Pending(s, ms)
  <2>1. /\ Pending(s, ms)' => Pending(s, ms)
        /\ Pending(s, ms) /\ Head(up[s]) \notin ms => Pending(s, ms)'
    BY <1>1, PendingTail DEF RoomInv
  <2>2. Pending(s, ms) \in BOOLEAN /\ Pending(s, ms)' \in BOOLEAN
    BY DEF Pending
  <2> QED
    BY <2>1, <2>2
<1> QED
  BY <1>1, <1>2, <1>3

\* What SendAll does to one socket.
LEMMA SentOrNot ==
    ASSUME RoomInv, NEW to, NEW m, NEW t \in Sockets
    PROVE  /\ t \in to /\ ~closed[t] /\ Reading(t)
                => SendAll(down, to, m)[t] = Append(down[t], m)
           /\ ~(t \in to /\ ~closed[t] /\ Reading(t)) => SendAll(down, to, m)[t] = down[t]
  BY DEF SendAll

\* A handler that only sends m to open sockets keeps Marked and Warning.
LEMMA SendingKeeps ==
    ASSUME RoomInv, Announced, NEW s \in Sockets, up[s] # <<>>, Consume(s),
           NEW m \in ServerMsg, m # "closed",
           \A t \in Sockets : \/ down'[t] = down[t]
                              \/ ~closed[t] /\ down'[t] = Append(down[t], m),
           UNCHANGED <<sessions, home, closed, phase, roster>>
    PROVE  Marked' /\ Warning'
<1>1. Marked'
  BY ConsumeOnly DEF Announced, Marked, Reading
<1>2. ASSUME NEW t \in Sockets, phase[t] = "open" PROVE Warned(t)'
  <2>1. Warned(t)
    BY <1>2 DEF Announced, Warning
  <2>2. CASE down'[t] = down[t]
    BY <2>1, <2>2 DEF Warned
  <2>3. CASE ~closed[t] /\ down'[t] = Append(down[t], m)
    BY <2>1, <2>3, WarnedAppend DEF RoomInv
  <2> QED
    BY <2>2, <2>3
<1> QED
  BY <1>1, <1>2 DEF Warning

\* An error announces nothing, a signal of a member announces what its receivers
\* will believe, and those who are sent another signal are strays.
LEMMA RelayKeeps ==
    ASSUME RoomInv, Announced, NEW s \in Sockets, up[s] # <<>>,
           HandleInvalid(s) \/ HandleSignal(s)
    PROVE  Announced'
<1>1. PICK m \in {"error", "signal"} : \E to \in SUBSET Sockets : down' = SendAll(down, to, m)
  BY DEF HandleInvalid, HandleSignal, Others, Members
<1>2. \A t \in Sockets : \/ down'[t] = down[t]
                         \/ ~closed[t] /\ down'[t] = Append(down[t], m)
  BY <1>1 DEF SendAll
<1>3. /\ UNCHANGED <<sessions, home, closed, phase, roster>>
      /\ Consume(s) /\ Head(up[s]) # "hello" /\ m \in ServerMsg /\ m # "closed"
  BY DEF HandleInvalid, HandleSignal, ServerMsg
<1>4. Marked' /\ Warning'
  BY <1>2, <1>3, SendingKeeps
<1>5. ASSUME NEW t \in Sockets, NEW p, NEW N, NEW r, Ends(down[t], p, N, r),
             down'[t] = down[t] \/ m \notin N
      PROVE  Ends(down'[t], p, N, r)
  <2>1. down[t] \in Seq(ServerMsg)
    BY DEF RoomInv, TypeOK
  <2> QED
    BY <1>2, <1>3, <1>5, <2>1, EndsAppend
<1>6. Alone'
  <2> SUFFICES ASSUME NEW t \in Sockets, sessions[t] # "absent", Reading(t), Others(t) = {},
                      t \notin strays'
               PROVE  Ends(down'[t], "peer-left", {"peer-joined", "signal"}, roster[t])
    BY <1>3, SameRoomsAnnounced DEF Alone, Reading
  <2>1. strays \subseteq strays' /\ (HandleInvalid(s) \/ t \notin Others(s))
    <3>1. CASE HandleInvalid(s)
      BY <3>1 DEF HandleInvalid
    <3>2. CASE HandleSignal(s)
      <4>1. CASE sessions[s] = "absent"
        BY <3>2, <4>1 DEF HandleSignal
      <4>2. CASE sessions[s] # "absent"
        BY <3>2, <4>2 DEF HandleSignal, Others, Members
      <4> QED
        BY <4>1, <4>2
    <3> QED
      BY <3>1, <3>2
  <2>2. Ends(down[t], "peer-left", {"peer-joined", "signal"}, roster[t])
    BY <2>1 DEF Announced, Alone
  <2>3. CASE HandleInvalid(s)
    <3>1. down[t] \in Seq(ServerMsg) /\ "error" \in ServerMsg
      BY DEF RoomInv, TypeOK, ServerMsg
    <3>2. down'[t] = down[t] \/ down'[t] = Append(down[t], "error")
      BY <2>3 DEF HandleInvalid, SendAll
    <3> QED
      BY <2>2, <3>1, <3>2, EndsAppend
  <2>4. CASE HandleSignal(s) /\ t \notin Others(s)
    <3>1. down'[t] = down[t]
      BY <2>4 DEF HandleSignal, SendAll
    <3> QED
      BY <2>2, <3>1
  <2> QED
    BY <2>1, <2>3, <2>4
<1>7. Paired'
  <2> SUFFICES ASSUME NEW c \in Codes, NEW g \in Guests(c)', NEW t \in Members(c)',
                      Reading(g)', Reading(t)', ~Pending(g, {"hello"})'
               PROVE  Ends(down[t], "peer-joined", {"peer-left"}, ~roster[t])'
    BY DEF Paired
  <2>1. g \in Guests(c) /\ t \in Members(c) /\ g \in Sockets /\ t \in Sockets
    BY <1>3, SameRoomsAnnounced DEF Members, Guests
  <2>2. Reading(g) /\ Reading(t) /\ ~Pending(g, {"hello"})
    BY <1>3, <2>1, ConsumeOnly DEF Reading
  <2>3. Ends(down[t], "peer-joined", {"peer-left"}, ~roster[t])
    BY <2>1, <2>2 DEF Announced, Paired
  <2> QED
    BY <1>3, <1>5, <2>1, <2>3
<1> QED
  BY <1>4, <1>6, <1>7 DEF Announced

\* A hello is announced to both, or there is nobody to announce it to.
LEMMA HelloKeeps ==
    ASSUME RoomInv, Announced, NEW s \in Sockets, up[s] # <<>>, HandleHello(s)
    PROVE  Announced'
<1>1. /\ UNCHANGED <<sessions, home, closed, phase, roster, strays>>
      /\ Consume(s) /\ Head(up[s]) = "hello" /\ "peer-joined" \in ServerMsg
  BY DEF HandleHello, ServerMsg
<1>2. ~closed[s] => sessions[s] # "absent"
  BY DEF Announced, Marked
<1>3. \A t \in Sockets :
        \/ down'[t] = down[t]
        \/ ~closed[t] /\ t \in Greeted(s) /\ ~closed[s] /\ Others(s) # {}
           /\ down'[t] = Append(down[t], "peer-joined")
  BY DEF HandleHello, SendAll
<1>4. Marked' /\ Warning'
  BY <1>1, <1>3, SendingKeeps
<1>5. Alone'
  <2> SUFFICES ASSUME NEW t \in Sockets, sessions[t] # "absent", Reading(t), Others(t) = {},
                      t \notin strays
               PROVE  Ends(down'[t], "peer-left", {"peer-joined", "signal"}, roster[t])
    BY <1>1, SameRoomsAnnounced DEF Alone, Reading
  <2>1. down'[t] = down[t]
    BY <1>2, <1>3 DEF Greeted, Others, Members
  <2> QED
    BY <2>1 DEF Announced, Alone
<1>6. Paired'
  <2> SUFFICES ASSUME NEW c \in Codes, NEW g \in Guests(c), NEW t \in Members(c),
                      Reading(g), Reading(t), ~Pending(g, {"hello"})'
               PROVE  Ends(down'[t], "peer-joined", {"peer-left"}, ~roster[t])
    BY <1>1, SameRoomsAnnounced DEF Paired, Reading
  <2>1. g \in Sockets /\ t \in Sockets /\ down[t] \in Seq(ServerMsg) /\ ~closed[t]
    BY DEF Guests, Members, RoomInv, TypeOK, Announced, Marked
  <2>2. CASE g = s
    <3>1. PICK h \in Hosts(c) : TRUE
      BY DEF RoomInv, OneHostOneGuest
    <3>2. ~closed[s] /\ h \in Others(s) /\ t \in Greeted(s)
      BY <2>1, <2>2 DEF Announced, Marked, Guests, Hosts, Members, Others, Greeted
    <3>3. down'[t] = Append(down[t], "peer-joined")
      BY <2>1, <3>2 DEF HandleHello, SendAll
    <3> QED
      BY <1>1, <2>1, <3>3, EndsAppend
  <2>3. CASE g # s
    <3>1. ~Pending(g, {"hello"})
      BY <1>1, <2>1, <2>3, ConsumeOnly
    <3>2. Ends(down[t], "peer-joined", {"peer-left"}, ~roster[t])
      BY <3>1 DEF Announced, Paired
    <3> QED
      BY <1>1, <1>3, <2>1, <3>2, EndsAppend
  <2> QED
    BY <2>2, <2>3
<1> QED
  BY <1>4, <1>5, <1>6 DEF Announced

\* A client that is told that its peer left, and closed, is warned.
LEMMA WarnedClose ==
    ASSUME TypeOK, NEW s \in Sockets, Warned(s), ~closed[s], closed'[s],
           down'[s] = Append(Append(down[s], "peer-left"), "closed")
    PROVE  Warned(s)'
<1> DEFINE q == down[s]
           a == Append(Append(q, "peer-left"), "closed")
<1>1. /\ Len(q) \in Nat /\ Len(a) = Len(q) + 2
      /\ \A i \in 1 .. Len(q) : a[i] = q[i]
      /\ a[Len(q) + 1] = "peer-left"
  BY DEF TypeOK, ServerMsg
<1>2. \A i \in 1 .. Len(q) : q[i] # "closed"
  BY OpenIsNotWarned
<1>3. down'[s] = a
  OBVIOUS
<1> HIDE DEF a, q
<1>4. ASSUME NEW i \in 1 .. Len(a), a[i] = "closed"
      PROVE  i = Len(a) /\ i # 1 /\ a[i - 1] = "peer-left"
  <2>1. i = Len(q) + 2
    BY <1>1, <1>2, <1>4
  <2> QED
    BY <1>1, <2>1
<1> QED
  BY <1>3, <1>4 DEF Warned

\* Taking a message that is not the close leaves the client as warned.
LEMMA WarnedTail ==
    ASSUME TypeOK, NEW s \in Sockets, down[s] # <<>>, Warned(s), closed'[s] = closed[s],
           down'[s] = Tail(down[s]), Head(down[s]) = "peer-left" => ~roster'[s]
    PROVE  Warned(s)'
<1> DEFINE q == down[s]
           a == Tail(q)
<1>1. /\ Len(q) \in Nat /\ Len(q) > 0 /\ Len(a) = Len(q) - 1
      /\ \A i \in 1 .. Len(a) : a[i] = q[i + 1]
      /\ Head(q) = q[1]
  BY DEF TypeOK
<1>2. down'[s] = a
  OBVIOUS
<1>3. \A i \in 1 .. Len(q) : q[i] = "closed" =>
         i = Len(q) /\ closed[s] /\ (i # 1 => q[i - 1] = "peer-left")
  BY DEF Warned
<1>4. q[1] = "peer-left" => ~roster'[s]
  BY <1>1
<1> HIDE DEF a, q
<1>5. ASSUME NEW i \in 1 .. Len(a), a[i] = "closed"
      PROVE  i = Len(a) /\ closed[s] /\ IF i = 1 THEN ~roster'[s] ELSE a[i - 1] = "peer-left"
  <2>1. i + 1 \in 1 .. Len(q) /\ q[i + 1] = "closed" /\ i + 1 # 1 /\ (i + 1) - 1 = i
    BY <1>1, <1>5
  <2>2. i + 1 = Len(q) /\ closed[s] /\ q[i] = "peer-left"
    BY <1>3, <2>1
  <2>3. i = Len(a)
    BY <1>1, <2>2
  <2>4. i # 1 => a[i - 1] = q[i]
    <3>1. i # 1 => i - 1 \in 1 .. Len(a) /\ (i - 1) + 1 = i
      BY <1>1
    <3> QED
      BY <1>1, <3>1
  <2> QED
    BY <1>4, <2>2, <2>3, <2>4
<1> QED
  BY <1>2, <1>5 DEF Warned

\* Who stays is told before anyone is evicted; who is evicted is told, then closed.
LEMMA DisconnectAnnounces ==
    ASSUME RoomInv, Announced, NEW s \in Sockets, up[s] # <<>>, HandleDisconnect(s)
    PROVE  Announced'
<1>1. /\ UNCHANGED <<home, phase, roster>> /\ Consume(s) /\ "peer-left" \in ServerMsg
      /\ Head(up[s]) \in {"bye", "close"} /\ Head(up[s]) # "hello"
  BY DEF HandleDisconnect, ServerMsg
<1>2. \A t \in Sockets :
         /\ sessions'[t] = IF t \in ClosedWith(s) THEN "absent" ELSE sessions[t]
         /\ closed'[t] <=> closed[t] \/ t \in ClosedWith(s)
  BY DEF HandleDisconnect, Disconnect, ClosedWith
<1>3. ASSUME NEW t \in Sockets
      PROVE  /\ ~(t \in Others(s) /\ sessions[s] # "absent" /\ ~closed[t] /\ Reading(t))
                  => Farewell(s)[t] = down[t]
             /\ t \in Others(s) /\ sessions[s] # "absent" /\ ~closed[t] /\ Reading(t)
                  => Farewell(s)[t] = Append(down[t], "peer-left")
  BY SentOrNot DEF Farewell
<1>4. ASSUME NEW t \in Sockets, t \notin ClosedWith(s)
      PROVE  down'[t] = Farewell(s)[t]
  BY <1>4 DEF HandleDisconnect, Disconnect
<1>5. \A t \in Evicted(s) : /\ t \in Sockets /\ t \in Others(s) /\ sessions[s] = "host"
                            /\ sessions[t] # "absent" /\ home[t] = home[s] /\ ~closed[t]
  BY DEF Evicted, Others, Members, Announced, Marked
<1>6. home[s] # NoCode
  BY DEF Announced, Marked
<1>7. Pending(s, {"bye", "close"})
  <2>1. 1 \in 1 .. Len(up[s]) /\ Head(up[s]) = up[s][1]
    BY DEF RoomInv, TypeOK
  <2> QED
    BY <1>1, <2>1 DEF Pending
<1>8. \A t \in ClosedWith(s) : home[t] # NoCode
  BY <1>5, <1>6 DEF ClosedWith
<1>9. Marked'
  BY <1>1, <1>2, <1>8, ConsumeOnly DEF Announced, Marked, Reading
<1>10. ASSUME NEW t \in Sockets, phase[t] = "open" PROVE Warned(t)'
  <2>1. Warned(t) /\ t # s /\ Reading(t)
    BY <1>7, <1>10 DEF Announced, Warning, Marked, Reading
  <2>2. CASE t \in Evicted(s)
    <3>1. down'[t] = Append(Append(down[t], "peer-left"), "closed")
      BY <1>3, <1>5, <2>1, <2>2 DEF HandleDisconnect, Disconnect, ClosedWith
    <3> QED
      BY <1>2, <1>5, <2>1, <2>2, <3>1, WarnedClose DEF RoomInv, ClosedWith
  <2>3. CASE t \notin Evicted(s)
    <3>1. down'[t] = Farewell(s)[t] /\ closed'[t] = closed[t]
      BY <1>2, <1>4, <2>1, <2>3 DEF ClosedWith, RoomInv, TypeOK, HandleDisconnect, Disconnect
    <3>2. CASE down'[t] = down[t]
      BY <1>1, <2>1, <3>1, <3>2 DEF Warned
    <3>3. CASE ~closed[t] /\ down'[t] = Append(down[t], "peer-left")
      BY <1>1, <2>1, <3>3, WarnedAppend DEF RoomInv
    <3> QED
      BY <1>3, <3>1, <3>2, <3>3
  <2> QED
    BY <2>2, <2>3
<1>11. Warning'
  BY <1>1, <1>10 DEF Warning
<1>12. Alone'
  <2> SUFFICES ASSUME NEW t \in Sockets, sessions'[t] # "absent", Reading(t), Others(t)' = {},
                      t \notin strays'
               PROVE  Ends(down'[t], "peer-left", {"peer-joined", "signal"}, roster[t])
    BY <1>1 DEF Alone, Reading
  <2>1. t \notin ClosedWith(s) /\ sessions[t] # "absent" /\ ~closed[t]
        /\ down'[t] = Farewell(s)[t] /\ down[t] \in Seq(ServerMsg)
    BY <1>2, <1>4 DEF Announced, Marked, RoomInv, TypeOK
  <2>2. CASE Others(t) = {}
    <3>1. t \notin strays
      <4>1. sessions[s] # "absent" => t \notin Others(s)
        BY <2>1, <2>2 DEF Others, Members
      <4> QED
        BY <4>1 DEF HandleDisconnect
    <3>2. Ends(down[t], "peer-left", {"peer-joined", "signal"}, roster[t])
      BY <2>1, <2>2, <3>1 DEF Announced, Alone
    <3> QED
      BY <1>1, <1>3, <2>1, <3>2, EndsAppend
  <2>3. CASE Others(t) # {}
    <3>1. PICK o \in Others(t) : sessions'[o] = "absent"
      BY <1>1, <2>3 DEF Others, Members
    <3>2. o \in Sockets /\ home[o] = home[t] /\ sessions[o] # "absent" /\ o \in ClosedWith(s)
      BY <1>2, <3>1 DEF Others, Members
    <3>3. CASE o = s
      <4>1. t \in Others(s) /\ sessions[s] # "absent"
        BY <2>1, <3>2, <3>3 DEF Others, Members, ClosedWith
      <4>2. down'[t] = Append(down[t], "peer-left")
        BY <1>3, <2>1, <4>1
      <4> QED
        BY <1>1, <2>1, <4>2, EndsAppend
    <3>4. CASE o \in Evicted(s)
      <4>1. t \in Evicted(s)
        BY <1>5, <2>1, <3>2, <3>4 DEF Evicted, Others, Members, ClosedWith
      <4> QED
        BY <2>1, <4>1 DEF ClosedWith
    <3> QED
      BY <3>2, <3>3, <3>4 DEF ClosedWith
  <2> QED
    BY <2>2, <2>3
<1>13. Paired'
  <2> SUFFICES ASSUME NEW c \in Codes, NEW g \in Guests(c)', NEW t \in Members(c)',
                      Reading(g), Reading(t), ~Pending(g, {"hello"})'
               PROVE  Ends(down'[t], "peer-joined", {"peer-left"}, ~roster[t])
    BY <1>1 DEF Paired, Reading
  <2>1. /\ g \in Sockets /\ g \notin ClosedWith(s) /\ g \in Guests(c)
        /\ t \in Sockets /\ t \notin ClosedWith(s) /\ t \in Members(c)
    BY <1>1, <1>2 DEF Guests, Members
  <2>2. ~Pending(g, {"hello"})
    BY <1>1, <2>1, ConsumeOnly
  <2>3. ~(t \in Others(s) /\ sessions[s] # "absent")
    <3> SUFFICES ASSUME t \in Others(s), sessions[s] # "absent" PROVE FALSE
      OBVIOUS
    <3>1. sessions[s] = "guest"
      BY <2>1 DEF ClosedWith, Evicted, RoomInv, TypeOK, Role
    <3>2. s \in Guests(c)
      BY <2>1, <3>1 DEF Others, Members, Guests
    <3>3. s = g
      BY <2>1, <3>2 DEF RoomInv, OneHostOneGuest
    <3> QED
      BY <2>1, <3>3 DEF ClosedWith
  <2>4. down'[t] = down[t]
    BY <1>3, <1>4, <2>1, <2>3
  <2> QED
    BY <2>1, <2>2, <2>4 DEF Announced, Paired
<1> QED
  BY <1>9, <1>11, <1>12, <1>13 DEF Announced

\* The client takes the roster's word for the message it has just taken.
LEMMA RecvKeeps ==
    ASSUME RoomInv, Announced, NEW s \in Sockets, ClientRecv(s)
    PROVE  Announced'
<1>1. /\ UNCHANGED <<sessions, home, closed, phase, up, strays>>
      /\ Reading(s) /\ down[s] # <<>> /\ Head(down[s]) # "closed"
      /\ down'[s] = Tail(down[s]) /\ down[s] \in Seq(ServerMsg)
      /\ \A t \in Sockets \ {s} : down'[t] = down[t] /\ roster'[t] = roster[t]
      /\ roster \in [Sockets -> BOOLEAN] /\ roster' \in [Sockets -> BOOLEAN]
  BY DEF ClientRecv, Believed, RoomInv, TypeOK
<1>2. /\ roster'[s] => Head(down[s]) \in {"peer-joined", "signal"}
                       \/ (roster[s] /\ Head(down[s]) # "peer-left")
      /\ ~roster'[s] => Head(down[s]) = "peer-left"
                        \/ (~roster[s] /\ Head(down[s]) # "peer-joined")
      /\ Head(down[s]) = "peer-left" => ~roster'[s]
  BY DEF ClientRecv, Believed, RoomInv, TypeOK
<1>3. Marked'
  BY <1>1 DEF Announced, Marked, Reading, Pending
<1>4. ASSUME NEW t \in Sockets, phase[t] = "open" PROVE Warned(t)'
  <2>1. Warned(t)
    BY <1>4 DEF Announced, Warning
  <2>2. CASE t = s
    BY <1>1, <1>2, <2>1, <2>2, WarnedTail DEF RoomInv
  <2>3. CASE t # s
    BY <1>1, <2>1, <2>3 DEF Warned
  <2> QED
    BY <2>2, <2>3
<1>5. Warning'
  BY <1>1, <1>4 DEF Warning
<1>6. Alone'
  <2> SUFFICES ASSUME NEW t \in Sockets, sessions[t] # "absent", Reading(t), Others(t) = {},
                      t \notin strays
               PROVE  Ends(down'[t], "peer-left", {"peer-joined", "signal"}, roster'[t])
    BY <1>1, SameRoomsAnnounced DEF Alone, Reading
  <2>1. Ends(down[t], "peer-left", {"peer-joined", "signal"}, roster[t])
    BY DEF Announced, Alone
  <2>2. CASE t = s
    BY <1>1, <1>2, <2>1, <2>2, EndsTail
  <2> QED
    BY <1>1, <2>1, <2>2
<1>7. Paired'
  <2> SUFFICES ASSUME NEW c \in Codes, NEW g \in Guests(c), NEW t \in Members(c),
                      Reading(g), Reading(t), ~Pending(g, {"hello"})
               PROVE  Ends(down'[t], "peer-joined", {"peer-left"}, ~roster'[t])
    BY <1>1, SameRoomsAnnounced DEF Paired, Reading, Pending, Guests, Members
  <2>1. Ends(down[t], "peer-joined", {"peer-left"}, ~roster[t]) /\ t \in Sockets
    BY DEF Announced, Paired, Members
  <2>2. CASE t = s
    <3> DEFINE was == ~roster[s]
               is == ~roster'[s]
    <3>1. is => Head(down[s]) = "peer-left" \/ (was /\ Head(down[s]) # "peer-joined")
      BY <1>2
    <3>2. Ends(down[s], "peer-joined", {"peer-left"}, was)
      BY <2>1, <2>2
    <3> HIDE DEF was, is
    <3>3. Ends(Tail(down[s]), "peer-joined", {"peer-left"}, is)
      BY <1>1, <3>1, <3>2, EndsTail
    <3> QED
      BY <1>1, <2>2, <3>3 DEF is
  <2> QED
    BY <1>1, <2>1, <2>2
<1> QED
  BY <1>3, <1>5, <1>6, <1>7 DEF Announced

\* The sockets of other rooms notice neither a fresh connection nor a restart.
LEMMA ElsewhereKeeps ==
    ASSUME RoomInv, Announced, NEW S \in SUBSET Sockets,
           \A t \in S : sessions'[t] = "absent" /\ ~Reading(t)',
           \A t \in Sockets \ S :
              /\ sessions'[t] = sessions[t] /\ home'[t] = home[t] /\ phase'[t] = phase[t]
              /\ up'[t] = up[t] /\ down'[t] = down[t] /\ roster'[t] = roster[t]
              /\ closed'[t] = closed[t] /\ (t \in strays' <=> t \in strays)
              /\ \A u \in S : sessions[u] # "absent" => home[u] # home[t]
    PROVE  Warning' /\ Alone' /\ Paired'
<1>1. Warning'
  BY DEF Announced, Warning, Warned, Reading
<1>2. Alone'
  <2> SUFFICES ASSUME NEW t \in Sockets, sessions'[t] # "absent", Reading(t)', Others(t)' = {},
                      t \notin strays'
               PROVE  Ends(down[t], "peer-left", {"peer-joined", "signal"}, roster[t])'
    BY DEF Alone
  <2>1. t \notin S /\ Others(t) = {}
    BY DEF Others, Members
  <2> QED
    BY <2>1 DEF Announced, Alone, Reading, Ends
<1>3. Paired'
  <2> SUFFICES ASSUME NEW c \in Codes, NEW g \in Guests(c)', NEW t \in Members(c)',
                      Reading(g)', Reading(t)', ~Pending(g, {"hello"})'
               PROVE  Ends(down[t], "peer-joined", {"peer-left"}, ~roster[t])'
    BY DEF Paired
  <2>1. g \in Sockets \ S /\ t \in Sockets \ S
    BY DEF Guests, Members
  <2>2. g \in Guests(c) /\ t \in Members(c) /\ Reading(g) /\ Reading(t) /\ ~Pending(g, {"hello"})
    BY <2>1 DEF Guests, Members, Reading, Pending
  <2> QED
    BY <2>1, <2>2 DEF Announced, Paired, Ends
<1> QED
  BY <1>1, <1>2, <1>3

\* A fresh connection believes nothing and is in no room.
LEMMA RenewKeeps ==
    ASSUME RoomInv, Announced, NEW s \in Sockets, Renew(s)
    PROVE  Announced'
<1>1. /\ sessions[s] = "absent" /\ UNCHANGED <<sessions, up, down>> /\ up[s] = <<>>
      /\ home'[s] = NoCode /\ phase'[s] = "idle" /\ ~closed'[s] /\ ~roster'[s]
      /\ \A t \in Sockets \ {s} : /\ home'[t] = home[t] /\ phase'[t] = phase[t]
                                  /\ closed'[t] = closed[t] /\ roster'[t] = roster[t]
                                  /\ (t \in strays' <=> t \in strays)
  BY DEF Renew, RoomInv, TypeOK
<1>2. Marked'
  BY <1>1 DEF Announced, Marked, Reading, Pending
<1>3. Warning' /\ Alone' /\ Paired'
  <2>1. \A t \in {s} : sessions'[t] = "absent" /\ ~Reading(t)'
    BY <1>1 DEF Reading
  <2>2. {s} \in SUBSET Sockets /\ \A u \in {s} : sessions[u] = "absent"
    BY <1>1
  <2>3. \A t \in Sockets \ {s} : /\ sessions'[t] = sessions[t] /\ up'[t] = up[t]
                                  /\ down'[t] = down[t]
    BY <1>1
  <2> QED
    BY <1>1, <2>1, <2>2, <2>3, ElsewhereKeeps
<1> QED
  BY <1>2, <1>3 DEF Announced

\* A restart takes every socket of the room with its queue.
LEMMA RestartAnnounces ==
    ASSUME RoomInv, Announced, NEW c \in Codes, Restart(c)
    PROVE  Announced'
<1> DEFINE dead == {t \in Sockets : home[t] = c}
<1>1. /\ UNCHANGED <<home, roster, strays>>
      /\ \A t \in dead : /\ sessions'[t] = "absent" /\ closed'[t] /\ phase'[t] = "over"
                         /\ up'[t] = <<>>
      /\ \A t \in Sockets \ dead :
            /\ sessions'[t] = sessions[t] /\ phase'[t] = phase[t] /\ up'[t] = up[t]
            /\ down'[t] = down[t] /\ closed'[t] = closed[t]
  BY DEF Restart, RoomInv, TypeOK
<1>2. \A t \in dead : home[t] # NoCode
  BY CodesAssumption
<1>3. Marked'
  BY <1>1, <1>2 DEF Announced, Marked, Reading, Pending
<1>4. \A t \in dead : sessions'[t] = "absent" /\ ~Reading(t)'
  BY <1>1 DEF Reading
<1>5. \A t \in Sockets \ dead : \A u \in dead : home[u] # home[t]
  OBVIOUS
<1>6. dead \in SUBSET Sockets
  OBVIOUS
<1> HIDE DEF dead
<1>7. Warning' /\ Alone' /\ Paired'
  BY <1>1, <1>4, <1>5, <1>6, ElsewhereKeeps
<1> QED
  BY <1>3, <1>7 DEF Announced

-----------------------------------------------------------------------------
(* The theorems                                                            *)

\* Announced is inductive relative to RoomInv.
LEMMA AnnouncedStep == RoomInv /\ Announced /\ [Next]_vars => Announced'
<1> SUFFICES ASSUME RoomInv, Announced, [Next]_vars PROVE Announced'
  OBVIOUS
<1>1. ASSUME NEW s \in Sockets, NEW c \in Codes, CreateTaken(s, c) \/ JoinRefused(s, c)
      PROVE  Announced'
  BY <1>1, RefusedKeeps
<1>2. ASSUME NEW s \in Sockets, NEW c \in Codes, CreateOK(s, c)
      PROVE  Announced'
  BY <1>2, AcceptAnnounces DEF CreateOK, Role
<1>3. ASSUME NEW s \in Sockets, NEW c \in Codes, JoinOK(s, c)
      PROVE  Announced'
  BY <1>3, AcceptAnnounces DEF JoinOK, Role
<1>4. ASSUME NEW s \in Sockets, Handle(s)
      PROVE  Announced'
  BY <1>4, RelayKeeps, HelloKeeps, DisconnectAnnounces DEF Handle
<1>5. ASSUME NEW s \in Sockets,
             \/ \E m \in {"signal", "invalid"} : ClientSend(s, m)
             \/ ClientBye(s) \/ ClientLeave(s) \/ ClientClosed(s)
      PROVE  Announced'
  BY <1>5, SpeakKeeps
<1>6. ASSUME NEW s \in Sockets, ClientRecv(s)
      PROVE  Announced'
  BY <1>6, RecvKeeps
<1>7. ASSUME NEW s \in Sockets, Renew(s)
      PROVE  Announced'
  BY <1>7, RenewKeeps
<1>8. ASSUME NEW c \in Codes, Restart(c)
      PROVE  Announced'
  BY <1>8, RestartAnnounces
<1>9. CASE UNCHANGED vars
  BY <1>9, FrameKeeps DEF vars, Reading, Pending
<1> QED
  BY <1>1, <1>2, <1>3, <1>4, <1>5, <1>6, <1>7, <1>8, <1>9 DEF Next

\* What is on its way to the sockets of a room is right in every state: the
\* broadcasts of hello and disconnect and the relayed signals (index.ts) leave
\* no queue misled but those of strays.
THEOREM AnnouncedInvariant == Spec => []Announced
<1>1. Init => Announced
  BY DEF Init, Announced, Marked, Warning, Warned, Alone, Paired, Reading, Pending,
         Guests, Members
<1> QED
  BY <1>1, AnnouncedStep, RoomInvariant, PTL DEF Spec

\* An evicted guest has been told that the host left when it meets the close:
\* disconnect broadcasts before it clears the map.
THEOREM LeaveIsTold == Spec => []ToldBeforeClosed
<1>1. RoomInv /\ Announced => ToldBeforeClosed
  <2> SUFFICES ASSUME RoomInv, Announced, NEW s \in Sockets, phase[s] = "open",
                      down[s] # <<>>, Head(down[s]) = "closed"
               PROVE  ~roster[s]
    BY DEF ToldBeforeClosed
  <2>1. 1 \in 1 .. Len(down[s]) /\ Head(down[s]) = down[s][1]
    BY DEF RoomInv, TypeOK
  <2> QED
    BY <2>1 DEF Announced, Warning, Warned
<1> QED
  BY <1>1, AnnouncedInvariant, RoomInvariant, PTL

\* A drained member that believes in a peer has one, or was sent a signal of a
\* socket that its room had forgotten: no order of hello, signal, bye, close and
\* restart leaves another phantom.
THEOREM PhantomsAreStray == Spec => []PhantomIsStray
<1>1. Announced => PhantomIsStray
  <2> SUFFICES ASSUME Announced, NEW s \in Sockets, Haunted(s), s \notin strays
               PROVE  FALSE
    BY DEF PhantomIsStray
  <2>1. Ends(down[s], "peer-left", {"peer-joined", "signal"}, roster[s])
    BY DEF Announced, Alone, Haunted
  <2> QED
    BY <2>1, EndsEmpty DEF Haunted
<1> QED
  BY <1>1, AnnouncedInvariant, PTL

\* A drained member knows of its peer once the guest's hello is handled: no
\* order of the two hellos loses the announcement.
THEOREM PairLearns == Spec => []PeersKnown
<1>1. Announced => PeersKnown
  <2> SUFFICES ASSUME Announced, NEW c \in Codes, NEW g \in Guests(c), NEW s \in Members(c),
                      Reading(g), Reading(s), ~Pending(g, {"hello"}), down[s] = <<>>
               PROVE  roster[s]
    BY DEF PeersKnown
  <2>1. Ends(down[s], "peer-joined", {"peer-left"}, ~roster[s])
    BY DEF Announced, Paired
  <2>2. ~~roster[s]
    BY <2>1, EndsEmpty
  <2> QED
    BY <2>2
<1> QED
  BY <1>1, AnnouncedInvariant, PTL
==============================================================================
