-------------------------------- MODULE Room --------------------------------
(***************************************************************************)
(* The signaling worker (worker/src/index.ts): the router that finds a     *)
(* free room code for a host, and one RoomObject per code that admits      *)
(* sockets, relays their envelopes and closes the room with its host.      *)
(*                                                                         *)
(* Each handler of a RoomObject runs without an await, so it is one step.  *)
(* What interleaves are the handlers: of the two sockets of a room, of a   *)
(* socket the room has evicted but whose messages and close event are      *)
(* still to come, of creators retrying codes, and a restart of the object, *)
(* whose state is only in memory.                                          *)
(***************************************************************************)
EXTENDS Naturals, Sequences, FiniteSets

CONSTANTS Codes,                 \* room codes
          Sockets,               \* WebSocket connections, each a client's one attempt
          NoOne,                 \* no connection
          NoCode,                \* no room
          CREATE_ROOM_ATTEMPTS,  \* codes the router tries for one host
          MaxDown                \* bound: unread messages of an open client while
                                 \*   others connect

ASSUME SocketsAssumption == IsFiniteSet(Sockets) /\ NoOne \notin Sockets
ASSUME CodesAssumption == NoCode \notin Codes
ASSUME AttemptsAssumption == CREATE_ROOM_ATTEMPTS \in Nat \ {0}

MAX_PEERS_PER_ROOM == 2

VARIABLES hostPresent,  \* hostPresent[c]: field of the RoomObject of code c
          sessions,     \* sessions[s]: role of s in its RoomObject's map, or "absent"
          home,         \* home[s]: the code whose RoomObject accepted s
          closed,       \* closed[s]: the worker closed its end of s
          phase,        \* phase[s]: the client's end of s
          attempts,     \* attempts[s]: codes already tried for s
          up,           \* up[s]: client messages and the close event, in order
          down,         \* down[s]: messages on their way to the client
          roster,       \* roster[s]: the client believes its peer is in the room
          strays        \* history: sockets sent a signal of a socket their room had
                        \*   forgotten, and no peer-left since

vars == <<hostPresent, sessions, home, closed, phase, attempts, up, down, roster, strays>>

Role == {"host", "guest"}
Phase == {"idle", "creating", "open", "leaving", "over"}
ClientMsg == {"hello", "signal", "bye", "invalid", "close"}
ServerMsg == {"room-ready", "peer-joined", "peer-left", "signal", "error", "closed"}

\* The client still reads its socket.
Reading(s) == phase[s] \in {"open", "leaving"}

\* The worker has a message of one of the kinds ms of s still to handle.
Pending(s, ms) == \E i \in 1 .. Len(up[s]) : up[s][i] \in ms

Members(c) == {s \in Sockets : home[s] = c /\ sessions[s] # "absent"}
Others(s) == Members(home[s]) \ {s}

TypeOK == /\ hostPresent \in [Codes -> BOOLEAN]
          /\ sessions \in [Sockets -> Role \cup {"absent"}]
          /\ home \in [Sockets -> Codes \cup {NoCode}]
          /\ closed \in [Sockets -> BOOLEAN]
          /\ phase \in [Sockets -> Phase]
          /\ attempts \in [Sockets -> 0 .. CREATE_ROOM_ATTEMPTS - 1]
          /\ up \in [Sockets -> Seq(ClientMsg)]
          /\ down \in [Sockets -> Seq(ServerMsg)]
          /\ roster \in [Sockets -> BOOLEAN]
          /\ strays \subseteq Sockets

Init == /\ hostPresent = [c \in Codes |-> FALSE]
        /\ sessions = [s \in Sockets |-> "absent"]
        /\ home = [s \in Sockets |-> NoCode]
        /\ closed = [s \in Sockets |-> FALSE]
        /\ phase = [s \in Sockets |-> "idle"]
        /\ attempts = [s \in Sockets |-> 0]
        /\ up = [s \in Sockets |-> <<>>]
        /\ down = [s \in Sockets |-> <<>>]
        /\ roster = [s \in Sockets |-> FALSE]
        /\ strays = {}

-----------------------------------------------------------------------------
(* The router and RoomObject.fetch                                         *)

\* The checks of RoomObject.fetch, in the order of the code.
Taken(c) == hostPresent[c]
\* Mutant: a room counts as full one socket late.
FullLate(c) == Cardinality(Members(c)) > MAX_PEERS_PER_ROOM
Full(c) == Cardinality(Members(c)) >= MAX_PEERS_PER_ROOM

\* The bound on unread messages, those of evicted sockets apart.
Quiet == \A t \in Sockets : closed[t] \/ Len(down[t]) <= MaxDown

\* Both ends of a socket are made; the client's hello is queued before it connects.
Accept(s, c, role) ==
    /\ Quiet
    /\ sessions' = [sessions EXCEPT ![s] = role]
    /\ hostPresent' = [hostPresent EXCEPT ![c] = @ \/ role = "host"]
    /\ home' = [home EXCEPT ![s] = c]
    /\ phase' = [phase EXCEPT ![s] = "open"]
    /\ up' = [up EXCEPT ![s] = <<"hello">>]
    /\ down' = [down EXCEPT ![s] = <<"room-ready">>]
    /\ attempts' = [attempts EXCEPT ![s] = 0]
    /\ UNCHANGED <<closed, roster, strays>>

\* The loop's last turn. Mutant: one turn more.
TurnTooMany(s) == attempts[s] + 1 > CREATE_ROOM_ATTEMPTS
LastAttempt(s) == attempts[s] + 1 >= CREATE_ROOM_ATTEMPTS

\* One turn of the router's loop: a 409, for a taken or a full room, asks for
\* another code until the attempts are used up, then the client gets a 503.
CreateTaken(s, c) ==
    /\ phase[s] \in {"idle", "creating"}
    /\ Taken(c) \/ Full(c)
    /\ IF LastAttempt(s)
       THEN /\ attempts' = [attempts EXCEPT ![s] = 0]
            /\ phase' = [phase EXCEPT ![s] = "over"]
       ELSE /\ attempts' = [attempts EXCEPT ![s] = @ + 1]
            /\ phase' = [phase EXCEPT ![s] = "creating"]
    /\ UNCHANGED <<hostPresent, sessions, home, closed, up, down, roster, strays>>

CreateOK(s, c) ==
    /\ phase[s] \in {"idle", "creating"}
    /\ ~Taken(c)
    /\ ~Full(c)
    /\ Accept(s, c, "host")

\* A guest names its code; 404 without a host, 409 without a seat.
JoinRefused(s, c) ==
    /\ phase[s] = "idle"
    /\ ~hostPresent[c] \/ Full(c)
    /\ phase' = [phase EXCEPT ![s] = "over"]
    /\ UNCHANGED <<hostPresent, sessions, home, closed, attempts, up, down, roster, strays>>

JoinOK(s, c) ==
    /\ phase[s] = "idle"
    /\ hostPresent[c]
    /\ ~Full(c)
    /\ Accept(s, c, "guest")

-----------------------------------------------------------------------------
(* RoomObject message, close and error events                              *)

\* d after m is sent to every socket of to: a send on a socket the worker has
\* closed throws and reaches nobody, and a client that is gone reads nothing.
SendAll(d, to, m) ==
    [s \in Sockets |-> IF s \in to /\ ~closed[s] /\ Reading(s)
                       THEN Append(d[s], m) ELSE d[s]]

Consume(s) == up' = [up EXCEPT ![s] = Tail(@)]

\* Binary data, bad JSON or an unknown envelope: an error to the sender only.
HandleInvalid(s) ==
    /\ Head(up[s]) = "invalid"
    /\ Consume(s)
    /\ down' = SendAll(down, {s}, "error")
    /\ UNCHANGED <<hostPresent, sessions, home, closed, phase, attempts, roster, strays>>

\* Whom a hello tells of a peer. Mutant: the sender is not told who is there.
GreetOthersOnly(s) == Others(s)
Greeted(s) == Others(s) \cup {s}

\* hello tells the sender of each peer and each peer of the sender. The sender
\* is told first and unprotected: on a closed socket the handler stops there.
HandleHello(s) ==
    /\ Head(up[s]) = "hello"
    /\ Consume(s)
    /\ down' = IF closed[s] \/ Others(s) = {}
               THEN down
               ELSE SendAll(down, Greeted(s), "peer-joined")
    /\ UNCHANGED <<hostPresent, sessions, home, closed, phase, attempts, roster, strays>>

\* Anything else is relayed to the room, whoever sent it.
HandleSignal(s) ==
    /\ Head(up[s]) = "signal"
    /\ Consume(s)
    /\ down' = SendAll(down, Others(s), "signal")
    /\ strays' = IF sessions[s] = "absent" THEN strays \cup Others(s) ELSE strays
    /\ UNCHANGED <<hostPresent, sessions, home, closed, phase, attempts, roster>>

\* Whether the disconnect of s closes room c. Mutants: only an empty room is
\* closed; a socket the map no longer knows closes it too.
ClosesWhenEmpty(s, c) == sessions[s] = "host" /\ c = home[s] /\ Others(s) = {}
ClosesUnlessGuest(s, c) == sessions[s] # "guest" /\ c = home[s]
ClosesRoom(s, c) == sessions[s] = "host" /\ c = home[s]

\* The peers that go with s.
Evicted(s) == IF sessions[s] = "host" THEN Others(s) ELSE {}

\* The sockets closed with s. Mutant: the evicted ones are only forgotten.
ClosesOnlyItself(s) == {s}
ClosedWith(s) == {s} \cup Evicted(s)

\* The room is told, before anyone is evicted, that s leaves, if the map still
\* has s. Mutants: after the eviction; of a host only.
ToldAfterEviction(s) == IF sessions[s] = "guest" THEN SendAll(down, Others(s), "peer-left")
                        ELSE down
ToldOfHost(s) == IF sessions[s] = "host" THEN SendAll(down, Others(s), "peer-left")
                 ELSE down
Farewell(s) == IF sessions[s] # "absent" THEN SendAll(down, Others(s), "peer-left")
               ELSE down

\* disconnect(socket), for bye, close and error: once announced, the socket is
\* forgotten, and the room closes with its host.
Disconnect(s) ==
    /\ sessions' = [t \in Sockets |-> IF t = s \/ t \in Evicted(s)
                                      THEN "absent" ELSE sessions[t]]
    /\ hostPresent' = [c \in Codes |-> hostPresent[c] /\ ~ClosesRoom(s, c)]
    /\ closed' = [t \in Sockets |-> closed[t] \/ t \in ClosedWith(s)]
    /\ down' = [t \in Sockets |-> IF t \in ClosedWith(s) /\ ~closed[t] /\ Reading(t)
                                  THEN Append(Farewell(s)[t], "closed")
                                  ELSE Farewell(s)[t]]

HandleDisconnect(s) ==
    /\ Head(up[s]) \in {"bye", "close"}
    /\ Consume(s)
    /\ Disconnect(s)
    /\ strays' = IF sessions[s] = "absent" THEN strays ELSE strays \ Others(s)
    /\ UNCHANGED <<home, phase, attempts, roster>>

\* An event of s is dispatched by the RoomObject that accepted it.
Handle(s) ==
    /\ up[s] # <<>>
    /\ HandleInvalid(s) \/ HandleHello(s) \/ HandleSignal(s) \/ HandleDisconnect(s)

\* The object is restarted: its map and flag are only in memory, and its
\* sockets are reset together with everything in flight on them.
Restart(c) ==
    LET dead == {s \in Sockets : home[s] = c}
    IN  /\ dead # {}
        /\ hostPresent' = [hostPresent EXCEPT ![c] = FALSE]
        /\ sessions' = [s \in Sockets |-> IF s \in dead THEN "absent" ELSE sessions[s]]
        /\ closed' = [s \in Sockets |-> closed[s] \/ s \in dead]
        /\ phase' = [s \in Sockets |-> IF s \in dead THEN "over" ELSE phase[s]]
        /\ up' = [s \in Sockets |-> IF s \in dead THEN <<>> ELSE up[s]]
        /\ down' = [s \in Sockets |-> IF s \in dead THEN <<>> ELSE down[s]]
        /\ UNCHANGED <<home, attempts, roster, strays>>

-----------------------------------------------------------------------------
(* The client's end: SignalingClient and the roster its session keeps      *)

\* A message after the hello. Bound: nothing is unread anywhere, and no other
\* such message is in flight, when a client speaks.
ClientSend(s, m) ==
    /\ phase[s] = "open"
    /\ up[s] = <<>>
    /\ \A t \in Sockets : down[t] = <<>> /\ ~Pending(t, {"signal", "invalid"})
    /\ up' = [up EXCEPT ![s] = Append(@, m)]
    /\ UNCHANGED <<hostPresent, sessions, home, closed, phase, attempts, down, roster, strays>>

\* A client may announce that it leaves; it sends nothing after that.
ClientBye(s) ==
    /\ phase[s] = "open"
    /\ phase' = [phase EXCEPT ![s] = "leaving"]
    /\ up' = [up EXCEPT ![s] = Append(@, "bye")]
    /\ UNCHANGED <<hostPresent, sessions, home, closed, attempts, down, roster, strays>>

\* The user closes the session or the connection breaks; the worker sees a
\* close or an error event after what was already sent.
ClientLeave(s) ==
    /\ Reading(s)
    /\ phase' = [phase EXCEPT ![s] = "over"]
    /\ up' = [up EXCEPT ![s] = Append(@, "close")]
    /\ down' = [down EXCEPT ![s] = <<>>]
    /\ UNCHANGED <<hostPresent, sessions, home, closed, attempts, roster, strays>>

\* What a client that believed was may believe after m: a signal announces the
\* peer too, if it holds connect info that the client supports.
Believed(m, was) == CASE m = "peer-joined" -> {TRUE}
                      [] m = "peer-left" -> {FALSE}
                      [] m = "signal" -> {TRUE, was}
                      [] OTHER -> {was}

ClientRecv(s) ==
    /\ Reading(s)
    /\ down[s] # <<>>
    /\ Head(down[s]) # "closed"
    /\ down' = [down EXCEPT ![s] = Tail(@)]
    /\ \E b \in Believed(Head(down[s]), roster[s]) : roster' = [roster EXCEPT ![s] = b]
    /\ UNCHANGED <<hostPresent, sessions, home, closed, phase, attempts, up, strays>>

\* The worker's close frame ends the client's loop; the runtime answers it.
ClientClosed(s) ==
    /\ Reading(s)
    /\ down[s] # <<>>
    /\ Head(down[s]) = "closed"
    /\ phase' = [phase EXCEPT ![s] = "over"]
    /\ up' = [up EXCEPT ![s] = Append(@, "close")]
    /\ down' = [down EXCEPT ![s] = <<>>]
    /\ UNCHANGED <<hostPresent, sessions, home, closed, attempts, roster, strays>>

\* A connection that is over on both ends stands for a fresh one.
Renew(s) ==
    /\ phase[s] = "over"
    /\ sessions[s] = "absent"
    /\ up[s] = <<>>
    /\ home' = [home EXCEPT ![s] = NoCode]
    /\ closed' = [closed EXCEPT ![s] = FALSE]
    /\ phase' = [phase EXCEPT ![s] = "idle"]
    /\ roster' = [roster EXCEPT ![s] = FALSE]
    /\ strays' = strays \ {s}
    /\ UNCHANGED <<hostPresent, sessions, attempts, up, down>>

Next ==
    \/ \E s \in Sockets :
          \/ \E c \in Codes : CreateTaken(s, c) \/ CreateOK(s, c)
          \/ \E c \in Codes : JoinRefused(s, c) \/ JoinOK(s, c)
          \/ Handle(s)
          \/ \E m \in {"signal", "invalid"} : ClientSend(s, m)
          \/ ClientBye(s)
          \/ ClientLeave(s) \/ ClientRecv(s) \/ ClientClosed(s)
          \/ Renew(s)
    \/ \E c \in Codes : Restart(c)

Spec == Init /\ [][Next]_vars

-----------------------------------------------------------------------------
(* Properties                                                              *)

Hosts(c) == {s \in Members(c) : sessions[s] = "host"}
Guests(c) == {s \in Members(c) : sessions[s] = "guest"}

\* hostPresent, the flag that gates joining and creating, is exactly "the map
\* holds a host", whatever disconnects were dispatched twice or late.
FlagMatchesMap == \A c \in Codes : hostPresent[c] <=> Hosts(c) # {}

\* A room has at most one host and one guest, and no guest without a host; so
\* the "room full" answer is never given to a creator of a free code.
OneHostOneGuest ==
    \A c \in Codes : /\ \A s, t \in Hosts(c) : s = t
                     /\ \A s, t \in Guests(c) : s = t
                     /\ Guests(c) # {} => Hosts(c) # {}

\* A socket that the room forgot is closed: an evicted guest is never left
\* waiting in a room that no longer relays to it.
ForgottenIsClosed ==
    \A s \in Sockets : Reading(s) /\ sessions[s] = "absent" => closed[s]

\* A guest that the room evicts has been told that the host left before its
\* socket is closed: disconnect broadcasts before it clears the map.
ToldBeforeClosed ==
    \A s \in Sockets :
        phase[s] = "open" /\ down[s] # <<>> /\ Head(down[s]) = "closed" => ~roster[s]

\* A member that has drained its socket, is alone and believes in a peer.
Haunted(s) == /\ sessions[s] # "absent"
              /\ Reading(s)
              /\ down[s] = <<>>
              /\ roster[s]
              /\ Others(s) = {}

\* Only a signal that the room relayed for a socket it had forgotten leaves a
\* phantom peer behind: no order of the announcements, evictions and relayed
\* signals of members does (hello, disconnect and the relay of index.ts).
PhantomIsStray == \A s \in Sockets : Haunted(s) => s \in strays

\* What the closing of the room with its host is for (index.ts:218-219) and the
\* client reports as "the other client has joined": a drained member believes
\* in a peer only if one is in its room.
NoPhantomPeer == \A s \in Sockets : ~Haunted(s)

\* Once the guest's hello is handled and a member's socket is drained, the
\* member knows of its peer: no order of the two hellos loses the announcement.
PeersKnown ==
    \A c \in Codes : \A g \in Guests(c), s \in Members(c) :
        /\ Reading(g) /\ Reading(s)
        /\ ~Pending(g, {"hello"})
        /\ down[s] = <<>>
        => roster[s]

\* A room closes only together with its own host's connection: a late bye or
\* close of a socket that hosted the same code earlier does not close it.
OnlyItsHostCloses ==
    [][\A c \in Codes : hostPresent[c] /\ ~hostPresent'[c]
           => \A h \in Hosts(c) : closed'[h] /\ sessions'[h] = "absent"]_vars

\* The rooms seen as the abstract service.
Sole(S) == IF S = {} THEN NoOne ELSE CHOOSE s \in S : TRUE
HostOf(c) == Sole(Hosts(c))
GuestOf(c) == Sole(Guests(c))

Service == INSTANCE RoomService WITH host <- [c \in Codes |-> HostOf(c)],
                                     guest <- [c \in Codes |-> GuestOf(c)]

\* Every step of the worker is a step of the abstract room service, or none.
ImplementsService == Service!Spec
=============================================================================
