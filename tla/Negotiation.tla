----------------------------- MODULE Negotiation -----------------------------
(***************************************************************************)
(* How the two sessions of a room agree on a direct link: the dispatch     *)
(* loop of clients/p2p-core/src/session.rs on each side, the tasks it      *)
(* spawns to collect candidates and to establish links (direct.rs), and    *)
(* the room that relays between them, seen as in module Room.              *)
(*                                                                         *)
(* A connection info is known by its pairing token: the token stands for   *)
(* the socket, the certificate and the token itself, which are made and    *)
(* used together.  Tasks finish in any order; the two loops see the        *)
(* infos of the other side whenever the relay delivers them.  Collecting   *)
(* candidates and sending them is assumed to succeed.                      *)
(***************************************************************************)
EXTENDS Naturals, Sequences, FiniteSets

CONSTANTS Tokens,      \* pairing tokens
          NoToken,     \* none
          MaxTimeouts, \* bound: attempts whose 10 s end before the peer answers
          MaxRetries,  \* bound: clicks on "retry"
          MaxLost,     \* bound: established links that break
          MaxJoins     \* bound: guests that replace the first

ASSUME TokensAssumption == NoToken \notin Tokens /\ IsFiniteSet(Tokens)
ASSUME BoundsAssumption == /\ MaxTimeouts \in Nat /\ MaxRetries \in Nat
                           /\ MaxLost \in Nat /\ MaxJoins \in Nat

Role == {"host", "guest"}
Peer(r) == IF r = "host" THEN "guest" ELSE "host"

VARIABLES
    sent,     \* connect_info_sent
    local,    \* local_direct: a prepared info
    peer,     \* peer_direct: the last info of the peer
    started,  \* direct_started
    collect,  \* collect[r]: number of tasks of r collecting candidates
    ready,    \* ready[r]: infos sent whose tasks still have them
    tries,    \* tries[r]: links r's tasks try to establish
    links,    \* links[r]: links established at r's end; the first is in use
    failed,   \* failed[r]: r's window shows a failed link and a retry button
    up,       \* up[r]: r's envelopes to the room, in order
    down,     \* down[r]: the room's envelopes to r, in order
    present,  \* the guest's socket is in the room
    here,     \* the guest's session runs
    timeouts, retries, lost, joins, \* what happened so far, see the bounds
    alone     \* the host has retried with no guest in the room (history)

loop == <<sent, local, peer, started>>
tasks == <<collect, ready, tries>>
net == <<up, down, present, here>>
counts == <<timeouts, retries, lost, joins, alone>>
vars == <<loop, tasks, links, failed, net, counts>>

Pair(mine, theirs) == [mine |-> mine, theirs |-> theirs]
Pairs == [mine: Tokens, theirs: Tokens]
Signal(t) == [type |-> "signal", token |-> t]
Note(m) == [type |-> m]
Up == [type: {"signal"}, token: Tokens] \cup [type: {"hello", "gone"}]
Down == [type: {"signal"}, token: Tokens]
        \cup [type: {"room-ready", "peer-joined", "peer-left"}]

TypeOK == /\ sent \in [Role -> BOOLEAN]
          /\ local \in [Role -> Tokens \cup {NoToken}]
          /\ peer \in [Role -> Tokens \cup {NoToken}]
          /\ started \in [Role -> BOOLEAN]
          /\ collect \in [Role -> Nat]
          /\ ready \in [Role -> SUBSET Tokens]
          /\ tries \in [Role -> SUBSET Pairs]
          /\ links \in [Role -> Seq(Pairs)]
          /\ failed \in [Role -> BOOLEAN]
          /\ up \in [Role -> Seq(Up)]
          /\ down \in [Role -> Seq(Down)]
          /\ present \in BOOLEAN
          /\ here \in BOOLEAN
          /\ timeouts \in 0 .. MaxTimeouts
          /\ retries \in 0 .. MaxRetries
          /\ lost \in 0 .. MaxLost
          /\ joins \in 0 .. MaxJoins
          /\ alone \in BOOLEAN

\* The room has just admitted the first guest.
Init == /\ sent = [r \in Role |-> FALSE]
        /\ local = [r \in Role |-> NoToken]
        /\ peer = [r \in Role |-> NoToken]
        /\ started = [r \in Role |-> FALSE]
        /\ collect = [r \in Role |-> 0]
        /\ ready = [r \in Role |-> {}]
        /\ tries = [r \in Role |-> {}]
        /\ links = [r \in Role |-> <<>>]
        /\ failed = [r \in Role |-> FALSE]
        /\ up = [r \in Role |-> IF r = "guest" THEN <<Note("hello")>> ELSE <<>>]
        /\ down = [r \in Role |-> IF r = "guest" THEN <<Note("room-ready")>> ELSE <<>>]
        /\ present = TRUE
        /\ here = TRUE
        /\ timeouts = 0
        /\ retries = 0
        /\ lost = 0
        /\ joins = 0
        /\ alone = FALSE

\* A new token is one that nothing in the system still refers to.
Held(r) == tries[r] \cup {links[r][i] : i \in 1 .. Len(links[r])}
TokensIn(q) == {q[i].token : i \in {j \in 1 .. Len(q) : q[j].type = "signal"}}
Mentioned(r) == {local[r], peer[r]} \cup ready[r]
                \cup {p.mine : p \in Held(r)} \cup {p.theirs : p \in Held(r)}
                \cup TokensIn(up[r]) \cup TokensIn(down[r])
Unused == Tokens \ UNION {Mentioned(r) : r \in Role}

-----------------------------------------------------------------------------
(* The dispatch loop                                                       *)

\* The loop's variables of r after a step, as a record.
State(r) == [sent |-> sent[r], local |-> local[r], peer |-> peer[r],
             started |-> started[r], collect |-> collect[r], tries |-> tries[r]]
Become(r, s) == /\ sent' = [sent EXCEPT ![r] = s.sent]
                /\ local' = [local EXCEPT ![r] = s.local]
                /\ peer' = [peer EXCEPT ![r] = s.peer]
                /\ started' = [started EXCEPT ![r] = s.started]
                /\ collect' = [collect EXCEPT ![r] = s.collect]
                /\ tries' = [tries EXCEPT ![r] = s.tries]

\* announce_connect_info_once
Announce(s) == IF s.sent THEN s ELSE [s EXCEPT !.sent = TRUE, !.collect = @ + 1]

\* start_direct_link_once; a mutant that does not wait for the peer's info.
StartTry(s) == [s EXCEPT !.started = TRUE, !.local = NoToken,
                         !.tries = @ \cup {Pair(s.local, s.peer)}]
StartUnmet(s) == IF s.started \/ s.local = NoToken THEN s ELSE StartTry(s)
Start(s) == IF s.started \/ NoToken \in {s.local, s.peer} THEN s ELSE StartTry(s)

\* The reset of a retry, of a peer that left and of a peer's new attempt; a
\* mutant that keeps the mark of the last announcement.
ForgetKeepSent(s) == [s EXCEPT !.local = NoToken, !.started = FALSE]
Forget(s) == [s EXCEPT !.sent = FALSE, !.local = NoToken, !.started = FALSE]
ForgetPeer(s) == [Forget(s) EXCEPT !.peer = NoToken]

\* A different info than the last makes r collect and announce once more; a
\* mutant that only takes it down.
NewAttempt(s, t) == s.peer \notin {NoToken, t}
OnSignalUnanswered(s, t) == Start([s EXCEPT !.peer = t])
OnSignal(s, t) ==
    Start(IF NewAttempt(s, t) THEN Announce([Forget(s) EXCEPT !.peer = t])
                              ELSE [s EXCEPT !.peer = t])

\* The loop's answer to an envelope; a mutant in which the one who waits in
\* the room does not answer the one who joins.
OnEnvelopeSilent(r, s, m) ==
    CASE m.type = "room-ready" -> IF r = "guest" THEN Announce(s) ELSE s
      [] m.type = "peer-joined" -> s
      [] m.type = "peer-left" -> ForgetPeer(s)
      [] m.type = "signal" -> OnSignal(s, m.token)
OnEnvelope(r, s, m) ==
    CASE m.type = "peer-joined" -> Announce(s)
      [] m.type = "room-ready" -> IF r = "guest" THEN Announce(s) ELSE s
      [] m.type = "peer-left" -> ForgetPeer(s)
      [] m.type = "signal" -> OnSignal(s, m.token)

Dispatch(r) ==
    /\ down[r] # <<>>
    /\ Become(r, OnEnvelope(r, State(r), Head(down[r])))
    /\ down' = [down EXCEPT ![r] = Tail(@)]
    /\ failed' = [failed EXCEPT ![r] = @ /\ Head(down[r]).type # "peer-left"]
    /\ UNCHANGED <<ready, links, up, present, here, counts>>

\* The window offers a retry only while it shows a failed link.
Retry(r) ==
    /\ failed[r]
    /\ retries < MaxRetries
    /\ retries' = retries + 1
    /\ failed' = [failed EXCEPT ![r] = FALSE]
    /\ Become(r, Announce(ForgetPeer(State(r))))
    /\ alone' = (alone \/ (r = "host" /\ ~present))
    /\ UNCHANGED <<ready, links, net, timeouts, lost, joins>>

\* A prepared info comes back to the loop.
Prepared(r, t) ==
    /\ t \in ready[r]
    /\ ready' = [ready EXCEPT ![r] = @ \ {t}]
    /\ Become(r, Start([State(r) EXCEPT !.local = t]))
    /\ UNCHANGED <<links, failed, net, counts>>

-----------------------------------------------------------------------------
(* The tasks                                                               *)

\* Candidates are collected and sent; the info goes to the loop after that.
Collected(r) ==
    /\ collect[r] > 0
    /\ \E t \in Unused :
          /\ \A u \in Unused : t <= u
          /\ ready' = [ready EXCEPT ![r] = @ \cup {t}]
          /\ up' = [up EXCEPT ![r] = Append(@, Signal(t))]
    /\ collect' = [collect EXCEPT ![r] = @ - 1]
    /\ UNCHANGED <<loop, tries, links, failed, down, present, here, counts>>

\* The two ends of one link.
Match(p, q) == p.mine = q.theirs /\ p.theirs = q.mine

\* The host reads the guest's token and answers with its own.
HostEstablishes(p) ==
    /\ p \in tries["host"]
    /\ \E q \in tries["guest"] : Match(p, q)
    /\ tries' = [tries EXCEPT !["host"] = @ \ {p}]
    /\ links' = [links EXCEPT !["host"] = Append(@, p)]
    /\ failed' = [failed EXCEPT !["host"] = @ /\ links["host"] # <<>>]
    /\ UNCHANGED <<loop, collect, ready, net, counts>>

\* The guest reads the host's token.
GuestEstablishes(p) ==
    /\ p \in tries["guest"]
    /\ \E i \in 1 .. Len(links["host"]) : Match(links["host"][i], p)
    /\ tries' = [tries EXCEPT !["guest"] = @ \ {p}]
    /\ links' = [links EXCEPT !["guest"] = Append(@, p)]
    /\ failed' = [failed EXCEPT !["guest"] = @ /\ links["guest"] # <<>>]
    /\ UNCHANGED <<loop, collect, ready, net, counts>>

\* The peer of r has established its end of p, tries to, or will: it still
\* holds the info r means, and r's own has reached it or is on its way.
Sent(r, t) == \/ peer[Peer(r)] = t
              \/ \E i \in 1 .. Len(up[r]) : up[r][i] = Signal(t)
              \/ \E i \in 1 .. Len(down[Peer(r)]) : down[Peer(r)][i] = Signal(t)
Hopeful(r, p) ==
    LET q == Peer(r) IN
    \/ ~started[q] /\ p.theirs \in ready[q] \cup {local[q]} /\ Sent(r, p.mine)
    \/ \E x \in tries[q] : Match(x, p)
    \/ \E i \in 1 .. Len(links[q]) : Match(links[q][i], p)

Fails(r, p) ==
    /\ p \in tries[r]
    /\ IF Hopeful(r, p) THEN timeouts < MaxTimeouts /\ timeouts' = timeouts + 1
                        ELSE UNCHANGED timeouts
    /\ tries' = [tries EXCEPT ![r] = @ \ {p}]
    /\ failed' = [failed EXCEPT ![r] = TRUE]
    /\ UNCHANGED <<loop, collect, ready, links, net, retries, lost, joins, alone>>

\* An end of a link is gone: no attempt and no link of the peer answers it.
Dead(r, p) == ~ \/ \E x \in tries[Peer(r)] : Match(x, p)
                \/ \E i \in 1 .. Len(links[Peer(r)]) : Match(links[Peer(r)][i], p)

\* The link in use is lost, by itself or because its other end is.
Lost(r) ==
    /\ links[r] # <<>>
    /\ IF Dead(r, Head(links[r])) THEN UNCHANGED lost
                                  ELSE lost < MaxLost /\ lost' = lost + 1
    /\ links' = [links EXCEPT ![r] = Tail(@)]
    /\ failed' = [failed EXCEPT ![r] = Tail(links[r]) = <<>>]
    /\ UNCHANGED <<loop, tasks, net, timeouts, retries, joins, alone>>

-----------------------------------------------------------------------------
(* The room                                                                *)

\* The room handles the next envelope of r.
Relay(r) ==
    /\ up[r] # <<>>
    /\ up' = [up EXCEPT ![r] = Tail(@)]
    /\ LET m == Head(up[r])
           to(q, e) == IF q = "guest" /\ ~(present /\ here) THEN down[q] ELSE Append(down[q], e)
       IN  \/ /\ m.type = "signal"
              /\ down' = [down EXCEPT ![Peer(r)] = to(Peer(r), m)]
              /\ UNCHANGED present
           \/ /\ m.type = "hello"
              /\ down' = [q \in Role |-> to(q, Note("peer-joined"))]
              /\ UNCHANGED present
           \/ /\ m.type = "gone"
              /\ down' = [down EXCEPT !["host"] = Append(@, Note("peer-left"))]
              /\ present' = FALSE
    /\ UNCHANGED <<loop, tasks, links, failed, here, counts>>

\* The guest closes its session, with its tasks and its end of the link.
GuestLeaves ==
    /\ here
    /\ joins < MaxJoins
    /\ here' = FALSE
    /\ Become("guest", [sent |-> FALSE, local |-> NoToken, peer |-> NoToken,
                        started |-> FALSE, collect |-> 0, tries |-> {}])
    /\ ready' = [ready EXCEPT !["guest"] = {}]
    /\ links' = [links EXCEPT !["guest"] = <<>>]
    /\ failed' = [failed EXCEPT !["guest"] = FALSE]
    /\ up' = [up EXCEPT !["guest"] = Append(@, Note("gone"))]
    /\ down' = [down EXCEPT !["guest"] = <<>>]
    /\ UNCHANGED <<present, counts>>

\* The room admits another guest once the last has gone.
GuestJoins ==
    /\ ~here
    /\ ~present
    /\ here' = TRUE
    /\ present' = TRUE
    /\ joins' = joins + 1
    /\ up' = [up EXCEPT !["guest"] = <<Note("hello")>>]
    /\ down' = [down EXCEPT !["guest"] = <<Note("room-ready")>>]
    /\ UNCHANGED <<loop, tasks, links, failed, timeouts, retries, lost, alone>>

Next == \/ \E r \in Role : \/ Dispatch(r)
                           \/ Retry(r)
                           \/ \E t \in Tokens : Prepared(r, t)
                           \/ Collected(r)
                           \/ \E p \in tries[r] : Fails(r, p)
                           \/ Lost(r)
                           \/ Relay(r)
        \/ GuestLeaves \/ GuestJoins
        \/ \E p \in Pairs : HostEstablishes(p) \/ GuestEstablishes(p)

Spec == Init /\ [][Next]_vars

\* Every message is delivered, every task ends, and a link whose other end is
\* gone is found dead (QUIC pings every 10 s and gives up after 30 s).  Nobody
\* has to retry, leave or join, and no link has to break.
Fairness ==
    /\ \A r \in Role : /\ WF_vars(Dispatch(r))
                       /\ WF_vars(\E t \in Tokens : Prepared(r, t))
                       /\ WF_vars(Collected(r))
                       /\ WF_vars(\E p \in tries[r] : ~Hopeful(r, p) /\ Fails(r, p))
                       /\ WF_vars(links[r] # <<>> /\ Dead(r, Head(links[r])) /\ Lost(r))
                       /\ WF_vars(Relay(r))
    /\ WF_vars(\E p \in Pairs : HostEstablishes(p))
    /\ WF_vars(\E p \in Pairs : GuestEstablishes(p))

FairSpec == Spec /\ Fairness

-----------------------------------------------------------------------------
(* Properties                                                              *)

\* A side that has marked its info as sent (connect_info_sent) collects it,
\* holds it, or has started a link with it: were the mark left behind by a
\* reset, the next peer would wait for an info that nobody makes.
SentIsUnderWay ==
    \A r \in Role : sent[r] => \/ collect[r] > 0
                               \/ ready[r] # {}
                               \/ local[r] # NoToken
                               \/ started[r]

\* Nothing is left to deliver or to try.
Quiet == \A r \in Role : /\ collect[r] = 0 /\ ready[r] = {} /\ tries[r] = {}
                         /\ up[r] = <<>> /\ down[r] = <<>>

\* While both are in the room nobody waits for ever without being told: once
\* all is quiet each side has a link or shows a failed one, with its button.
NoSilentWait == Quiet /\ here => \A r \in Role : links[r] # <<>> \/ failed[r]

\* So it is as long as no host has used its retry in the empty room, which makes
\* an info that reaches nobody and is not made again for the next guest.
ToldUnlessAlone == alone \/ NoSilentWait

Linked == \A r \in Role : links[r] # <<>>

\* The first two to meet in a room end up linked, both of them, and stop
\* exchanging infos, in whatever order the infos and the tasks come.
FirstPairing ==
    [](timeouts = 0 /\ lost = 0 /\ retries = 0 /\ joins = 0 /\ here)
        => <>[](Linked /\ Quiet)

\* One click on "retry", on either side, repairs a link that broke, and again
\* the next one: after as many retries as broken links both are linked.
RetryReconnects ==
    [](timeouts = 0 /\ retries <= lost /\ joins = 0 /\ here) /\ <>[](retries = lost)
        => <>[](Linked /\ Quiet)

\* "The room stays when the guest leaves and lets it reconnect": a guest that
\* comes again is linked in the end, on a network that lets every attempt
\* through.  (Unused bounds the infos in flight: it must not run out.)
Reconnects ==
    [](timeouts = 0 /\ retries = 0 /\ lost = 0 /\ Unused # {})
        => <>[](here => Linked)
=============================================================================
