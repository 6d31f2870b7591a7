---------------------------- MODULE ConnectionWindow ----------------------------
(***************************************************************************)
(* What a window of the client believes of its connection                  *)
(* (clients/p2p-gui/src/main.rs) and what the tasks behind it do           *)
(* (clients/p2p-core/src/session.rs): the signaling socket, the dispatch   *)
(* loop, the attempts at a direct link and the link manager run for        *)
(* themselves, tell the window what happened through one channel of        *)
(* events, and end when the last clone of the session's handle is gone.    *)
(*                                                                         *)
(* A host's window and a guest's start one session each.  The room is seen *)
(* as in module Room, and the negotiation as in module Negotiation with    *)
(* its infos and delays left out: an attempt starts when both infos are    *)
(* known and may fail at any time.  Sharing a screen (module RemoteDesktop)*)
(* counts here because its capture thread holds a clone of the handle.     *)
(***************************************************************************)
EXTENDS Naturals, Sequences

CONSTANTS MaxLinks,    \* bound: QUIC connections made
          MaxTroubles  \* bound: sockets reclaimed, connections broken, retries
                       \* that start an attempt

ASSUME BoundsAssumption == {MaxLinks, MaxTroubles} \subseteq Nat

Window == {"host", "guest"}
Peer(w) == IF w = "host" THEN "guest" ELSE "host"

VARIABLES
    state,    \* ConnectionState
    handle,   \* the window has a handle of its session
    listens,  \* it has the receiver of the session's events
    worker,   \* its capture thread runs, with a clone of the handle
    closing,  \* a task is to close the session, with the handle
    events,   \* the events that wait in the window's channel
    socket,   \* the signaling socket, as the room sees it; "leaving" after Close
    inbox,    \* the envelopes that wait for the dispatch loop
    loop,     \* the dispatch loop
    sent, got,   \* its connect_info_sent, and whether peer_direct is known
    tries,    \* attempts at a direct link that run
    links,    \* the connections made, each with its two ends
    refused,  \* the window has shown that a retry failed
    troubles  \* what happened so far, see the bound

window == <<state, handle, listens, worker, closing, refused>>
signaling == <<socket, inbox, loop, sent, got, tries>>
vars == <<window, events, signaling, links, troubles>>

State == {"Idle", "Connecting", "Connected", "Paired", "Direct", "DirectFailed"}
Event == {"connected", "peer", "left", "established", "failed", "lost", "message",
          "desktop-idle", "closed"}
Link == [open: BOOLEAN, end: [Window -> {"making", "queued", "up", "gone"}]]

TypeOK == /\ state \in [Window -> State]
          /\ {handle, listens, worker, closing, refused, sent, got} \subseteq [Window -> BOOLEAN]
          /\ events \in [Window -> Seq(Event)]
          /\ socket \in [Window -> {"none", "open", "leaving", "closed"}]
          /\ inbox \in [Window -> Seq({"ready", "joined", "left", "signal"})]
          /\ loop \in [Window -> {"none", "runs", "ended"}]
          /\ tries \in [Window -> Nat]
          /\ links \in Seq(Link)
          /\ Len(links) <= MaxLinks
          /\ troubles \in 0 .. MaxTroubles

Everywhere(x) == [w \in Window |-> x]

Init == /\ state = Everywhere("Idle")
        /\ handle = Everywhere(FALSE)
        /\ listens = Everywhere(FALSE)
        /\ worker = Everywhere(FALSE)
        /\ closing = Everywhere(FALSE)
        /\ refused = Everywhere(FALSE)
        /\ events = Everywhere(<<>>)
        /\ socket = Everywhere("none")
        /\ inbox = Everywhere(<<>>)
        /\ loop = Everywhere("none")
        /\ sent = Everywhere(FALSE)
        /\ got = Everywhere(FALSE)
        /\ tries = Everywhere(0)
        /\ links = <<>>
        /\ troubles = 0

Trouble == troubles < MaxTroubles /\ troubles' = troubles + 1

\* Somebody still has a clone of the handle of w's session.
Held(w) == handle[w] \/ worker[w] \/ closing[w]

\* What the session tells its window, unless nobody receives it any more.
Tell(w, es) == events' = IF listens[w] THEN [events EXCEPT ![w] = @ \o es] ELSE events

InRoom(w) == socket[w] \in {"open", "leaving"}

\* The inboxes with m passed to w, if its socket is in the room and its loop runs.
Passed(box, w, m) == IF InRoom(w) /\ loop[w] = "runs" THEN [box EXCEPT ![w] = Append(@, m)]
                                                      ELSE box

-----------------------------------------------------------------------------
(* The window                                                              *)

\* start_session.  A session in the room hears that it is ready, and both ends
\* that the other is there; a guest finds no room but the host's, and no socket
\* may open at all.
StartSession(w) ==
    /\ loop[w] = "none"
    /\ loop' = [loop EXCEPT ![w] = "runs"]
    /\ handle' = [handle EXCEPT ![w] = TRUE]
    /\ listens' = [listens EXCEPT ![w] = TRUE]
    /\ state' = [state EXCEPT ![w] = "Connecting"]
    /\ \/ /\ socket' = [socket EXCEPT ![w] = "open"]
          /\ \/ w = "host" /\ inbox' = [inbox EXCEPT ![w] = <<"ready">>]
             \/ /\ w = "guest"
                /\ InRoom("host")
                /\ inbox' = Passed([inbox EXCEPT ![w] = <<"ready", "joined">>], "host", "joined")
       \/ socket' = [socket EXCEPT ![w] = "closed"] /\ UNCHANGED inbox
    /\ UNCHANGED <<worker, closing, refused, events, sent, got, tries, links, troubles>>

\* cleanup_remote_desktop joins the capture thread; a mutant that leaves it.
CaptureLeft(w) == worker
CaptureStopped(w) == [worker EXCEPT ![w] = FALSE]

\* disconnect: close_current_session gives the handle to a task that closes the
\* session.
Disconnect(w) ==
    /\ handle[w]
    /\ handle' = [handle EXCEPT ![w] = FALSE]
    /\ closing' = [closing EXCEPT ![w] = TRUE]
    /\ worker' = CaptureStopped(w)
    /\ listens' = [listens EXCEPT ![w] = FALSE]
    /\ events' = [events EXCEPT ![w] = <<>>]
    /\ state' = [state EXCEPT ![w] = "Idle"]
    /\ UNCHANGED <<refused, signaling, links, troubles>>

\* ChatSessionHandle::close, and the end of the last clone but the thread's.
CloseSession(w) ==
    /\ closing[w]
    /\ closing' = [closing EXCEPT ![w] = FALSE]
    /\ socket' = [socket EXCEPT ![w] = IF @ = "open" THEN "leaving" ELSE @]
    /\ UNCHANGED <<state, handle, listens, worker, refused, events,
                   inbox, loop, sent, got, tries, links, troubles>>

\* start_direct_link_once: both infos are known.
Begin(w, both) == tries' = IF both THEN [tries EXCEPT ![w] = @ + 1] ELSE tries

\* announce_connect_info_once and the task it spawns, after the loop has taken
\* its envelope: the info reaches the peer.
Announce(w, box, known) ==
    /\ inbox' = Passed(box, Peer(w), "signal")
    /\ sent' = [sent EXCEPT ![w] = TRUE]
    /\ got' = [got EXCEPT ![w] = known]
    /\ Begin(w, known)

\* retry_direct, whose button DirectFailed shows; without a dispatch loop the
\* window shows an error, and stays Paired.
RetryDirect(w) ==
    /\ state[w] = "DirectFailed"
    /\ handle[w]
    /\ state' = [state EXCEPT ![w] = "Paired"]
    /\ \/ loop[w] = "runs" /\ Trouble /\ Announce(w, inbox, FALSE) /\ UNCHANGED refused
       \/ /\ loop[w] = "ended"
          /\ refused' = [refused EXCEPT ![w] = TRUE]
          /\ UNCHANGED <<inbox, sent, got, tries, troubles>>
    /\ UNCHANGED <<handle, listens, worker, closing, events, socket, loop, links>>

\* mark_peer_available
PeerActive(w) == IF handle[w] /\ state[w] \in {"Connecting", "Connected"} THEN "Paired"
                                                                     ELSE state[w]

\* The window's state after an event of its session.
After(w, e) ==
    CASE e = "connected" -> IF state[w] = "Connecting" THEN "Connected" ELSE state[w]
      [] e \in {"peer", "message"} -> PeerActive(w)
      [] e = "established" -> "Direct"
      [] e \in {"failed", "lost"} -> "DirectFailed"
      [] e = "left" -> IF state[w] \in {"Paired", "Direct", "DirectFailed"} THEN "Connected"
                                                                            ELSE state[w]
      [] e = "closed" -> IF state[w] # "Direct" /\ handle[w] THEN "Idle" ELSE state[w]
      [] e = "desktop-idle" -> state[w]

\* The signaling has closed: a window that is not Direct gives its session up; a
\* mutant that keeps it.
DropsNothing(w, e) == FALSE
Drops(w, e) == e = "closed" /\ state[w] # "Direct"

\* poll_background_events takes the next event of the channel.
Poll(w) ==
    /\ events[w] # <<>>
    /\ LET e == Head(events[w]) IN
       /\ state' = [state EXCEPT ![w] = After(w, e)]
       /\ handle' = [handle EXCEPT ![w] = @ /\ ~Drops(w, e)]
       /\ worker' = [worker EXCEPT ![w] = @ /\ e # "desktop-idle"]
    /\ events' = [events EXCEPT ![w] = Tail(@)]
    /\ UNCHANGED <<listens, closing, refused, signaling, links, troubles>>

-----------------------------------------------------------------------------
(* The signaling: the room, a session's socket and its dispatch loop       *)

\* The room loses w's socket after w has received arrived: the other end hears
\* of it, and the room of a host that is gone is closed.
Leaving(w, arrived) ==
    /\ socket' = [v \in Window |-> IF v = w \/ (w = "host" /\ InRoom(v)) THEN "closed"
                                                                        ELSE socket[v]]
    /\ inbox' = Passed([inbox EXCEPT ![w] = arrived], Peer(w), "left")

\* SignalingClient::connect ends by Close, or when nobody can send any more.
SocketEnds(w) ==
    /\ socket[w] = "leaving" \/ (socket[w] = "open" /\ ~Held(w) /\ loop[w] = "ended")
    /\ Leaving(w, inbox[w])
    /\ UNCHANGED <<window, events, loop, sent, got, tries, links, troubles>>

\* An idle socket is reclaimed, or the network drops it.
Reclaim(w) ==
    /\ InRoom(w)
    /\ Trouble
    /\ \E k \in 0 .. Len(inbox[w]) : Leaving(w, SubSeq(inbox[w], 1, k))
    /\ UNCHANGED <<window, events, loop, sent, got, tries, links>>

\* The dispatch loop takes the next envelope.  peer_seen is left out: the event
\* it holds back is followed by one that means the same to the window.
Told == [ready |-> "connected", joined |-> "peer", left |-> "left", signal |-> "peer"]
Dispatch(w) ==
    /\ loop[w] = "runs"
    /\ inbox[w] # <<>>
    /\ LET m == Head(inbox[w])
           rest == [inbox EXCEPT ![w] = Tail(@)]
           announces == \/ m = "ready" /\ w = "guest" /\ ~sent[w]
                        \/ m = "joined" /\ ~sent[w]
                        \/ m = "signal" /\ got[w]
       IN  /\ \/ announces /\ Announce(w, rest, got[w])
              \/ /\ ~announces
                 /\ inbox' = rest
                 /\ sent' = [sent EXCEPT ![w] = @ /\ m # "left"]
                 /\ got' = [got EXCEPT ![w] = (@ \/ m = "signal") /\ m # "left"]
                 /\ Begin(w, m = "signal" /\ sent[w])
           /\ Tell(w, <<Told[m]>>)
    /\ UNCHANGED <<window, socket, loop, links, troubles>>

\* The loop ends with the last clone of the handle, or with the socket.
DispatchEnds(w) ==
    /\ loop[w] = "runs"
    /\ ~Held(w) \/ (socket[w] = "closed" /\ inbox[w] = <<>>)
    /\ loop' = [loop EXCEPT ![w] = "ended"]
    /\ inbox' = [inbox EXCEPT ![w] = <<>>]
    /\ sent' = [sent EXCEPT ![w] = FALSE]
    /\ got' = [got EXCEPT ![w] = FALSE]
    /\ Tell(w, <<"closed">>)
    /\ UNCHANGED <<window, socket, tries, links, troubles>>

-----------------------------------------------------------------------------
(* The direct link: attempts and the manager                               *)

Ids == 1 .. Len(links)

\* establish_direct_link finds no peer in its 10 s.
TryFails(w) ==
    /\ tries[w] > 0
    /\ tries' = [tries EXCEPT ![w] = @ - 1]
    /\ Tell(w, <<"failed">>)
    /\ UNCHANGED <<window, socket, inbox, loop, sent, got, links, troubles>>

\* The attempts of the two sessions meet; a mutant in which one is enough.
OneTries == \E w \in Window : tries[w] > 0
BothTry == \A w \in Window : tries[w] > 0
Connect ==
    /\ BothTry
    /\ Len(links) < MaxLinks
    /\ links' = Append(links, [open |-> TRUE, end |-> Everywhere("making")])
    /\ tries' = [w \in Window |-> tries[w] - 1]
    /\ UNCHANGED <<window, events, socket, inbox, loop, sent, got, troubles>>

\* One end of a connection that is being made fails.
GiveUp(w, l) ==
    /\ links[l].end[w] = "making"
    /\ links' = [links EXCEPT ![l].end[w] = "gone", ![l].open = FALSE]
    /\ Tell(w, <<"failed">>)
    /\ UNCHANGED <<window, signaling, troubles>>

\* The hellos are exchanged; the manager uses a link when it has no other.
InUse(w) == \E l \in Ids : links[l].end[w] = "up"
Queue(w, l) ==
    /\ links[l].end[w] = "making"
    /\ links[l].open
    /\ InUse(w)
    /\ links' = [links EXCEPT ![l].end[w] = "queued"]
    /\ UNCHANGED <<window, events, signaling, troubles>>
TakeLink(w, l) ==
    /\ \/ links[l].end[w] = "making" /\ links[l].open
       \/ links[l].end[w] = "queued"
    /\ ~InUse(w)
    /\ links' = [links EXCEPT ![l].end[w] = "up"]
    /\ Tell(w, <<"established">>)
    /\ UNCHANGED <<window, signaling, troubles>>

\* run_direct_link ends: nobody can send it a command,
NoCommands(w, l) ==
    /\ links[l].end[w] = "up"
    /\ ~Held(w)
    /\ links' = [links EXCEPT ![l].end[w] = "gone", ![l].open = FALSE]
    /\ UNCHANGED <<window, events, signaling, troubles>>

\* or its connection is closed, which also ends the sharing of a screen; a
\* mutant that only says the latter.
LostUnsaid(w) == IF worker[w] THEN <<"desktop-idle">> ELSE <<>>
Lost(w) == IF worker[w] THEN <<"lost", "desktop-idle">> ELSE <<"lost">>
LinkLost(w, l) ==
    /\ links[l].end[w] = "up"
    /\ ~links[l].open
    /\ links' = [links EXCEPT ![l].end[w] = "gone"]
    /\ Tell(w, Lost(w))
    /\ UNCHANGED <<window, signaling, troubles>>

\* The network breaks a connection.
Break(l) ==
    /\ links[l].open
    /\ Trouble
    /\ links' = [links EXCEPT ![l].open = FALSE]
    /\ UNCHANGED <<window, events, signaling>>

\* can_send_to_room, and a link that both ends use.
CanSend(w) == handle[w] /\ state[w] = "Direct"
Live == \E l \in Ids : links[l].open /\ \A w \in Window : links[l].end[w] = "up"
Waits(w, e) == \E i \in 1 .. Len(events[w]) : events[w][i] = e

\* A message, or an offered file, of the other window.
Message(w) ==
    /\ Live
    /\ CanSend(Peer(w))
    /\ ~Waits(w, "message")
    /\ Tell(w, <<"message">>)
    /\ UNCHANGED <<window, signaling, links, troubles>>

\* The window starts to share its screen.
Share(w) ==
    /\ Live
    /\ CanSend(w)
    /\ ~worker[w]
    /\ worker' = [worker EXCEPT ![w] = TRUE]
    /\ UNCHANGED <<state, handle, listens, closing, refused, events, signaling, links, troubles>>

\* Either window stops it, if it has a handle to say so.
StopSharing(w) ==
    /\ Live
    /\ worker[w]
    /\ \E v \in Window : handle[v]
    /\ ~Waits(w, "desktop-idle")
    /\ Tell(w, <<"desktop-idle">>)
    /\ UNCHANGED <<window, signaling, links, troubles>>

\* The capture thread ends by itself after its third failure.
CaptureFails(w) ==
    /\ worker[w]
    /\ worker' = [worker EXCEPT ![w] = FALSE]
    /\ UNCHANGED <<state, handle, listens, closing, refused, events, signaling, links, troubles>>

Ends(w, l) == \/ GiveUp(w, l) \/ Queue(w, l) \/ TakeLink(w, l)
              \/ NoCommands(w, l) \/ LinkLost(w, l)
Next ==
    \/ \E w \in Window :
          \/ StartSession(w) \/ Disconnect(w) \/ RetryDirect(w) \/ Poll(w)
          \/ CloseSession(w) \/ SocketEnds(w) \/ Reclaim(w) \/ Dispatch(w) \/ DispatchEnds(w)
          \/ TryFails(w) \/ Message(w) \/ Share(w) \/ StopSharing(w) \/ CaptureFails(w)
          \/ \E l \in Ids : Ends(w, l)
    \/ Connect
    \/ \E l \in Ids : Break(l)

Spec == Init /\ [][Next]_vars

\* The spawned tasks and the manager run: nobody has to click, and no network
\* has to fail.
Fairness == \A w \in Window :
               /\ WF_vars(CloseSession(w))
               /\ \A l \in 1 .. MaxLinks :
                     /\ WF_vars(l \in Ids /\ (GiveUp(w, l) \/ Queue(w, l) \/ TakeLink(w, l)))
                     /\ WF_vars(l \in Ids /\ (NoCommands(w, l) \/ LinkLost(w, l)))

FairSpec == Spec /\ Fairness

-----------------------------------------------------------------------------
(* Properties                                                              *)

\* The window has handled all that it was told.
Settled(w) == events[w] = <<>>

\* A window that lets its user send (can_send_to_room) has a link in use: the
\* end of a link is told in every case but the one in which the window has
\* dropped the session itself, and no later event brings Direct back.
DirectIsInUse == \A w \in Window : Settled(w) /\ CanSend(w) => InUse(w)

\* A window keeps a session whose dispatch loop has ended only for its link:
\* once it knows, it is Direct with a link in use, or it shows that the link
\* failed, or it has shown that a retry is refused.  It never waits for a peer
\* whom nobody will announce.
KeptForItsLink ==
    \A w \in Window :
        Settled(w) /\ handle[w] /\ loop[w] = "ended"
            => \/ state[w] = "Direct" /\ InUse(w)
               \/ state[w] = "DirectFailed"
               \/ state[w] = "Paired" /\ refused[w]

\* Two windows that keep their sessions and have a link can send over it.  The
\* comment at main.rs:1521 says that a lost signaling does not touch the chat;
\* the code breaks this: peer-left takes a Direct window back to Connected.
ChatOutlivesSignaling ==
    (Live /\ \A w \in Window : Settled(w) /\ handle[w]) => \A w \in Window : CanSend(w)

\* After a user disconnects no end of a link stays in use, whatever was being
\* established, queued, shared or lost at that time: the last clone of the
\* handle goes, the manager sees it, and the other end sees the close.
DisconnectEndsLink == \A w \in Window : closing[w] ~> [](~InUse("host") /\ ~InUse("guest"))
=============================================================================
