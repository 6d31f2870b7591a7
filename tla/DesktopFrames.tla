---------------------------- MODULE DesktopFrames ----------------------------
(***************************************************************************)
(* The picture of a shared desktop, from the sharer's screen to the        *)
(* viewer's canvas (remote_desktop.rs and main.rs of clients/p2p-gui,      *)
(* session.rs of clients/p2p-core).                                        *)
(*                                                                         *)
(* A thread captures the screen and encodes what differs from the last     *)
(* frame it could hand over; the link's loop gives every frame a QUIC      *)
(* stream of its own, one at a time on its side; on the other side each    *)
(* stream has a task, so frames may overtake each other; a slot keeps the  *)
(* newest one for the window, whose decoder accepts a frame only on the    *)
(* picture it was made for.  A frame may be dropped at each of these       *)
(* places.  What is lost is repaired by a keyframe, which the sharer makes *)
(* when a stream failed or when the viewer asks for one.                   *)
(*                                                                         *)
(* The sessions themselves are the subject of RemoteDesktop; here they     *)
(* begin and end, at the two sides in either order.                        *)
(***************************************************************************)
EXTENDS Naturals, Sequences, FiniteSets

CONSTANTS Tiles,         \* the tiles of the screen
          MaxSessions,   \* bound: sessions one after the other; the users do not end the last
          MaxChanges,    \* bound: changes of the screen while it is captured
          MaxTroubles    \* bound: streams that time out, failures of the capture and
                         \*   frames of which the window is not told

ASSUME BoundsAssumption ==
    MaxSessions \in Nat /\ MaxChanges \in Nat /\ MaxTroubles \in Nat

VARIABLES
    screen,    \* the sharer's screen
    fresh,     \* the capture has a picture it has not given yet
    sharing,   \* session that the sharer shares, or 0
    starting,  \* session of a SharingStarted on its way to the sharer's window, or 0
    worker,    \* session of the capture thread, or 0
    encoder,   \* FrameEncoder of the thread
    force,     \* force_keyframe: the window's flag for the thread
    told,      \* KeyframeRequested is on its way to the sharer's window
    queue,     \* desktop_frame channel, of capacity 1
    sending,   \* frame_in_flight
    streams,   \* streams under way, with what each end has done
    viewing,   \* session that the viewer views, or 0
    last,      \* last_frame_id of the viewer's end of the link
    slot,      \* desktop_frame_slot
    events,    \* events on their way to the viewer's window
    window,    \* session the viewer's window shows, or 0
    decoder,   \* remote_decoder of the window
    asked,     \* sessions with a KeyframeRequest on its way to the sharer
    begun,     \* the latest session that the viewer accepted
    shared,    \* the latest session that the sharer started
    pictures,  \* pictures[s][i]: the screen in frame i of session s (history)
    late,      \* a frame came through after the end of its session (history)
    missed,    \* since the window took the slot last, it has not been told of the
               \*   frame that was read last (history)
    bounds     \* what has happened of each bounded kind

source == <<screen, fresh, sharing, starting, worker, encoder, force, told, pictures>>
link == <<queue, sending, streams>>
viewer == <<viewing, last, slot, events, window, decoder, asked, late, missed>>
sessions == <<begun, shared>>
vars == <<source, link, viewer, sessions, bounds>>

Sessions == 1 .. MaxSessions
Pictures == [Tiles -> BOOLEAN]
Blank == [t \in Tiles |-> FALSE]

\* patches gives the tiles that a frame carries.
Frame(s, i, key, patches) == [session |-> s, id |-> i, key |-> key, patches |-> patches]
NoFrame == Frame(0, 0, FALSE, [t \in {} |-> FALSE])

Encoder == [id |-> 0, previous |-> Blank, key |-> TRUE]
Decoder(s) == [session |-> s, last |-> 0, ready |-> FALSE, canvas |-> Blank]
NoDecoder == Decoder(0)

Event(k, s) == [type |-> k, session |-> s]

MaxId == MaxChanges + MaxTroubles + 1
IsFrame(f) == /\ f.session \in 0 .. MaxSessions
              /\ f.id \in 0 .. MaxId
              /\ f.key \in BOOLEAN
              /\ f.patches \in UNION {[T -> BOOLEAN] : T \in SUBSET Tiles}

TypeOK ==
    /\ screen \in Pictures /\ fresh \in BOOLEAN
    /\ {sharing, starting, worker, viewing, window, begun, shared} \subseteq 0 .. MaxSessions
    /\ encoder \in [id: Nat, previous: Pictures, key: BOOLEAN]
    /\ {force, told, sending, late, missed} \subseteq BOOLEAN
    /\ Len(queue) <= 1 /\ \A i \in 1 .. Len(queue) : IsFrame(queue[i])
    /\ \A x \in streams : IsFrame(x.frame) /\ x.read \in {"nothing", "header", "all"}
    /\ Cardinality({x \in streams : x.open}) = IF sending THEN 1 ELSE 0
    /\ last \in Nat /\ IsFrame(slot)
    /\ events \in Seq([type: {"frame", "viewing", "idle"}, session: 0 .. MaxSessions])
    /\ decoder \in [session: 0 .. MaxSessions, last: Nat, ready: BOOLEAN, canvas: Pictures]
    /\ asked \subseteq Sessions
    /\ pictures \in [Sessions -> Seq(Pictures)]

Init ==
    /\ screen = Blank /\ fresh = FALSE
    /\ sharing = 0 /\ starting = 0 /\ worker = 0 /\ encoder = Encoder /\ force = FALSE /\ told = FALSE
    /\ queue = <<>> /\ sending = FALSE /\ streams = {}
    /\ viewing = 0 /\ last = 0 /\ slot = NoFrame /\ events = <<>>
    /\ window = 0 /\ decoder = NoDecoder /\ asked = {}
    /\ begun = 0 /\ shared = 0
    /\ pictures = [s \in Sessions |-> <<>>] /\ late = FALSE /\ missed = FALSE
    /\ bounds = [changes |-> 0, troubles |-> 0]

-----------------------------------------------------------------------------
(* Sessions                                                                *)

\* The viewer's user accepts an offer of the sharer, which has no other session;
\* the window has seen the end of its last one, and then the offer.
Accept ==
    /\ viewing = 0 /\ sharing = 0
    /\ begun = shared /\ begun < MaxSessions
    /\ window = 0 /\ \A i \in 1 .. Len(events) : events[i].type = "frame"
    /\ begun' = begun + 1
    /\ viewing' = begun + 1
    /\ last' = 0
    /\ events' = Append(events, Event("viewing", begun + 1))
    /\ UNCHANGED <<source, link, slot, window, decoder, asked, late, missed, shared, bounds>>

\* The answer reaches the sharer.
HandleAnswer ==
    /\ shared < begun
    /\ shared' = begun /\ sharing' = begun /\ starting' = begun
    /\ UNCHANGED <<screen, fresh, worker, encoder, force, told, pictures, link, viewer,
                   begun, bounds>>

\* Its window ends the thread that is left and starts one for the session.
StartCapture ==
    /\ starting # 0
    /\ worker' = starting /\ starting' = 0
    /\ encoder' = Encoder
    /\ force' = TRUE
    /\ fresh' = TRUE
    /\ UNCHANGED <<screen, sharing, told, pictures, link, viewer,
                   sessions, bounds>>

\* By its user, by the viewer's stop or because the capture failed.
StopSharing ==
    /\ sharing # 0
    /\ sharing < MaxSessions \/ viewing # sharing \/ (worker # sharing /\ starting = 0)
    /\ sharing' = 0
    /\ UNCHANGED <<screen, fresh, starting, worker, encoder, force, told, pictures, link, viewer,
                   sessions, bounds>>

\* The thread goes with all it keeps.
NoThread == worker' = 0 /\ encoder' = Encoder /\ fresh' = FALSE /\ force' = FALSE

\* The window is told that the session is over.
StopWorker ==
    /\ worker # 0 /\ worker # sharing
    /\ NoThread
    /\ UNCHANGED <<screen, sharing, starting, told, pictures, link, viewer, sessions, bounds>>

\* By its user or by the sharer's stop.
StopViewing ==
    /\ viewing # 0
    /\ viewing < MaxSessions \/ (viewing # sharing /\ viewing = shared)
    /\ viewing' = 0 /\ last' = 0
    /\ events' = Append(events, Event("idle", 0))
    /\ UNCHANGED <<source, link, slot, window, decoder, asked, late, missed, sessions, bounds>>

-----------------------------------------------------------------------------
(* The sharer's thread                                                     *)

\* Part of the screen changes; the system has a picture for the capture.
Change(t) ==
    /\ worker # 0 /\ bounds.changes < MaxChanges
    /\ bounds' = [bounds EXCEPT !.changes = @ + 1]
    /\ screen' = [screen EXCEPT ![t] = ~ @]
    /\ fresh' = TRUE
    /\ UNCHANGED <<sharing, starting, worker, encoder, force, told, pictures, link, viewer, sessions>>

\* The tiles of a frame: all in a keyframe, the changed ones otherwise.
Patches(e) == [t \in {u \in Tiles : e.key \/ screen[u] # e.previous[u]} |-> screen[t]]

\* Mutant: the encoder goes on from a frame that was not taken.
CommitAlways == TRUE
\* The frame becomes the base of the next when there is room for it.
Commits == queue = <<>>

\* One turn of the thread.  A picture that finds the channel full is not kept.
Capture ==
    /\ worker # 0 /\ (force \/ fresh)
    /\ force' = FALSE /\ fresh' = FALSE
    /\ LET e == [encoder EXCEPT !.key = @ \/ force]
           f == Frame(worker, e.id + 1, e.key, Patches(e))
           given == fresh /\ DOMAIN f.patches # {}
       IN /\ queue' = IF given /\ queue = <<>> THEN <<f>> ELSE queue
          /\ IF given /\ Commits
             THEN /\ encoder' = [e EXCEPT !.id = @ + 1, !.previous = screen, !.key = FALSE]
                  /\ pictures' = [pictures EXCEPT ![worker] = Append(@, screen)]
             ELSE encoder' = e /\ UNCHANGED pictures
    /\ UNCHANGED <<screen, sharing, starting, worker, told, sending, streams, viewer, sessions, bounds>>

\* The capture fails: it starts over with a keyframe, or that fails too (or is
\* the third time in a row) and the thread ends.
CaptureFails ==
    /\ worker # 0
    /\ bounds.troubles < MaxTroubles
    /\ bounds' = [bounds EXCEPT !.troubles = @ + 1]
    /\ \/ /\ encoder' = [encoder EXCEPT !.key = TRUE]
          /\ force' = FALSE /\ fresh' = TRUE
          /\ UNCHANGED worker
       \/ NoThread
    /\ UNCHANGED <<screen, sharing, starting, told, pictures, link, viewer, sessions>>

\* The sharer's window passes a request on to its thread, whatever session the
\* request was for.
ForceKeyframe ==
    /\ told
    /\ told' = FALSE
    /\ force' = (force \/ worker # 0)
    /\ UNCHANGED <<screen, fresh, sharing, starting, worker, encoder, pictures, link, viewer,
                   sessions, bounds>>

\* A request of the viewer counts while its session is shared.
HandleRequest(s) ==
    /\ s \in asked
    /\ asked' = asked \ {s}
    /\ told' = (told \/ sharing = s)
    /\ UNCHANGED <<screen, fresh, sharing, starting, worker, encoder, force, pictures, link,
                   viewing, last, slot, events, window, decoder, late, missed, sessions, bounds>>

-----------------------------------------------------------------------------
(* Streams                                                                 *)

Stream(f) == [frame |-> f, open |-> TRUE, read |-> "nothing"]

\* x goes on as y; a stream that both ends are done with is gone.
Becomes(x, y) == streams' = (streams \ {x}) \cup {z \in {y} : z.open \/ z.read # "all"}

\* Mutant: frames are written at the same time.
MayTakeAlways == TRUE
\* The next frame is taken when the last one is written.
MayTake == ~ sending

TakeFrame ==
    /\ queue # <<>> /\ MayTake
    /\ queue' = <<>>
    /\ IF Head(queue).session = sharing
       THEN sending' = TRUE /\ streams' = streams \cup {Stream(Head(queue))}
       ELSE UNCHANGED <<sending, streams>>
    /\ UNCHANGED <<source, viewer, sessions, bounds>>

Written(x) ==
    /\ x.open
    /\ Becomes(x, [x EXCEPT !.open = FALSE])
    /\ sending' = FALSE
    /\ UNCHANGED <<queue, source, viewer, sessions, bounds>>

\* Writing takes too long, or the viewer's end has dropped the stream: it is
\* reset, and the sharer's window is asked for a keyframe.
WriteFails(x) ==
    /\ x.open
    /\ \/ x.read = "all" /\ UNCHANGED bounds
       \/ /\ bounds.troubles < MaxTroubles
          /\ bounds' = [bounds EXCEPT !.troubles = @ + 1]
    /\ streams' = streams \ {x}
    /\ sending' = FALSE
    /\ told' = TRUE
    /\ UNCHANGED <<queue, screen, fresh, sharing, starting, worker, encoder, force, pictures, viewer,
                   sessions>>

\* A stream of the session that is viewed, newer than all before it.
Expected(f) == f.session = viewing /\ f.id > last

ReadHeader(x) ==
    /\ x.read = "nothing"
    /\ IF Expected(x.frame)
       THEN last' = x.frame.id /\ Becomes(x, [x EXCEPT !.read = "header"])
       ELSE UNCHANGED last /\ Becomes(x, [x EXCEPT !.read = "all"])
    /\ UNCHANGED <<queue, sending, source, viewing, slot, events, window, decoder, asked, late,
                   missed, sessions, bounds>>

\* The newest frame of a session stays; one of another session takes its place.
Replaces(f) == slot.session # f.session \/ slot.id < f.id

\* The window is told of a frame only if the bounded channel of all events, of
\* which the others are not modelled, has room; the slot has the frame anyway.
ReadPayload(x) ==
    /\ x.read = "header" /\ ~ x.open
    /\ Becomes(x, [x EXCEPT !.read = "all"])
    /\ slot' = IF Replaces(x.frame) THEN x.frame ELSE slot
    /\ \/ /\ events' = Append(events, Event("frame", x.frame.session))
          /\ missed' = FALSE
          /\ UNCHANGED bounds
       \/ /\ bounds.troubles < MaxTroubles
          /\ bounds' = [bounds EXCEPT !.troubles = @ + 1]
          /\ missed' = TRUE
          /\ UNCHANGED events
    /\ late' = (late \/ x.frame.session # viewing)
    /\ UNCHANGED <<queue, sending, source, viewing, last, window, decoder, asked, sessions>>

-----------------------------------------------------------------------------
(* The viewer's window                                                     *)

\* Mutant: a difference is accepted on any earlier picture.
AcceptsGap(d, f) == /\ f.session = d.session
                    /\ f.id > d.last
                    /\ f.key \/ d.ready
\* A keyframe stands alone; a difference needs the frame before it.
Accepts(d, f) == /\ f.session = d.session
                 /\ f.id > d.last
                 /\ f.key \/ (d.ready /\ f.id = d.last + 1)

Applied(d, f) ==
    [d EXCEPT !.last = f.id, !.ready = TRUE,
              !.canvas = [t \in Tiles |-> IF t \in DOMAIN f.patches THEN f.patches[t]
                                          ELSE IF f.key THEN FALSE ELSE d.canvas[t]]]

\* The event names a session; the frame is whatever the slot holds.  A refused
\* frame is answered with a request, for the session of the event.
ConsumeFrame(s) ==
    IF slot = NoFrame THEN UNCHANGED <<slot, decoder, asked>>
    ELSE LET d == IF decoder = NoDecoder THEN Decoder(s) ELSE decoder
         IN /\ slot' = NoFrame
            /\ IF Accepts(d, slot) THEN decoder' = Applied(d, slot) /\ UNCHANGED asked
               ELSE decoder' = d /\ asked' = asked \cup {s}

NextEvent(k) == events # <<>> /\ Head(events).type = k /\ events' = Tail(events)

HandleFrameAvailable ==
    /\ NextEvent("frame")
    /\ ConsumeFrame(Head(events).session)
    /\ missed' = FALSE
    /\ UNCHANGED <<source, link, viewing, last, window, late, sessions, bounds>>

HandleViewing ==
    /\ NextEvent("viewing")
    /\ window' = Head(events).session
    /\ decoder' = IF decoder = NoDecoder \/ window # window' THEN Decoder(window') ELSE decoder
    /\ UNCHANGED <<source, link, viewing, last, slot, asked, late, missed, sessions, bounds>>

HandleIdle ==
    /\ NextEvent("idle")
    /\ window' = 0
    /\ decoder' = NoDecoder
    /\ UNCHANGED <<source, link, viewing, last, slot, asked, late, missed, sessions, bounds>>

-----------------------------------------------------------------------------
Sharer == \/ HandleAnswer \/ StartCapture \/ StopSharing \/ StopWorker
          \/ Capture \/ CaptureFails \/ ForceKeyframe
Link == TakeFrame \/ \E x \in streams : Written(x) \/ WriteFails(x) \/ ReadHeader(x) \/ ReadPayload(x)
Window == HandleFrameAvailable \/ HandleViewing \/ HandleIdle

Next == \/ Sharer \/ Link \/ Window
        \/ Accept \/ StopViewing
        \/ \E t \in Tiles : Change(t)
        \/ \E s \in Sessions : HandleRequest(s)

Spec == Init /\ [][Next]_vars

-----------------------------------------------------------------------------
(* Properties                                                              *)

\* What the viewer sees is what the sharer's screen was: the canvas is the
\* screen of the frame applied last, tile by tile, although the frames hold
\* differences, overtake each other and get lost, and although the encoder
\* counts on frames being taken.
CanvasIsScreen ==
    decoder.ready => decoder.canvas = pictures[decoder.session][decoder.last]

InSession(s) == sharing = s /\ worker = s /\ viewing = s

\* Nothing is under way for the viewer's picture.
Settled == queue = <<>> /\ streams = {} /\ events = <<>> /\ asked = {} /\ ~ told

Shows(s) == decoder.session = s /\ decoder.ready /\ decoder.last = Len(pictures[s])
Owes == force \/ encoder.key

\* The latest frame waits in the slot, its event found the channel full, and the
\* window has been told of no frame since.
Unannounced(s) == missed /\ slot.session = s /\ slot.id = Len(pictures[s])

\* No frame is lost on its way: once all is settled the viewer shows the latest
\* frame that was handed over, or the sharer knows that it owes a keyframe, or
\* the frame is in the viewer's slot and only its event was dropped: overtaking
\* streams, failed streams, refused differences, requests and the encoder's
\* commit lose none.  (Except once a frame came through after its session.)
LatestIsAccountedFor ==
    Settled /\ ~ late
        => \A s \in Sessions : InSession(s) /\ pictures[s] # <<>>
                                   => Shows(s) \/ Owes \/ Unannounced(s)
=============================================================================
