----------------------------- MODULE RemoteInput -----------------------------
(***************************************************************************)
(* The way of a key from the viewer of a shared desktop to the operating   *)
(* system of the sharer, in one accepted session:                          *)
(*                                                                         *)
(*   viewer's window -> one spawned task per event -> viewer's link loop   *)
(*     -> control stream -> sharer's link loop -> event channel            *)
(*     -> sharer's window -> InputInjector                                 *)
(*                                                                         *)
(* The window of each side (clients/p2p-gui/src/main.rs) gives every       *)
(* command to a task of its own; they run in the order of the clicks,      *)
(* because the runtime has one thread (main.rs:1604) and the channel to    *)
(* the loop serves who waits first.  Meanwhile the window goes on with     *)
(* what it has decided.  Consecutive sessions are the subject of           *)
(* RemoteDesktop.                                                          *)
(***************************************************************************)
EXTENDS Naturals, Sequences

CONSTANTS Keys,      \* keys and pointer buttons
          NoKey,     \* none of them
          Refused,   \* keys whose injection the operating system may refuse
          MaxInput,  \* bound: input events of the viewer
          MaxClicks, \* bound: commands of the sharer's window still in their tasks
          MaxUnread  \* bound: messages to the viewer and events unread at a click

ASSUME KeysAssumption == NoKey \notin Keys
ASSUME RefusedAssumption == Refused \subseteq Keys
ASSUME BoundsAssumption == MaxInput \in Nat /\ MaxClicks \in Nat /\ MaxUnread \in Nat

VARIABLES
    held,      \* keys the viewer's user holds down
    sequence,  \* remote_input_sequence of the viewer's window
    tasks,     \* input events of the viewer still in their tasks, in order
    view,      \* the viewer's session: "on" with control, "off" without, "over"
    toSharer,  \* control messages to the sharer, in order
    toViewer,  \* control messages to the viewer, in order
    share,     \* the sharer's session: "on", "off", "over"
    last,      \* last_input_sequence of the sharer
    clicks,    \* commands of the sharer's window still in their tasks, in order
    events,    \* session events to the sharer's window, in order
    shown,     \* the session as the sharer's window shows it
    injector,  \* the sharer's window has an injector
    tracked,   \* its pressed_keys
    down       \* keys the sharer's operating system takes for pressed

viewer == <<held, sequence, tasks, view>>
sharer == <<share, last>>
window == <<shown, injector, tracked, down>>
vars == <<viewer, toSharer, toViewer, sharer, clicks, events, window>>

Session == {"on", "off", "over"}
ReleaseAll == [key |-> NoKey, pressed |-> FALSE]
Inputs == [key: Keys, pressed: BOOLEAN] \cup {ReleaseAll}
StopSharing == [stop |-> "viewer"]
Events == [input: Inputs] \cup [state: Session] \cup [started: BOOLEAN]
Commands == {"grant", "revoke", "stop"}
OnOff(b) == IF b THEN "on" ELSE "off"

TypeOK == /\ held \subseteq Keys
          /\ sequence \in 0 .. MaxInput
          /\ tasks \in Seq([seq: 1 .. MaxInput, input: Inputs])
          /\ view \in Session
          /\ toSharer \in Seq([seq: 1 .. MaxInput, input: Inputs] \cup {StopSharing})
          /\ toViewer \in Seq({"grant", "revoke", "stop"})
          /\ share \in Session
          /\ last \in 0 .. MaxInput
          /\ clicks \in Seq(Commands)
          /\ events \in Seq(Events)
          /\ shown \in Session \cup {"waiting"}
          /\ injector \in BOOLEAN
          /\ tracked \subseteq Keys
          /\ down \subseteq Keys

\* The viewer has accepted and the sharer has just handled the answer.
Init == /\ held = {}
        /\ sequence = 0
        /\ tasks = <<>>
        /\ toSharer = <<>>
        /\ toViewer = <<>>
        /\ last = 0
        /\ clicks = <<>>
        /\ shown = "waiting"
        /\ injector = FALSE
        /\ tracked = {}
        /\ down = {}
        /\ \E control \in BOOLEAN :
              /\ view = OnOff(control)
              /\ share = OnOff(control)
              /\ events = <<[state |-> OnOff(control)], [started |-> control]>>

-----------------------------------------------------------------------------
(* The viewer                                                              *)

\* The window numbers an event and gives it to a task of its own.
Spawn(e) == /\ view = "on"
            /\ sequence < MaxInput
            /\ sequence' = sequence + 1
            /\ tasks' = Append(tasks, [seq |-> sequence + 1, input |-> e])

Press(k) == /\ k \notin held
            /\ Spawn([key |-> k, pressed |-> TRUE])
            /\ held' = held \cup {k}
            /\ UNCHANGED <<view, toSharer, toViewer, sharer, clicks, events, window>>

\* A key is always let go; the window sees it only while it has control.
Release(k) == /\ k \in held
              /\ held' = held \ {k}
              /\ IF view = "on" THEN Spawn([key |-> k, pressed |-> FALSE])
                                ELSE UNCHANGED <<sequence, tasks>>
              /\ UNCHANGED <<view, toSharer, toViewer, sharer, clicks, events, window>>

\* Escape gives the keyboard back and forgets every key.
ReleaseKeyboard == /\ Spawn(ReleaseAll)
                   /\ held' = {}
                   /\ UNCHANGED <<view, toSharer, toViewer, sharer, clicks, events, window>>

\* A task gets its command to the loop, which sends it if control is granted.
SendInput == /\ tasks # <<>>
             /\ tasks' = Tail(tasks)
             /\ toSharer' = IF view = "on" THEN Append(toSharer, Head(tasks)) ELSE toSharer
             /\ UNCHANGED <<held, sequence, view, toViewer, sharer, clicks, events, window>>

ViewerStops == /\ view # "over"
               /\ view' = "over"
               /\ toSharer' = Append(toSharer, StopSharing)
               /\ UNCHANGED <<held, sequence, tasks, toViewer, sharer, clicks, events, window>>

\* The session that a message leaves. Mutant: a message taken for a state.
AsToldRaw(c) == c
AsTold(c) == CASE c = "stop" -> "over" [] c = "grant" -> "on" [] c = "revoke" -> "off"

ViewerReceives ==
    /\ toViewer # <<>>
    /\ toViewer' = Tail(toViewer)
    /\ view' = IF view = "over" THEN view ELSE AsTold(Head(toViewer))
    /\ UNCHANGED <<held, sequence, tasks, toSharer, sharer, clicks, events, window>>

-----------------------------------------------------------------------------
(* The sharer's link loop                                                  *)

\* The events of a session that ends: the keys are released, then the window is
\* told. Mutant: it is not.
FarewellUntold == <<[input |-> ReleaseAll]>>
Farewell == <<[input |-> ReleaseAll], [state |-> "over"]>>

\* The events of a permission that changes. Mutant: a grant is not announced.
AnnounceRevocation(b) == IF b THEN <<>> ELSE <<[input |-> ReleaseAll], [state |-> "off"]>>
Announce(b) == (IF b THEN <<>> ELSE <<[input |-> ReleaseAll]>>) \o <<[state |-> OnOff(b)]>>

\* A task of the sharer's window gets its command to the loop.
Takes(c) == clicks # <<>> /\ Head(clicks) = c /\ clicks' = Tail(clicks)

SetPermission(c) ==
    /\ c \in {"grant", "revoke"}
    /\ Takes(c)
    /\ IF share = "over"
       THEN UNCHANGED <<share, toViewer, events>>
       ELSE /\ share' = OnOff(c = "grant")
            /\ toViewer' = Append(toViewer, c)
            /\ events' = events \o Announce(c = "grant")
    /\ UNCHANGED <<viewer, toSharer, last, window>>

SharerStops ==
    /\ Takes("stop")
    /\ IF share = "over"
       THEN UNCHANGED <<share, last, toViewer, events>>
       ELSE /\ share' = "over"
            /\ last' = 0
            /\ toViewer' = Append(toViewer, "stop")
            /\ events' = events \o Farewell
    /\ UNCHANGED <<viewer, toSharer, window>>

\* Input is taken with control and a newer number.
Accepts(m) == share = "on" /\ m.seq > last

SharerReceives ==
    /\ toSharer # <<>>
    /\ toSharer' = Tail(toSharer)
    /\ LET m == Head(toSharer) IN
       IF m = StopSharing
       THEN IF share = "over"
            THEN UNCHANGED <<share, last, events>>
            ELSE /\ share' = "over"
                 /\ last' = 0
                 /\ events' = events \o Farewell
       ELSE IF Accepts(m)
            THEN /\ last' = m.seq
                 /\ events' = Append(events, [input |-> m.input])
                 /\ UNCHANGED share
            ELSE UNCHANGED <<share, last, events>>
    /\ UNCHANGED <<viewer, toViewer, clicks, window>>

\* Both loops end with the link, and with them what is under way.
LinkLost ==
    /\ share # "over" \/ view # "over"
    /\ view' = "over"
    /\ share' = "over"
    /\ last' = 0
    /\ toSharer' = <<>>
    /\ toViewer' = <<>>
    /\ events' = IF share = "over" THEN events ELSE events \o Farewell
    /\ UNCHANGED <<held, sequence, tasks, clicks, window>>

-----------------------------------------------------------------------------
(* The sharer's window                                                     *)

\* What an injection that succeeds makes of a set of pressed keys.
After(keys, e) == IF e.pressed THEN keys \cup {e.key} ELSE keys \ {e.key}

\* release_all forgets the tracked keys, then lets go of one after the other,
\* until one is refused.
LetGo == IF tracked \cap Refused = {} THEN {tracked} ELSE SUBSET tracked
ForgetAndRelease == tracked' = {} /\ \E keys \in LetGo : down' = down \ keys

\* The window lets go of the keys and drops its injector. Mutant: drops only.
DropInjectorOnly == injector' = FALSE /\ tracked' = {} /\ UNCHANGED down
ReleaseAndDrop == injector' = FALSE /\ ForgetAndRelease

Inject(e) ==
    \/ /\ ~injector
       /\ UNCHANGED <<clicks, injector, tracked, down>>
    \/ /\ injector
       /\ IF e = ReleaseAll THEN ForgetAndRelease
                            ELSE tracked' = After(tracked, e) /\ down' = After(down, e)
       /\ UNCHANGED <<clicks, injector>>
    \/ \* A refused key: the injector is dropped, then control is revoked.
       /\ injector
       /\ IF e = ReleaseAll THEN tracked \cap Refused # {} /\ ForgetAndRelease
                            ELSE e.key \in Refused /\ tracked' = {} /\ UNCHANGED down
       /\ injector' = FALSE
       /\ clicks' = IF shown \in {"on", "off"} THEN Append(clicks, "revoke")
                                               ELSE clicks

\* poll_background_events, one event of it.
Poll ==
    /\ events # <<>>
    /\ events' = Tail(events)
    /\ LET e == Head(events) IN
       \/ /\ "input" \in DOMAIN e
          /\ Inject(e.input)
          /\ UNCHANGED shown
       \/ /\ "state" \in DOMAIN e
          /\ shown' = e.state
          /\ IF e.state = "over" THEN ReleaseAndDrop
                                 ELSE UNCHANGED <<injector, tracked, down>>
          /\ UNCHANGED clicks
       \/ /\ "started" \in DOMAIN e  \* SharingStarted, with the offer's control
          /\ ForgetAndRelease
          /\ \/ injector' = e.started /\ UNCHANGED clicks
             \/ \* No injector can be made: control is revoked.
                /\ e.started
                /\ injector' = FALSE
                /\ clicks' = Append(clicks, "revoke")
          /\ UNCHANGED shown
    /\ UNCHANGED <<viewer, toSharer, toViewer, sharer>>

Click(c) == /\ Len(clicks) < MaxClicks
            /\ Len(toViewer) + Len(events) < MaxUnread
            /\ clicks' = Append(clicks, c)

\* The box shows the last state the loop announced; a click asks for the other.
ClickGrant == /\ shown = "off"
              /\ Click("grant")
              /\ injector' = TRUE
              /\ UNCHANGED <<viewer, toSharer, toViewer, sharer, events, shown, tracked, down>>

ClickRevoke == /\ shown = "on"
               /\ Click("revoke")
               /\ ReleaseAndDrop
               /\ UNCHANGED <<viewer, toSharer, toViewer, sharer, events, shown>>

ClickStop == /\ shown \in {"on", "off"}
             /\ Click("stop")
             /\ UNCHANGED <<viewer, toSharer, toViewer, sharer, events, window>>

Next == \/ \E k \in Keys : Press(k) \/ Release(k)
        \/ ReleaseKeyboard
        \/ SendInput
        \/ ViewerStops \/ ViewerReceives
        \/ \E c \in Commands : SetPermission(c)
        \/ SharerStops \/ SharerReceives \/ LinkLost
        \/ Poll
        \/ ClickGrant \/ ClickRevoke \/ ClickStop

Spec == Init /\ [][Next]_vars

\* The loops read their streams, tasks are run and the window is polled.
Fairness == /\ WF_vars(SendInput)
            /\ WF_vars(ViewerReceives) /\ WF_vars(SharerReceives)
            /\ \A c \in Commands : WF_vars(SetPermission(c))
            /\ WF_vars(SharerStops)
            /\ WF_vars(Poll)

FairSpec == Spec /\ Fairness

-----------------------------------------------------------------------------
(* Properties                                                              *)

\* Nothing the viewer or the sharer did is still on its way.
Settled == Len(tasks) + Len(toSharer) + Len(toViewer) + Len(events) + Len(clicks) = 0

\* README.md:270: no key that the operating system lets the program release is
\* left pressed when control was revoked or the session ended, in whatever order
\* input, clicks and the end of the link were handled.
RevokedReleases == events = <<>> /\ share # "on" => down \subseteq Refused

\* Once all is settled the sharer's window, its loop and the viewer agree on
\* whether control is granted, whatever else was clicked, injected or stopped meanwhile.
SettledAgree == Settled => shown = share /\ view = share

\* Once a session is over no key stays down, whatever was still under way.
EndReleases == (share = "over") ~> (down = {} /\ ~injector)

\* main.rs:1320: a key whose press was sent is released on the sharer when the
\* viewer has released it.  The code does not keep this when control is revoked
\* and granted again between the two: the press may arrive after the grant, and
\* the release is not sent while the viewer lacks control.
NoStuckKey == Settled => down \subseteq held
=============================================================================
