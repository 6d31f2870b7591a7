# p2p-signaling: TLA+ models, checks and proofs

Two people meet in a room of a signaling worker, agree there on a direct QUIC
connection, and then chat, send files and share a desktop over that connection
alone.  This directory models the parts of the program whose correctness
depends on the order of things: rooms whose sockets come and go, two sides that
prepare and retry a connection through a relay, a control protocol between
equal peers, the long way of a key press from one window to the other's
operating system, the picture of a shared screen on streams that overtake each
other, a file that is sent, paused, lost and continued, the loop that all of these
share, and a window that has to tell its user which of them still lives.

Modules are checked by TLC on small instances (`*.cfg`).  TLAPS proves the
room's safety and that its members are told of each other, for every number of
rooms, sockets and attempts; that a transfer loses no acknowledged chunk, unless an
older copy of its manifest is saved over a newer one, and that its file is at the
chosen path whole or not at all, and reported only when it is there, unless its sends
overlap, for files of every size; that nobody in a room waits for a link without being
told, unless a host retries in the empty room, whatever attempts, retries and guests come
and go; that the control loops implement a stream of messages in
order, for every size of their buffers; that the two states of a shared desktop match, for any
number of sessions, messages under way and lost links; that the three views of its
permission agree and nothing stays pressed once control is gone, unless the operating
system refuses to let go; that the picture a viewer sees is one that was on the screen
and that the latest frame is shown, is to be replaced by a keyframe, or waits at the
viewer with only the word of it lost, for every screen and any number of frames; that an
info marked as announced is prepared or being prepared, whatever retries and resets it
meets; and that a window which lets its user send has a link, whatever its channel
still holds.

## 1. The system

| Part | Source | State it keeps | Operations | Hard part |
|---|---|---|---|---|
| Router | `worker/src/index.ts` 50-90 | none | create with up to 5 codes, join | a code taken between two attempts |
| RoomObject | `worker/src/index.ts` 92-238 | `sessions` map, `hostPresent` | fetch, hello, signal, bye, close, error | late events of evicted sockets, restart |
| SignalingClient | `clients/p2p-core/src/signaling.rs` | the socket | send, receive, close | close in either direction |
| Session dispatch loop | `session.rs` 191-484 | `connect_info_sent`, `local_direct`, `peer_direct`, `direct_started` | retry, prepared info, four envelopes | tasks that outlive a reset |
| Candidate collection | `nat.rs` | a UDP socket, a certificate | STUN, interfaces | I/O only |
| Direct link | `direct.rs` | a QUIC connection | accept, dial, Hello exchange, 10 s timeout | the two ends disagree on success |
| Link manager, control loop | `session.rs` 486-816 | link in use, bounded channels | commands, messages, frames, pings | one loop feeds a channel it drains |
| Remote desktop protocol | `session.rs` 839-1262 | `RemoteDesktopState`, `last_input_sequence` | offer, answer, permission, stop, input | everything crosses on the wire |
| Remote input | `p2p-gui/src/main.rs` 720-946, 1204-1363, injectors | held, tracked and pressed keys, injector | press, release, grant, revoke, stop, poll | three views of one permission, partial failure |
| Desktop frames | `session.rs` 666-704, 818-837, 1771-1817, `p2p-gui/src/remote_desktop.rs` | `last_frame_id`, one slot, decoder | capture, send, receive, apply, key frame | streams overtake each other |
| File transfer | `session.rs` 1264-2042, `transfer.rs` | senders, receivers, cancelled, sidecars, part files | offer, accept, reject, pause, resume, cancel, chunk, ack, complete | everything races; resume on a new link |
| Range sets | `transfer.rs` 14-114 | ordered ranges of chunks | insert, missing | ranges that touch, overlap, are empty |
| Framing | `p2p_proto.rs` | bytes read so far | read, write | a read dropped half way |
| Window | `p2p-gui/src/main.rs` | `ConnectionState`, lists, configuration | events, buttons | events of old attempts |

Interactions.  The client connects to the worker over a WebSocket; envelopes of
one socket stay in order, those of two sockets interleave.  Inside a client the
window, the dispatch loop, the tasks it spawns, the link manager and the control
loop talk through channels; commands of the window are each sent by a task of
their own, and arrive in the order of the clicks because the runtime has one
thread (`main.rs` 1604).  The two clients' control loops talk over one ordered
QUIC stream; frames and file chunks each use streams of their own.

What makes each part correct:

- **Room**: `hostPresent` means exactly that the map holds a host; at most one
  host and one guest; a room closes only with its own host's socket; an evicted
  guest is told, then closed; who is drained knows whether the peer is there, but
  for a signal that the room relayed for a socket it had forgotten.
- **Negotiation**: what is marked as announced really is on its way; nobody
  waits for ever without an error; the first two to meet are linked, and one
  click repairs a broken link; so does coming again.
- **Remote desktop**: both sides are in matching states or the message that will
  make them so is under way; crossed offers are resolved; no session is half
  open for ever; input of a session is never swallowed by an earlier one.
- **Remote input**: when control is revoked or the session ends nothing stays
  pressed; the three views of the permission agree.
- **Desktop frames**: the canvas is always a screen that was captured; a frame
  that is lost on its way is made good by a keyframe, and one of which only the word
  to the window is lost is in the slot.
- **File transfer**: the chosen path has the whole file or none; a sender that
  reports success is right; what was acknowledged is not lost with the link, as long
  as no older copy of the manifest was saved late; a transfer that was interrupted by
  a lost link is completed on the next.
- **Control loop**: messages are handled in order, none twice and none left out,
  whatever reads are dropped; an end that loses its connection says so.
- **Window**: who may send has a link in use; a session without signaling is kept
  for its link only; a disconnect ends every link, whoever still has a clone of the
  handle.

## 2. Modules

| Module | Models | Uses |
|---|---|---|
| `RoomService` | what the worker promises about codes and seats (abstract) | |
| `Room` | router, RoomObject, both queues of every socket, client's roster | `RoomService` (refinement) |
| `RoomProofs` | theorems about the seats of `Room` and what its members are told | `Room`, TLAPS |
| `Negotiation` | dispatch loop and tasks of both sides, the links, the relay | |
| `NegotiationProofs` | theorems about `Negotiation` | `Negotiation`, FiniteSetTheorems, TLAPS |
| `RemoteDesktop` | control protocol of both peers over successive links | |
| `RemoteDesktopProofs` | theorems about `RemoteDesktop` | `RemoteDesktop`, TLAPS |
| `RemoteInput` | one session's input path and permission, viewer to operating system | |
| `RemoteInputProofs` | theorems about `RemoteInput` | `RemoteInput`, SequenceTheorems, TLAPS |
| `DesktopFrames` | the picture, from the sharer's screen to the viewer's canvas | |
| `DesktopFramesProofs` | theorems about `DesktopFrames` | `DesktopFrames`, FiniteSetTheorems, TLAPS |
| `FileDelivery` | what a transfer promises of the record, the file and the report (abstract) | |
| `Transfer` | one file from sender to receiver over successive links | `FileDelivery` (refinement) |
| `TransferProofs` | theorems about `Transfer` | `Transfer`, TLAPS |
| `RangeSets` | the sequences of ranges that stand for sets of chunks | |
| `ControlStream` | what the control stream promises: messages heard in the order they were sent (abstract) | |
| `ControlLoop` | `run_direct_link` at both ends, framing, the bounded channel | `ControlStream` (refinement) |
| `ControlLoopProofs` | theorems about `ControlLoop` | `ControlLoop`, TLAPS |
| `ConnectionWindow` | both windows' `ConnectionState`, their sessions, sockets and links | |
| `ConnectionWindowProofs` | theorems about `ConnectionWindow` | `ConnectionWindow`, SequenceTheorems, TLAPS |
| `MC*` | symmetry sets, constraints and assumptions for TLC | one component each; `MCTransfer` also `RangeSets` |

`RemoteDesktop`, `RemoteInput`, `DesktopFrames` and `Transfer` take the control
stream for a queue of whole messages: that is `ControlStream`, and `ControlLoop`
implements it.
`ConnectionWindow` takes the room from `Room` and the negotiation from
`Negotiation`, both reduced to what a window hears of them.

### Room

A socket's life is `phase` (client's end) and `sessions`, `home`, `closed`
(worker's end).  `up` and `down` are its two directions.  Handlers of a
RoomObject contain no `await`, so each is one action: `HandleHello`,
`HandleSignal`, `HandleInvalid`, `HandleDisconnect` (bye, close and error all
call `disconnect`).  `CreateTaken`/`CreateOK` are the turns of the router's
loop, `JoinRefused`/`JoinOK` the join.  A send on a closed socket throws:
`SendAll` skips it, and `HandleHello` stops there because the first send is not
protected.  `Restart` is the Durable Object losing its memory with its sockets.
The Rust client never sends `bye` or an invalid envelope; the worker handles
both, so the model's clients may send them.  `Renew` reuses a socket that is
over on both ends as a fresh connection.

`roster` is `peer_seen` of the client's loop.  A hello's `peer-joined` sets it, and
so does any signal with connect info that the client supports (`session.rs`
304-309); whether a signal has it is left open (`Believed`).  The room relays a
signal whether or not its map still knows the sender, so a signal may come from a
socket that was evicted, into the room of the code's next host.  `strays` is history:
the sockets such a signal was sent to, until they hear a `peer-left`.
`PhantomIsStray` says that nothing else makes a client that is alone believe in a
peer; that this does is what `MCRoomStray.cfg` shows.

### Negotiation

The four loop variables are `sent`, `local`, `peer`, `started`; `collect` counts
announce tasks, `ready` their results, `tries` the establish tasks, `links` the
links established at an end (the first is in use, the others wait in the channel
of the manager).  A connection info is its pairing token, because token, socket
and certificate are made together and each side accepts only the pair it was
given.  `Match` is the Hello exchange.  `Fails` is an attempt's 10 s running
out; while the peer may still answer (`Hopeful`) a timeout counts against
`MaxTimeouts`, otherwise it is certain.  `failed` is the window's state with the
retry button.  The relay is what `Room` does for a pair, without its refusals.
`alone` is history: the host has used its retry when no guest was in the room.  The
model assumes that collecting candidates and queuing the info succeed.

### RemoteDesktop

A control loop handles one command or message to completion, so each command
and each message is one action; what interleaves are the two loops.  Replies go
through a channel the same loop drains before it reads more, which makes a
handler's replies part of its step.  Session ids are numbers because the code
only compares them.  `LinkDown` is the loop's end at one peer, `Relink` the next
link with fresh state.

### RemoteInput

One accepted session, with every hop of an event as a queue: `tasks` (the events
still in their spawned tasks), `toSharer`/`toViewer` (the control stream), `events`
(to the sharer's window), then `injector`, `tracked` and `down`.  Permission clicks
and stops are a queue of tasks of their own (`clicks`, `Takes`).  The runtime is
`new_current_thread` and the channel to the loop is fair, so tasks of one window
reach the loop in the order in which they were spawned.
`Refused` are keys the operating system may refuse.  Pointer buttons behave like
keys; moves, wheel and text hold nothing down and are left out.

### DesktopFrames

The sharer's thread (`worker`, `encoder`, `force`), the channel of one frame
(`queue`), the streams, of which the sharer writes one at a time (`sending`) and
the viewer reads each in a task of its own (`read`), the viewer's `last`, `slot`
and `events`, and its window's `decoder`.  `Capture` is one turn of
`capture_loop`: encode, offer to the channel, commit if there was room.  `fresh`
says that the system has a picture that was not taken yet: both platforms give
one only after a change, so a picture that found the channel full comes again
only with the next change.  `ReadHeader` and `ReadPayload` are the two halves of
`receive_remote_desktop_frame`, between which other streams and a stop may come.
A frame is the tiles it carries; `pictures` remembers what the screen was in each.

Sessions begin and end as in `RemoteDesktop`, reduced to what the frames meet:
the viewer's side starts first, either side ends first, and the window of each
side learns of it later.  `late` remembers that a frame passed the check of its
session and came through after the end of that session.  It may then take the
slot from the next session's first frame; the refused frame is answered with a
request for a keyframe that names the session of the event, which the sharer may
no longer share (`main.rs` 893-937).  `LatestIsAccountedFor` excludes that.  It
counts a keyframe as owed also while the screen stands still and nothing makes
it go out (`remote_desktop.rs` 185).

`FrameAvailable` goes out with `try_send` into a channel of 64 that all events of
the session share (`session.rs` 1810, `main.rs` 363).  The others are not modelled,
so `ReadPayload` may find it full at any time, which counts against `MaxTroubles`:
the frame is in the slot, its event is not sent, and `missed` is set until the window
is next told of a frame, which takes whatever the slot has.  Nothing asks for a
keyframe then: if no other frame comes the window does not show the last one.
`LatestIsAccountedFor` therefore names that as its third case (`Unannounced`).
Left out: changes of the screen's size, the link's loss, permission messages.

### Transfer

`manifest` has each peer's `TransferManifest` of the link, `cancelled` who has the
id in its set of stopped transfers, `wire` the control messages.  `TransferState`
is made anew for every link (`session.rs` 524), so `LinkDown` clears all of it
and keeps the receiver's `sidecar`, `part` and `out`; of a sidecar only the chunks
are read, and the sender's not at all.  `LinkDown` is also the end of the
receiver's program: any of the bytes still in a `tokio::fs::File` may be lost then,
and a sidecar that is being written is `torn`.  It does not parse, and from then on
every accept of that file fails (`AcceptFails`).

Most handlers change a manifest and save it under one lock (`Save`).  A pause, a
cancel and a failure do not: they change the status and copy the manifest under
the lock, let go of it, and save the copy under the lock taken again (`session.rs`
1511-1529, 1974-1994, 2012-2032).  `saving` holds the copy a loop has yet to save and
what it does after (`LoopSaves`, `CancelTells`, `PauseStops`), the field `copy` of a
task the receiver's after a wrong hash (`ReaderSave`).  A chunk recorded in between
is not in the copy: it is acknowledged, and gone from the sidecar.  `outdated` says
that this has happened on the link.

A `task` is what one `FileAccept` or `FileResume` sets off: the sender's spawned
task (`writer`), its stream, and the receiver's task on that stream (`reader`).
Each reader state is a place where the code awaits and others run: after the
check for cancellation, between a chunk's write and its record, between the
decision to finish (under the lock), the hash, the removal of an old file, the
rename and the final status.  `sink` follows the open file through renames.  A
file is the set of its chunks that have their bytes; the hash is right when that
is all of them.  Chunks go out in order from the first missing one, so what is
missing is always one range and a send has one stream.

Users may act whenever their row's button is enabled (`main.rs` 2373-2397), with
the status of the manifest for the row's.  Simplifications: one chosen path; the
source does not change; a file has chunks; saves do not fail; the sender's save of
a copy is no step of its own; rows of an earlier link are not clicked; the tasks of an old link end
before the next link carries the file.

`FileDelivery` is what is left of this for its users: a record of chunks, what the
sender counts, the file at the path, the report, and the two things that can go wrong
(`lapsed` is `outdated`, `overlap` is `overlapped`).

Sets of chunks stand for the ranges that travel and lie in the sidecar.
`RangeSets` has the code's operations on ranges, and `MCTransfer` assumes, and so
has TLC evaluate, that they agree with sets: for every sequence of three ranges
with ends from 0 to 5, empty and reversed ones among them, what is inserted is in
order, apart and the union; what is missing is the rest of the file, ranges behind
its end cut off; the count is the number of chunks.  `MissingIsOneRange` ties this
to `MissingFrom`, with which `Transfer` says where a send starts.

### ControlLoop

`loop` is what `run_direct_link` awaits: an arm of `select!`, room in its channel
(`sends`) or room in the stream (`writes`).  `outbound` counts `outbound_tx`, filled
by the loop itself (`Send`) and by tasks that recorded a chunk (`Acknowledge`), and
emptied by the loop alone (`TakeOutbound`).  A message on the stream is two parts,
the length and the payload, each written and read in a step of its own.  An arm
that wins resets `taken`, which is what the dropped `read_p2p_message` had: the
rest of its message stays in the stream and is read as a length (`ReadRest`).  Four
bytes of JSON as a length are far above `MAX_FRAME_LEN`, so the link is lost; only
a rest of a single byte may pass, with the three first bytes of the next length,
and `shifted` remembers that.  What the handlers do with a message is in
`RemoteDesktop` and `Transfer`; here a message may ask for an answer, as a ping
does.  A handler that hashes a file or waits for the event channel is in `sends`
for as long.  What has arrived can be read until the loop sees that the connection
is lost.

`ControlStream` is what is left of this for those who talk: the number of messages
sent to an end, the last it has heard, and whether it may have missed some.  The next
message heard is the next one sent, or after a slip a later one.  `ImplementsStream`
maps `written` of the peer to the first, the last of `handled` to the second and
`shifted` to the third; taking a message in hand is sending it, reading a payload
behind its length is hearing it, and all else that happens to channels, parts and
reads is nothing to the stream.  It says more than `HandledInOrder`: also after a
slip nothing is heard twice or out of order, and nothing before it was sent; so the run
checks the refinement only.

### ConnectionWindow

`state`, `handle`, `listens` and `worker` are the window (`ConnectionState`, its
`ChatSessionHandle`, the receiver of events, the capture thread); `closing` is the
task `close_current_session` leaves.  A clone of the handle in any of them (`Held`)
keeps the session's tasks alive.  `After` is `poll_background_events`, one event at
a time; `events` holds what was told and not polled.  Behind the window are the
socket as the room sees it, the dispatch loop with its two flags, the attempts
(`tries`) and the links, each with its state at both ends: being made, queued
behind the one the manager uses, up, gone.  Infos are received as soon as they are
announced, and an attempt may fail at any time, so orders of infos are left to
`Negotiation`.  Each window has one session; a second one would have events of its
own channel only, since the receiver is replaced.

The module has two states no property excludes, because the code has them.  A link
that comes up after `SignalingClosed` has dropped the handle shows Direct without a
session: `DirectIsInUse` therefore speaks of a window that can send.  And a window
that `peer-left` took to Connected while it shares drops its handle with
`SignalingClosed` but not its capture thread: it shows Idle, its button that would
stop the sharing is refused (`main.rs` 765), and the sharing goes on.
`DisconnectEndsLink` shows that a user's disconnect ends it.

## 3. Runs

| Run | Instance | Shows |
|---|---|---|
| `room_safety` | 1 code, 3 sockets that are reused, 2 attempts, restart | types, the flag, seats, evictions, announcements, that only a stray signal makes a phantom peer, and that every step is one of `RoomService` |
| `desktop` | 3 ids, commands with up to 2 messages under way, 2 inputs | the two state machines match or are being repaired; crossed offers and half-open sessions end |
| `input_safety` | 1 key, 2 events, 2 clicks on their way, 3 unread | nothing stays pressed, views of the permission agree, an ended session releases |
| `frames` | 2 tiles, 2 sessions, 2 changes, 1 failure or dropped event | the canvas is a captured screen; a frame that is lost leaves a keyframe owed, one that is not announced is in the slot |
| `negotiation_safety` | 4 tokens, one timeout, one broken link, one retry or one rejoin | the announced mark is honest; nobody waits untold |
| `negotiation_liveness` | 6 tokens, two broken links, two retries | first pairing and retry end in a quiet link |
| `transfer` | 2 chunks, 2 sends at once, 2 events | whole file or none, honest success, no acknowledged chunk lost but to a late save, a resumed transfer completes; every step is one of `FileDelivery`; ranges agree with sets |
| `transfer_again` | 1 chunk, 1 event | **violated**: accepted with nothing missing, a transfer never ends |
| `window` | 2 links, 1 trouble | who may send has a link; a session without signaling is kept for its link only; a disconnect ends every link |
| `window_chat` | 1 link, 1 trouble | **violated**: a reclaimed socket stops the chat over a link that lives |
| `control_loop` | channel of 1, stream of 2 parts, 2 and 1 things to say | every step is one of `ControlStream`; a lost connection is told |
| `control_loop_closed` | the same | **violated**: a loop that waits for itself tells nobody |

Why the bounds are enough. A room's code never looks at another room, so one code
with three sockets has host, guest and an evicted or refused third; sockets are
reused, so any number of generations occurs. `MaxDown` only stops new arrivals
while clients have unread messages. Three ids are needed for an old session's
message to meet a withdrawn offer and its successor. Ids, tokens and inputs are
reused as soon as nothing refers to them. A key and its two events suffice for
every order of press, release and revoke; two clicks are a revoke and a grant, or
either and a stop. The negotiation's bounds count rare events (timeouts, losses,
retries, joins), not steps: between them the run explores every order of messages
and tasks. Two chunks make a send that can be cut in the middle, two sends make
two finalizations; the two events of `MaxEvents` are any of pause, resume, cancel,
reject, another offer and a lost link, so a pause and its resume, or a link lost
and one more disturbance of its successor. `MaxLate` ends what users do once sends
have overlapped, where all but the types and the record is excepted anyway; that
those hold beyond it is what `MCTransferLate.cfg` checks (706,000 states). A frame
that is lost needs one before it and one after it: with two changes and the first
picture there are three frames, with a failure of the capture four, and two tiles
make differences that miss each other. The second session is the last one, so the
users do not end it; a failed capture may. In `negotiation_safety`
`FewKinds` takes a retry and a rejoin each with a timeout and a broken link, and both
together without these; `ToldUnlessAlone` excepts a host that retries in the empty
room, because that breaks `NoSilentWait`, as `MCNegotiationSilent.cfg` shows. Two links are the one in use and one that waits
behind it or follows it; the one trouble of `MaxTroubles` is any of a reclaimed
socket, a broken link and a retry that starts an attempt, while users may
disconnect, share and send without bound. A channel of one is full as soon as it
holds anything, which is when 128 are in the real one; a stream of two parts holds
one message, so a write waits with half of one. Two things said by one end, with
the ping's answer, give three messages of which the middle one may be cut. That
nothing depends on these sizes is what `ControlLoopProofs` adds.

Deadlock is checked except where the system really stops: the input path when
its session is over, the negotiation when both sides are linked or have failed,
the transfer when it is over and no events are left, the frames when the screen
stands still and all are shown, the windows when both have been used and closed,
the loops when both have ended.  A loop in `sends` with a full channel, and two
loops that both write into full streams, also stop; the first is what
`control_loop_closed` is about, the second lasts until the connection is lost for
some other reason, which `SeeClosed` then tells.

Fairness.  `RemoteDesktop`: a running loop reads its stream, and the end whose peer
is gone finds out (QUIC keep-alive 10 s, idle timeout 30 s, `direct.rs` 232-237).
`RemoteInput`: loops read, tasks run, the window polls its channel on every
frame.  `Negotiation`: messages are delivered, tasks end, a hopeless attempt
times out, a dead link is found dead.  `Transfer`: whatever of the loops, the tasks
and the writes to a file can go on does, with no fairness between them, since all of
it ends when the users do nothing.  `ControlLoop`: each loop takes a step whenever
what it awaits is there.  `ConnectionWindow`: the closing task runs, an end that is
being made ends, the manager notices that nobody can send or that its connection is
closed.  `Room` and `DesktopFrames` are checked for safety only.  Nothing is assumed
of users: nobody must connect, click, answer, retry or leave, and no fairness is
strong.

### What the violations say

1. `transfer_again`: with every chunk recorded the sender answers an accept with a
   `FileComplete` to the receiver (`session.rs` 1599), which ignores it; README
   45 and 263 promise that a transfer continues after a reconnect and that the
   file is put at its path.
2. `control_loop_closed`: the loop awaits `outbound_tx.send` in its own arms
   (`session.rs` 552) and nobody else reads that channel.  While `offer_file`
   hashes a large file in the loop, the tasks of a file that comes in fill the
   channel with acknowledgements; the loop then waits for itself for ever and does
   not see the end of its connection, which README 126 promises to notice.
3. `window_chat`: `peer-left` takes a Direct window to Connected although the link
   lives (`main.rs` 1463), and nothing can be sent any more; the comment at
   `main.rs` 1521 says that the signaling does not touch the chat.

### Instances that fail, beside the runs

Six configurations are kept for what they show of the limits of the properties.

- `MCRoomStray.cfg` (`NoPhantomPeer`): a guest's signal is still to be dispatched when
  its host leaves and the room is closed.  Another host draws the same code, and the
  signal is then relayed to it (`index.ts` 176): its loop announces a peer
  (`session.rs` 304-309) and its window says that the other client has joined, while
  its room has no guest.  The comment at `index.ts` 218 says that the room is closed
  with its host.  The same one of 10000 codes must be drawn at that moment, so this is
  rare; what keeps the old guest from a link is the pairing token.
- `MCNegotiationSilent.cfg` (`NoSilentWait`): a retry in the empty room uses up
  the host's announcement (`session.rs` 398), and the next guest waits without a
  word; README 163 promises an error.
- `MCNegotiationRejoin.cfg` (`Reconnects`): the announce task of the previous
  guest survives `peer-left` (`session.rs` 276-281), the new guest gets two
  infos, and both sides start over (`session.rs` 311).
- `MCRemoteInputFail.cfg` (`RevokedReleases`): after a refused injection the
  injector is dropped before its keys are released (`main.rs` 848).
- `MCRemoteInputStuck.cfg` (`NoStuckKey`): control is revoked and granted again;
  a press sent before may arrive after the grant, while its release was not sent
  because the viewer had no control (`session.rs` 1015, 1197); the comment at
  `main.rs` 1320 promises that a key whose press was sent is released.
- `MCTransferOutdated.cfg` (`AckedIsSaved`): the receiver's user pauses while a task
  is about to record a chunk; the chunk is recorded, acknowledged and counted by the
  sender, and then the copy made before it is saved (`session.rs` 1526).  A link lost
  now makes the receiver ask for it again.

`transfer` assumes away one more thing: its first two properties except links on
which chunks were asked for while a send was not over (`overlapped`).  A pause
followed at once by a resume does that.  Two tasks then finish the same file, and
one may remove what the other has just put at the path (`session.rs` 1884-1887),
so `OutputIsWhole` without the exception does not hold.

## 4. Proofs

`RoomProofs` proves, for every set of codes, every finite set of sockets and any
number of attempts (the named assumptions of `Room`):

| Theorem | Statement |
|---|---|
| `TypeCorrect` | `Spec => []TypeOK` |
| `RoomInvariant` | `Spec => []RoomInv`, the inductive invariant |
| `FlagIsExact`, `Occupancy`, `NoForgottenSocket` | the three safety invariants |
| `RoomOutlivesStaleEvents` | `Spec => OnlyItsHostCloses`, an action property |
| `RoomImplementsService` | `Spec => ImplementsService`, the refinement |

The safety invariants are not inductive one by one.  That a room admits a single
host follows from the flag being exact; that the flag stays exact when a host
leaves follows from there being no other host; that no second guest enters rests
on the size of the map, so on there being a host whenever there is a guest
(`GuestMeansFull`).  `RoomInv` is their conjunction with what a map entry says of
its socket.  `AcceptKeeps`, `DisconnectKeeps` and `RestartKeeps` are the steps
that change the maps, `MapsUntouched` disposes of the others.  The refinement
maps a room's host and guest to the only member with that role; the lemmas
`AcceptIsAdmission` and `DisconnectIsDeparture` show that an accepted socket is
an `Open` or an `Enter`, a disconnect a `Leave`, a `Shut` or nothing.

`RoomProofs` also proves from `RoomInv`, under the same assumptions:

| Theorem | Statement |
|---|---|
| `AnnouncedInvariant` | `Spec => []Announced`, the inductive invariant |
| `LeaveIsTold` | `Spec => []ToldBeforeClosed` |
| `PhantomsAreStray` | `Spec => []PhantomIsStray` |
| `PairLearns` | `Spec => []PeersKnown` |

The properties are about a socket that is drained, the invariant about what is still
on its way to it: of the announcements in the queue the last one is right, or, if
there is none, the roster is (`Ends`).  A signal says that there is a peer, as
`peer-joined` does.  Who is alone in its room will end with
`peer-left`, unless it was sent a stray signal since (`Alone`), and once the guest's hello is handled both will end with
`peer-joined` (`Paired`); a close is the last message of a queue and comes right
after `peer-left` (`Warning`).  `Marked` says that the worker's end of an accepted
socket is closed exactly when the map has forgotten it: a hello that finds its socket
closed and stops is therefore of nobody's peer, and a broadcast misses no member.
`HelloKeeps` needs that there is no guest without a host, so that a guest's hello
always finds somebody to tell; `DisconnectAnnounces` needs that there are only two,
so that who is told of the leave is alone afterwards.

`TransferProofs` proves, for a file of any positive number of chunks, any number
of sends at once and of disturbances (the named assumptions of `Transfer`):

| Theorem | Statement |
|---|---|
| `RecordInvariant` | `Spec => []RecordInv`, the inductive invariant |
| `NothingAckedIsLost` | `Spec => []AckedIsRecorded` |
| `TypeCorrect` | `Spec => []TypeOK` |
| `DeliveryInvariant` | `Spec => []DeliveryInv`, the inductive invariant |
| `WholeFile` | `Spec => []WholeUnlessOverlapped` |
| `CompleteDelivered` | `Spec => []CompleteIsDelivered` |
| `TransferImplementsDelivery` | `Spec => ImplementsDelivery`, the refinement |

The sender learns what is done from acknowledgements alone, so `RecordInv` says
that each one under way is for a chunk of the sidecar, unless the sidecar is
`outdated`.  It is sent only after the chunk was saved (`ReaderRecordKeeps`), and
it stays true because the sidecar never shrinks (`Grows`): it is written from the
manifest of the link, which starts from it (`AcceptOfferKeeps`) and only gains
chunks, or from a copy that has no fewer (`CopyStep`).  A status could be written
with no manifest behind it, so `RecordInv` also says that a send is asked for
(`WireOK`) and under way (`TasksOK`), and a copy to be saved (`ManifestsOK`), only
on a link whose receiver has accepted.  The lemmas `SaveStep`, `MarkStep`,
`CopyStep`, `SendStep`, `TakeStep` and `TaskStep` are what a handler does to the
manifests, the messages and the tasks; every action is a combination of them.

The receiver verifies `.part`, removes the old file and renames `.part` to the
chosen path: steps of a task, between which any other task may step.  The two
properties of delivery hold because there is no other: until `overlapped` there is one
send at most (`OneSend`), and while a request for chunks is under way there is none; a
request is the only one in its stream and behind every report of an end (`Lined`).
`Sound` is what the receiver's task then knows: when it removes and renames, `.part`
has every chunk, and when it reports, the path has.  The sender's `Complete` has to
survive the next removal of the file, so `Pending` says that a send which is started
and not through at the receiver is not reported, and what is `Reported` is at the path.
A step that adds neither a request nor a report keeps most of that (`Follows`);
`HandleAcceptDelivers`, where a send starts, and `RemoveDelivers`, `RenameDelivers` and
`CompleteDelivers`, where the file changes, are the steps that need all of it.

The refinement maps the sidecar, the sender's chunks and status, and the file at the
path to `FileDelivery`; messages, tasks and `.part` are left out, so most steps are
none of it (`NothingRefines`) or take the sender's report back (`WithdrawRefines`).
It says more than the invariants: the file leaves its path only while it is not
reported (`RemoveRefines`, from `Pending`), a chunk is counted only from the record
(`AckRefines`, from `RecordInv`), nothing but a late save takes a chunk from the record
while the link lasts (`Refines`), and a lost link adds none.  The last is not in
`RecordInv`: what a lost link leaves in the sidecar may be a copy that was still to be
saved.  `CopiesOK` says that every such copy has only chunks of the sidecar; it is
preserved because a copy is the receiver's manifest of its time (`Copied`) and no step
but a `Lapse` makes the sidecar smaller, which is half of what `Refines` says of a
step.  So the two are proved together, and `LinkDownRefines` uses it.  An overlap makes
the file and the report arbitrary (`Spoil`), not the record: that is promised even then.

`ControlLoopProofs` proves, for a channel and a stream of any positive size and any
number of things to say (the named assumptions of `ControlLoop`):

| Theorem | Statement |
|---|---|
| `TypeCorrect` | `Spec => []TypeOK`: the channel and the stream keep to their sizes |
| `InOrder` | `Spec => []HandledInOrder` |
| `LoopImplementsStream` | `Spec => ImplementsStream`, the refinement |

The parts an end writes are numbered by their positions.  What is in the stream and
in the writer's hands are the last of them, so the reader has taken all before
(`Done`).  `StreamOK` and `WritingOK` say that an odd position is a length and an
even one a payload, with the number of the message; so a read that finds a payload
behind a length it has taken has found the payload of that length, and a read that
begins with a payload knows that it was cut.  `HandledOK` and `ReadsOK` relate
`Done` to the messages handled, as long as `shifted` is false.  `WritesOK` is needed
for the types: a part goes out only of a message that has one left.  `OrderFrame`
disposes of the other end; `WriteOrder`, `PartOrder`, `LengthOrder`, `PayloadOrder`
and `GarbageOrder` are the steps that move parts.

For the refinement, `LastOK` says that the last message an end has handled is no
further than what it has taken (`Done`), also when messages have slipped.  The number
of a payload read behind a length is its position, so it is later than that message
and no later than the last one sent; without a slip `HandledOK` and `ReadsOK` make it
the very next (`PayloadFollows`).  `WriteFollows` is a message sent, `RestFollows` a
slip, and the other lemmas show that a step leaves `Done` and what was handled as they
are, or only moves `Done` on.

`RemoteDesktopProofs` proves, for two different peers, any set of positive session
ids and any number of inputs and messages under way (the named assumptions of
`RemoteDesktop`):

| Theorem | Statement |
|---|---|
| `TypeCorrect` | `Spec => []TypeOK` |
| `DeskInvariant` | `Spec => []DeskInv`, the inductive invariant |
| `ActiveMatched` | `Spec => []ActiveIsMatched` |
| `PendingMatched` | `Spec => []PendingIsMatched` |
| `ControlAgreed` | `Spec => []ControlAgrees` |
| `InputNewer` | `Spec => []InputIsNew` |

No run checks the types a second time, so that the run of these two machines keeps to
the properties that relate them; `TypeCorrect` has them for every instance.

`Matched` is what the first two say of one peer: what it has the other has too, or
the message that will change it is under way.  It is not inductive, because taking
that message must leave it true.  So `Means` says of each message what it tells of
its sender and its receiver: a stop is of a session its sender no longer has, a
refusal of one it never accepted, an acceptance of one it views or has ended behind
it, an offer is the first its receiver hears of the session (`Ordered` keeps it so
within the stream) and its sender still waits or has sent the stop behind it.  When
offers cross, the reader of the greater id refuses in `OfferRefusedKeeps`, the
reader of the smaller withdraws its own in `OfferTakenKeeps`.  `Granted` is
`ControlAgrees` with the permissions under way: the last of them is the sharer's
word (`Ends`, as in `RoomProofs`).  `Counted` and the last clause of `Means`
order the inputs sent, under way and handled; `Counting` is why no counter outlives
its session.  `Dead` disposes of a link that one end has lost.  There is a lemma for
each step of a user and each kind of a message taken; `TakeKeeps` is for those that
find their session gone.

`NegotiationProofs` proves, for any finite set of tokens and any bounds (the named
assumptions of `Negotiation`):

| Theorem | Statement |
|---|---|
| `TypeCorrect` | `Spec => []TypeOK` |
| `MarkIsHonest` | `Spec => []SentIsUnderWay` |
| `WaitInvariant` | `Spec => []WaitInv` |
| `NobodyWaitsUntold` | `Spec => []ToldUnlessAlone` |

`connect_info_sent`, the mark, is set before the task that earns it is spawned, and
cleared and set again by envelopes, retries and resets while earlier tasks still run.
The loop's variables of one side are a record (`Loops`), and each helper of the loop
maps a record that is `Honest` to one that is (`AnnounceKeeps`, `StartKeeps`,
`ForgetKeeps`, `OnSignalKeeps`, `OnEnvelopeKeeps`), so a handler that calls several
of them keeps it too (`BecomeKeeps`).  The mark survives the end of the task because its
result is then among those in `ready` (`CollectedKeeps`).  `MarkInv` adds that
a guest who is away may still come back, which the type of `joins` needs.

That nobody waits untold is a matter of counting.  When nothing is under way and a side
has neither a link nor a failed one, it has not started, since who starts has a link, an
attempt or a failure from then on (`Started`).  Its own info is there (`MarkIsHonest`), so
it lacks the peer's.  `Enough` excludes that: while both are in the room, the peers' infos
heard, the announcements still to be made (`Share`), the infos being made and those under
way (`Infos`) are two at least, and when nothing is under way any more both sides have
heard.  The sum does not fall: an info that arrives is heard, or is another than the last
and is answered with a new one (`DispatchCount`); a retry forgets one and makes one
(`RetryWaits`); who makes one puts it under way (`CollectedWaits`).  For that, an info must
not be counted twice or arrive twice (`Single`), a side that has not announced must have
heard nothing yet (`Unheard`), and the word that makes it announce must reach it before any
info (`HostExpects`, `GuestExpects`: `peer-joined` goes out behind `peer-left`, and before
the guest's info because `hello` does).  With a new guest the sum starts again: the host
has not announced since the last one left, or is still to be told (`Door`), and nothing of
the last guest is left (`Vacant`).  That is where `alone` is needed: a host that retries
after `peer-left` and before the next guest has announced, to nobody.

`DesktopFramesProofs` proves, for any set of tiles and any number of
sessions, changes and troubles (the named assumption of `DesktopFrames`):

| Theorem | Statement |
|---|---|
| `PictureInvariant` | `Spec => []PictureInv`, the inductive invariant |
| `CanvasIsTrue` | `Spec => []CanvasIsScreen` |
| `LossInvariant` | `Spec => []LossInv`, the inductive invariant |
| `LatestAccountedFor` | `Spec => []LatestIsAccountedFor` |
| `TypeCorrect` | `Spec => []TypeOK` |

Most frames carry only the tiles that differ from the picture before, so one applied
to the wrong canvas would paint a screen that never was.  The invariant follows a
frame along the way.  Wherever it is (`Queued`, `Carried`, `Slotted`) it is
`Faithful`: it carries tiles of its picture, and leaves out only those that are as in
the picture before.  It is so when it is made, because the encoder stands at the last
picture recorded (`AtLast`): `commit` is called only when the channel took the frame
(`CaptureKeeps`).  The decoder accepts a keyframe, or a difference with the number
that follows its own, and then its canvas is that picture (`AppliedIsPainted`).
Numbers begin again with each session; `NotYet` says that the thread of a session that
is only starting has recorded nothing, and frames of another session are not accepted.  A record only grows
(`Continues`), so a frame under way stays faithful while others are captured.

`LossInv` follows the last frame of a session instead: as long as no frame has come
through outside its session (`late`), it is on its way (`OnItsWay`; in the slot that
means with an event to come, or with its event dropped), on the canvas (`Shows`), or
made good for (`MadeGood`): the sharer owes a keyframe, or the request for one is under
way (`Kept`). A frame that is overtaken is dropped by its number, so a last frame must
not be: the channel holds the last frame of its session (`QueueIsLast`), each frame has
one stream (`OneStreamEach`), and the number seen last is of a stream that was begun to
be read (`SeenIsRead`). The window asks for a keyframe of the session it is in, which
is the session of the frame it misses because it hears of one session at a time: of the
beginning, of the frames, of the end (`InStep`). `TypeInv` is for the types: a frame
being written has one open stream (`Writing`), and the encoder counts no more frames
than the capture had pictures (`Counted`).

`RemoteInputProofs` proves, for any set of keys and any number of inputs and clicks
(the named assumptions of `RemoteInput`):

| Theorem | Statement |
|---|---|
| `TypeCorrect` | `Spec => []TypeOK` |
| `AgreeInvariant` | `Spec => []AgreeInv`, the inductive invariant |
| `PermissionAgreed` | `Spec => []SettledAgree` |
| `KeysInvariant` | `Refused = {}` implies `Spec => []KeysInv`, the inductive invariant |
| `NothingStaysPressed` | `Refused = {}` implies `Spec => []RevokedReleases` |

The sharer's loop decides, its window and the viewer learn of it through queues.  The
last state among the window's events, and the last word under way to the viewer, are
what the loop decided last; without any, the window and the viewer have it already
(`Told`, `ViewerTold`).  A viewer who has ended the session may be ahead, but then its
stop is under way.  For the keys: the injector tracks what is down, and while control is
off every injection in the channel has a release of all keys behind it, as has the key
that is down already (`Cleared`).  An injection may still be taken after the revoke; the
release behind it is why that does no harm.  The hypothesis that the operating system
refuses nothing is needed: a refused injection drops the injector with its keys pressed
(`main.rs` 848), as `MCRemoteInputFail.cfg` shows, and `input_safety` makes it too.

`ConnectionWindowProofs` proves, for any number of links and troubles (the named
assumption of `ConnectionWindow`):

| Theorem | Statement |
|---|---|
| `TypeCorrect` | `Spec => []TypeOK` |
| `WindowInvariant` | `Spec => []WindowInv`, the inductive invariant |
| `SendsOverALink` | `Spec => []DirectIsInUse` |
| `NoVainWaiting` | `Spec => []KeptForItsLink` |

The window shows what it read last, and what it reads may be long untrue.  `Undone` says
that every such word in its channel has its correction behind it.  `LossIsTold`: where no
link is in use, the loss of the link is behind every link announced, and is in the channel
if the window is Direct.  `EndIsTold`: where the dispatch loop has ended, the end of the
signaling is behind every `peer-left`, and is in the channel if the window still waits for
a peer.  A window that does not listen has nothing to read (`Listening`), so a new session
begins with an empty channel.  `PollKeeps` is where a window takes a word: the rest of the channel still has the
correction (`UndoneTail`), unless what it takes is the correction itself.

Only model-checked: all liveness, and that the operators of `RangeSets` compute what
their sets say.  Liveness under fairness and ENABLED are beyond the prover, and so are results by
induction over data and anything about RECURSIVE operators; the modules declare none.

## 5. Not modelled

- QUIC, TLS, STUN, WebSocket framing, hole punching, certificates: external;
  the models use what the code relies on (ordered streams, a Hello that only the
  right pair passes, an end that notices its peer is gone).
- Screen capture, tiles, PNG, key codes, painting, texts, configuration.
- In `ControlLoop`, that the streams of frames and files share the connection's
  flow control, and bytes: a part of a message goes out or in as a whole.
- In `ConnectionWindow`, a second session in the same window, and the order of
  infos and delays of a negotiation.
- `/health`, malformed requests to the worker, logging and status lines.
- Parallel dials of one attempt are one connection; a failing candidate
  collection is listed as a hazard only.

## 6. Plan

In this order, the most important behaviour first:

1. `Transfer` further: a pause that the other side takes for a cancel, after which
   nobody can continue; saves that fail; a file without chunks.
2. `DesktopFrames` further: the loss of the link, and what the viewer is promised
   once the screen stands still.
3. `ConnectionWindow` further: a second session in one window.
4. Proofs: action properties, of `ConnectionWindow` first.
