------------------------------ MODULE Transfer -------------------------------
(***************************************************************************)
(* The transfer of one file (clients/p2p-core/src/session.rs, transfer.rs) *)
(* over the successive direct links between two peers.  The transfer id    *)
(* is computed from the file, so the same file sent again is the same      *)
(* transfer.                                                               *)
(*                                                                         *)
(* What interleaves on a link: the loops of the two peers, which run       *)
(* commands of their users and control messages one after the other; a     *)
(* task of the sender per accept or resume it received, writing chunks to  *)
(* a stream of its own; and a task of the receiver per stream, recording   *)
(* chunks and, after the last, delivering the file.  Across links only the *)
(* receiver's sidecar and its two files survive.                           *)
(***************************************************************************)
EXTENDS Integers, Sequences

CONSTANTS N,          \* chunks of the file
          MaxSends,   \* bound: send tasks, with their streams, alive at once
          MaxEvents,  \* bound: pauses, resumes, cancels, repeated offers, lost links
          MaxLate     \* bound: the same but lost links, once sends have overlapped

ASSUME ChunksAssumption == N \in Nat \ {0}
ASSUME BoundsAssumption == MaxSends \in Nat /\ MaxEvents \in Nat /\ MaxLate \in 0 .. MaxEvents

VARIABLES manifest,   \* manifest[p]: the manifest of p on this link
          offered,    \* the receiver has the offer in pending_offers
          cancelled,  \* the peers that have the id in their set "cancelled"
          wire,       \* wire[p]: control messages on their way to p, in order
          task,       \* task[t]: a send task, its stream and the receiver's task
          saving,     \* saving[p]: a changed manifest the loop of p has yet to save
          sidecar,    \* the chunks done in the manifest of the receiver's TransferStore
          torn,       \* the program ended in the middle of writing the sidecar
          outdated,   \* an older manifest was saved over a newer one on this link
          part, out,  \* the .part file and the file at the chosen path
          events,     \* events used up of MaxEvents
          disturbed,  \* an event other than the loss of a link hit this link
          overlapped  \* chunks were asked for while a send was not over

vars == <<manifest, offered, cancelled, wire, task, saving, sidecar, torn, outdated, part,
          out, events, disturbed, overlapped>>

Chunks == 1 .. N
Sends == 1 .. MaxSends
Peers == {"sender", "receiver"}
Peer(p) == IF p = "sender" THEN "receiver" ELSE "sender"

Manifest(status, done) == [status |-> status, done |-> done]
None == Manifest("None", {})
Manifests == [status: {"Offered", "Accepted", "Paused", "Complete", "Cancelled", "Failed"},
              done: SUBSET Chunks] \cup {None}

\* A file is the set of its chunks that have their final bytes.
NoFile == {0}

\* next, read: the next chunk to write to the stream, and to take from it.
\* sink: which file the receiver's task has open.  buffer: a chunk handed to
\* that file and not yet in it, 0 for none.  copy: the chunks
\* done in the copy of the manifest that the task is about to save.
NoTask == [writer |-> "ended", next |-> 0, reader |-> "ended", read |-> 0,
           sink |-> "none", buffer |-> 0, copy |-> {}]
Tasks == [writer: {"spawned", "writing", "failed", "ended"}, next: 0 .. N + 1,
          reader: {"no stream", "incoming", "check", "read", "record", "flush",
                   "hash", "save", "remove", "rename", "complete", "ended"},
          read: 0 .. N + 1, sink: {"none", "part", "out", "gone"}, buffer: 0 .. N,
          copy: SUBSET Chunks]

\* What a loop does after saving the copy: return to its select!, or go on with
\* the pause or the cancel that changed the status.  A pause has a second step.
Idle == [then |-> "idle", copy |-> {}]
Savings == [then: {"idle", "return", "cancel", "pause", "tell", "stop"},
            copy: SUBSET Chunks]

Messages == [type: {"accept"}, done: SUBSET Chunks] \cup [type: {"ack"}, chunk: Chunks]
            \cup [type: {"offer", "reject", "cancel", "complete"}]
Accept(done) == [type |-> "accept", done |-> done]
Ack(c) == [type |-> "ack", chunk |-> c]
Msg(type) == [type |-> type]

TypeOK == /\ manifest \in [Peers -> Manifests]
          /\ offered \in BOOLEAN
          /\ cancelled \subseteq Peers
          /\ wire \in [Peers -> Seq(Messages)]
          /\ task \in [Sends -> Tasks]
          /\ saving \in [Peers -> Savings]
          /\ sidecar \subseteq Chunks
          /\ torn \in BOOLEAN
          /\ outdated \in BOOLEAN
          /\ {part, out} \subseteq (SUBSET Chunks) \cup {NoFile}
          /\ events \in 0 .. MaxEvents
          /\ disturbed \in BOOLEAN
          /\ overlapped \in BOOLEAN

Init == /\ manifest = [p \in Peers |-> None]
        /\ offered = FALSE
        /\ cancelled = {}
        /\ wire = [p \in Peers |-> <<>>]
        /\ task = [t \in Sends |-> NoTask]
        /\ saving = [p \in Peers |-> Idle]
        /\ sidecar = {}
        /\ torn = FALSE
        /\ outdated = FALSE
        /\ part = NoFile /\ out = NoFile
        /\ events = 0
        /\ disturbed = FALSE
        /\ overlapped = FALSE

files == <<part, out>>
stored == <<saving, sidecar, torn, outdated>>
bounds == <<events, disturbed, overlapped>>

\* The event budget, for what a user or the network does.
Event == /\ events < (IF overlapped THEN MaxLate ELSE MaxEvents)
         /\ events' = events + 1
         /\ disturbed' = TRUE

\* The receiver asks for chunks.
Ask(done) == /\ wire' = [wire EXCEPT !["sender"] = Append(@, Accept(done))]
             /\ overlapped' = \/ overlapped
                              \/ \E t \in Sends : task[t] # NoTask
                              \/ \E i \in 1 .. Len(wire["sender"]) :
                                   wire["sender"][i].type = "accept"

Send(p, m) == wire' = [wire EXCEPT ![Peer(p)] = Append(@, m)]
Take(p) == wire' = [wire EXCEPT ![p] = Tail(@)]

\* A manifest changed and saved under one lock: the receiver's sidecar is
\* written; the sender's own is never read, nor is the status in a sidecar.
Save(p, m) == /\ manifest' = [manifest EXCEPT ![p] = m]
              /\ sidecar' = IF p = "receiver" THEN m.done ELSE sidecar
              /\ UNCHANGED <<saving, torn, outdated>>

With(p, status) == [manifest[p] EXCEPT !.status = status]
SetStatus(p, status) == Save(p, With(p, status))

\* Pausing, cancelling and failing copy the changed manifest under the lock
\* and save the copy under the lock taken again.
Mark(p, status) == manifest' = [manifest EXCEPT ![p] = With(p, status)]

\* The receiver's copy, saved: chunks recorded since it was made are not in it.
SaveCopy(copy) == /\ sidecar' = copy
                  /\ outdated' = (outdated \/ copy # manifest["receiver"].done)
                  /\ UNCHANGED torn

\* What is left to do once the copy is saved.
AfterSave(then) == CASE then = "return" -> "idle" [] then = "cancel" -> "tell"
                     [] then = "pause" -> "stop"

\* In the loop of p, which does nothing else until the copy is saved; what the
\* sender saves is never read, and its save is no step of its own.
MarkInLoop(p, status, then) ==
    /\ Mark(p, status)
    /\ saving' = [saving EXCEPT ![p] =
                    IF p = "receiver" THEN [then |-> then, copy |-> manifest[p].done]
                    ELSE [Idle EXCEPT !.then = AfterSave(then)]]
    /\ UNCHANGED <<sidecar, torn, outdated>>

\* mark_transfer_cancelled; nothing is saved without a manifest.
MarkCancelled(p, then) ==
    /\ cancelled' = cancelled \cup {p}
    /\ offered' = (offered /\ p # "receiver")
    /\ IF manifest[p] = None THEN UNCHANGED <<manifest, stored>>
       ELSE MarkInLoop(p, "Cancelled", then)

-----------------------------------------------------------------------------
(* Commands of the users; the buttons of a row depend on its status.  Rows *)
(* left over from an earlier link are not used.                            *)

OfferFile ==
    /\ IF manifest["sender"] = None THEN UNCHANGED <<events, disturbed>> ELSE Event
    /\ Save("sender", Manifest("Offered", {}))
    /\ cancelled' = cancelled \ {"sender"}
    /\ Send("sender", Msg("offer"))
    /\ UNCHANGED <<offered, task, files, overlapped>>

\* What is already there of the file: an existing sidecar is continued, the
\* file is the same and so is its hash; a mutant starts again, and still tells
\* the sender of the old chunks.
Anew == {}
Continued == sidecar

AcceptOffer ==
    /\ offered /\ ~torn
    /\ offered' = FALSE
    /\ Save("receiver", Manifest("Accepted", Continued))
    /\ cancelled' = cancelled \ {"receiver"}
    /\ Ask(sidecar)
    /\ UNCHANGED <<task, files, events, disturbed>>

\* A sidecar that cannot be parsed is an error, and the offer is gone.
AcceptFails ==
    /\ offered /\ torn
    /\ offered' = FALSE
    /\ UNCHANGED <<manifest, cancelled, wire, task, stored, files, bounds>>

RejectOffer ==
    /\ offered
    /\ Event
    /\ offered' = FALSE
    /\ Send("receiver", Msg("reject"))
    /\ UNCHANGED <<manifest, cancelled, task, stored, files, overlapped>>

Pause(p) ==
    /\ manifest[p].status \in {"Offered", "Accepted"}
    /\ Event
    /\ MarkInLoop(p, "Paused", "pause")
    /\ UNCHANGED <<offered, cancelled, wire, task, files, overlapped>>

\* The receiver asks for what is missing, the sender offers the file again.
Resume(p) ==
    /\ manifest[p].status \in {"Paused", "Failed"}
    /\ Event
    /\ cancelled' = cancelled \ {p}
    /\ IF p = "receiver"
       THEN SetStatus(p, "Accepted") /\ Ask(manifest[p].done)
       ELSE SetStatus(p, "Offered") /\ Send(p, Msg("offer")) /\ UNCHANGED overlapped
    /\ UNCHANGED <<offered, task, files>>

Cancel(p) ==
    /\ manifest[p].status \notin {"None", "Complete", "Cancelled"}
    /\ Event
    /\ MarkCancelled(p, "cancel")
    /\ UNCHANGED <<wire, task, files, overlapped>>

LoopIsSaving == saving["receiver"].then \in {"return", "cancel", "pause"}

LoopSaves ==
    /\ LoopIsSaving
    /\ SaveCopy(saving["receiver"].copy)
    /\ saving' = [saving EXCEPT !["receiver"] =
                    [Idle EXCEPT !.then = AfterSave(saving["receiver"].then)]]
    /\ UNCHANGED <<manifest, offered, cancelled, wire, task, files, bounds>>

CancelTells(p) ==
    /\ saving[p].then = "tell"
    /\ Send(p, Msg("cancel"))
    /\ saving' = [saving EXCEPT ![p] = Idle]
    /\ UNCHANGED <<manifest, offered, cancelled, task, sidecar, torn, outdated, files, bounds>>

\* A pause stops the tasks only now.
PauseStops(p) ==
    /\ saving[p].then = "stop"
    /\ cancelled' = cancelled \cup {p}
    /\ Send(p, Msg("cancel"))
    /\ saving' = [saving EXCEPT ![p] = Idle]
    /\ UNCHANGED <<manifest, offered, task, sidecar, torn, outdated, files, bounds>>

-----------------------------------------------------------------------------
(* Control messages                                                        *)

Incoming(p, types) == wire[p] # <<>> /\ Head(wire[p]).type \in types

HandleOffer ==
    /\ Incoming("receiver", {"offer"})
    /\ offered' = TRUE
    /\ Take("receiver")
    /\ UNCHANGED <<manifest, cancelled, task, stored, files, bounds>>

HandleCancel(p) ==
    /\ Incoming(p, {"cancel", "reject"})
    /\ MarkCancelled(p, "return")
    /\ Take(p)
    /\ UNCHANGED <<task, files, bounds>>

\* What is missing starts at c, or nothing is and c is N + 1.
MissingFrom(c, done) == c \notin done /\ 1 .. (c - 1) \subseteq done

\* Accept and resume: a send task is spawned, in the first free slot.
HandleAccept(t) ==
    /\ Incoming("sender", {"accept"})
    /\ task[t] = NoTask /\ \A u \in Sends : u < t => task[u] # NoTask
    /\ \E c \in 1 .. N + 1 :
         /\ MissingFrom(c, Head(wire["sender"]).done)
         /\ task' = [task EXCEPT ![t] = [NoTask EXCEPT !.writer = "spawned", !.next = c,
                                                       !.reader = "no stream"]]
    /\ Take("sender")
    /\ UNCHANGED <<manifest, offered, cancelled, stored, files, bounds>>

HandleAck ==
    /\ Incoming("sender", {"ack"})
    /\ Save("sender", Manifest("Accepted",
                               manifest["sender"].done \cup {Head(wire["sender"]).chunk}))
    /\ Take("sender")
    /\ UNCHANGED <<offered, cancelled, task, files, bounds>>

\* Only a sender completes: to a receiver the message is an error.
HandleComplete(p) ==
    /\ Incoming(p, {"complete"})
    /\ IF p = "sender" THEN SetStatus(p, "Complete") ELSE UNCHANGED <<manifest, stored>>
    /\ Take(p)
    /\ UNCHANGED <<offered, cancelled, task, files, bounds>>

-----------------------------------------------------------------------------
(* The send task: send_file_ranges, and what its caller does on an error   *)

\* A task of which nothing is left frees its slot.
SetTask(t, r) ==
    task' = [task EXCEPT ![t] = IF r.writer = "ended" /\ r.reader = "ended" /\ r.buffer = 0
                                THEN NoTask ELSE r]

\* Status of a transfer whose send starts; a mutant takes a file of which the
\* receiver has every chunk for delivered.
StartedComplete(t) == IF task[t].next > N THEN "Complete" ELSE "Accepted"
Started(t) == "Accepted"

\* Spawned, the task first takes the id out of "cancelled".  With nothing to
\* send it sends the receiver a FileComplete.
WriterStart(t) ==
    /\ task[t].writer = "spawned"
    /\ cancelled' = cancelled \ {"sender"}
    /\ SetStatus("sender", Started(t))
    /\ IF task[t].next > N
       THEN /\ Send("sender", Msg("complete"))
            /\ SetTask(t, [task[t] EXCEPT !.writer = "ended", !.reader = "ended"])
       ELSE /\ SetTask(t, [task[t] EXCEPT !.writer = "writing"])
            /\ UNCHANGED wire
    /\ UNCHANGED <<offered, files, bounds>>

\* The range of a stream excludes its end; in a mutant it includes it.
LastWithEnd(c) == c = N + 1
LastOfRange(c) == c = N

\* Opening the stream is one step with its first chunk.  The chunks missing
\* at the receiver are one range up to the last, so one stream has them all.
WriterWrite(t) ==
    /\ task[t].writer = "writing"
    /\ "sender" \notin cancelled
    /\ LET c == task[t].next
           opened == IF task[t].reader = "no stream"
                     THEN [task[t] EXCEPT !.reader = "incoming", !.read = c] ELSE task[t]
       IN SetTask(t, [opened EXCEPT !.next = c + 1,
                                    !.writer = IF LastOfRange(c) THEN "ended" ELSE "writing"])
    /\ UNCHANGED <<manifest, offered, cancelled, wire, stored, files, bounds>>

\* The id is cancelled, or the receiver's task has dropped the stream.
WriterFail(t) ==
    /\ task[t].writer = "writing"
    /\ "sender" \in cancelled \/ task[t].reader = "ended"
    /\ Mark("sender", "Failed")
    /\ SetTask(t, [task[t] EXCEPT !.writer = "failed",
                                  !.reader = IF @ = "no stream" THEN "ended" ELSE @])
    /\ UNCHANGED <<offered, cancelled, wire, stored, files, bounds>>

\* Its status saved, the receiver is told.
WriterTells(t) ==
    /\ task[t].writer = "failed"
    /\ Send("sender", Msg("cancel"))
    /\ SetTask(t, [task[t] EXCEPT !.writer = "ended"])
    /\ UNCHANGED <<manifest, offered, cancelled, stored, files, bounds>>

-----------------------------------------------------------------------------
(* The receiver's task: receive_file_stream_inner up to "record", then      *)
(* finalize_received_transfer                                               *)

At(t, reader) == task[t].reader = reader
Go(t, reader) == SetTask(t, [task[t] EXCEPT !.reader = reader])

\* open_chunk_sink creates the file if it is not there.
ReaderOpen(t) ==
    /\ At(t, "incoming")
    /\ SetTask(t, [task[t] EXCEPT !.reader = "check", !.sink = "part"])
    /\ part' = IF part = NoFile THEN {} ELSE part
    /\ UNCHANGED <<manifest, offered, cancelled, wire, stored, out, bounds>>

ReaderCheck(t) ==
    /\ At(t, "check")
    /\ Go(t, IF "receiver" \in cancelled THEN "ended" ELSE "read")
    /\ UNCHANGED <<manifest, offered, cancelled, wire, stored, files, bounds>>

\* A write waits for the one before, and returns before its bytes are in
\* the file.
ReaderRead(t) ==
    /\ At(t, "read")
    /\ task[t].read < task[t].next
    /\ task[t].buffer = 0
    /\ SetTask(t, [task[t] EXCEPT !.reader = "record", !.buffer = task[t].read])
    /\ UNCHANGED <<manifest, offered, cancelled, wire, stored, files, bounds>>

\* The stream ended inside the range.
ReaderCutOff(t) ==
    /\ At(t, "read")
    /\ task[t].read = task[t].next /\ task[t].writer \in {"failed", "ended"}
    /\ Go(t, "ended")
    /\ UNCHANGED <<manifest, offered, cancelled, wire, stored, files, bounds>>

\* record_received_chunk; a mutant that leaves saving to the end.
RecordUnsaved(c) ==
    /\ manifest' = [manifest EXCEPT !["receiver"] = Manifest("Accepted", @.done \cup {c})]
    /\ UNCHANGED stored
Record(c) == Save("receiver", Manifest("Accepted", manifest["receiver"].done \cup {c}))

ReaderRecord(t) ==
    /\ At(t, "record")
    /\ LET c == task[t].read
       IN /\ Record(c)
          /\ Send("receiver", Ack(c))
          /\ SetTask(t, [task[t] EXCEPT !.read = c + 1,
                                        !.reader = IF c = N THEN "flush" ELSE "check"])
    /\ UNCHANGED <<offered, cancelled, files, bounds>>

\* The bytes handed to a file reach it.
BufferLands(t) ==
    /\ task[t].buffer # 0
    /\ SetTask(t, [task[t] EXCEPT !.buffer = 0])
    /\ part' = IF task[t].sink = "part" THEN part \cup {task[t].buffer} ELSE part
    /\ out' = IF task[t].sink = "out" THEN out \cup {task[t].buffer} ELSE out
    /\ UNCHANGED <<manifest, offered, cancelled, wire, stored, bounds>>

\* The last chunk of the stream is flushed; whether the transfer is to be
\* finished is decided under the lock, and acted on outside of it.
ReaderFlush(t) ==
    /\ At(t, "flush")
    /\ task[t].buffer = 0
    /\ Go(t, IF manifest["receiver"].status # "Complete" /\ manifest["receiver"].done = Chunks
             THEN "hash" ELSE "ended")
    /\ UNCHANGED <<manifest, offered, cancelled, wire, stored, files, bounds>>

\* The hash of .part is that of the file only if it has every chunk; a mutant
\* that trusts what is recorded.
Trusted == part # NoFile
Verified == part = Chunks

\* There may be no .part to hash.
ReaderHash(t) ==
    /\ At(t, "hash")
    /\ IF Verified \/ part = NoFile
       THEN Go(t, IF Verified THEN "remove" ELSE "ended") /\ UNCHANGED manifest
       ELSE /\ Mark("receiver", "Failed")
            /\ SetTask(t, [task[t] EXCEPT !.reader = "save",
                                          !.copy = manifest["receiver"].done])
    /\ UNCHANGED <<offered, cancelled, wire, stored, files, bounds>>

ReaderSave(t) ==
    /\ At(t, "save")
    /\ SaveCopy(task[t].copy)
    /\ SetTask(t, [task[t] EXCEPT !.reader = "ended", !.copy = {}])
    /\ UNCHANGED <<manifest, offered, cancelled, wire, saving, files, bounds>>

\* Who has a file open keeps it when it is renamed or removed.
Reopened(sinkOf) == [u \in Sends |-> [task[u] EXCEPT !.sink = sinkOf[@]]]

ReaderRemove(t) ==
    /\ At(t, "remove")
    /\ out' = NoFile
    /\ task' = [Reopened([none |-> "none", part |-> "part", out |-> "gone", gone |-> "gone"])
                EXCEPT ![t].reader = "rename"]
    /\ UNCHANGED <<manifest, offered, cancelled, wire, stored, part, bounds>>

ReaderRename(t) ==
    /\ At(t, "rename")
    /\ part # NoFile
    /\ out' = part /\ part' = NoFile
    /\ task' = [Reopened([none |-> "none", part |-> "out", out |-> "gone", gone |-> "gone"])
                EXCEPT ![t].reader = "complete"]
    /\ UNCHANGED <<manifest, offered, cancelled, wire, stored, bounds>>

\* Another task has renamed .part meanwhile.
ReaderNoPart(t) ==
    /\ At(t, "rename")
    /\ part = NoFile
    /\ Go(t, "ended")
    /\ UNCHANGED <<manifest, offered, cancelled, wire, stored, files, bounds>>

ReaderComplete(t) ==
    /\ At(t, "complete")
    /\ SetStatus("receiver", "Complete")
    /\ Send("receiver", Msg("complete"))
    /\ Go(t, "ended")
    /\ UNCHANGED <<offered, cancelled, files, bounds>>

-----------------------------------------------------------------------------
(* The link is lost, or the receiver's program ends.  The state of the link *)
(* goes; bytes not yet in a file, and copies not yet saved, get there unless *)
(* the program has ended, and then the sidecar may be torn.                 *)
(* What is left of the old link ends before the next one carries the file.  *)
PendingCopies == (IF LoopIsSaving THEN {saving["receiver"].copy} ELSE {})
                 \cup {task[t].copy : t \in {u \in Sends : At(u, "save")}}

\* The receiver may be in the middle of writing its sidecar.
MayBeWriting == \/ offered \/ LoopIsSaving
                \/ manifest["receiver"].status \in {"Paused", "Failed"}
                \/ \E t \in Sends : task[t].reader \in {"record", "save", "complete"}

LinkDown ==
    /\ manifest # [p \in Peers |-> None]
    /\ events < MaxEvents
    /\ \E landing \in SUBSET {t \in Sends : task[t].buffer # 0} :
         LET bytes(sink) == {task[t].buffer : t \in {u \in landing : task[u].sink = sink}}
         IN /\ part' = part \cup bytes("part")
            /\ out' = out \cup bytes("out")
    /\ manifest' = [p \in Peers |-> None]
    /\ offered' = FALSE
    /\ cancelled' = {}
    /\ wire' = [p \in Peers |-> <<>>]
    /\ task' = [t \in Sends |-> NoTask]
    /\ saving' = [p \in Peers |-> Idle]
    /\ sidecar' \in {sidecar} \cup PendingCopies
    /\ torn' \in {torn, torn \/ MayBeWriting}
    /\ outdated' = FALSE
    /\ events' = events + 1
    /\ disturbed' = FALSE
    /\ UNCHANGED overlapped

Reader(t) == \/ ReaderOpen(t) \/ ReaderCheck(t) \/ ReaderRead(t) \/ ReaderCutOff(t)
             \/ ReaderRecord(t) \/ ReaderFlush(t) \/ ReaderHash(t) \/ ReaderSave(t)
             \/ ReaderRemove(t) \/ ReaderRename(t) \/ ReaderNoPart(t) \/ ReaderComplete(t)

Writer(t) == WriterStart(t) \/ WriterWrite(t) \/ WriterFail(t) \/ WriterTells(t)

\* The next control message of p, whatever it is.
Handle(p) ==
    /\ saving[p] = Idle
    /\ \/ p = "receiver" /\ HandleOffer
       \/ p = "sender" /\ (HandleAck \/ \E t \in Sends : HandleAccept(t))
       \/ HandleCancel(p) \/ HandleComplete(p)

User(p) ==
    /\ saving[p] = Idle
    /\ \/ p = "sender" /\ OfferFile
       \/ p = "receiver" /\ (AcceptOffer \/ AcceptFails \/ RejectOffer)
       \/ Pause(p) \/ Resume(p) \/ Cancel(p)

\* What the loop of p has begun with a pause, a cancel, or a message of one.
Finish(p) == (p = "receiver" /\ LoopSaves) \/ CancelTells(p) \/ PauseStops(p)

\* What goes on without the users: the loops, the tasks and the disk.
System == \/ \E p \in Peers : Handle(p) \/ Finish(p)
          \/ \E t \in Sends : Writer(t) \/ Reader(t) \/ BufferLands(t)

Next == (\E p \in Peers : User(p)) \/ System \/ LinkDown

Spec == Init /\ [][Next]_vars

\* It goes on as long as something of it can.  Without new events all of it
\* comes to an end, so no fairness between the tasks is needed.
FairSpec == Spec /\ WF_vars(System)

-----------------------------------------------------------------------------
(* Properties                                                              *)

\* At the chosen path there is the whole file or none: the receiver verifies
\* the hash of .part, and puts it there only then (README.md:263).
OutputIsWhole == out \in {Chunks, NoFile}

\* So it is as long as one send is over before the next one starts, through
\* pauses, cancels and a program that ended between recording a chunk and the
\* chunk reaching .part.
WholeUnlessOverlapped == overlapped \/ OutputIsWhole

\* And the sender reports the transfer complete only when the file is there
\* (finalize_received_transfer sends FileComplete last of all).
CompleteIsDelivered == manifest["sender"].status = "Complete" /\ ~overlapped => out = Chunks

\* A chunk the sender counts as received is in the receiver's sidecar: it was
\* saved before it was acknowledged (session.rs:1830-1845).
AckedIsSaved == manifest["sender"].done \subseteq sidecar

\* So it is unless an older manifest was saved over a newer one: a pause, a
\* cancel or a failure saves a copy after it has let go of the lock.
AckedIsRecorded == outdated \/ AckedIsSaved

\* What the receiver has recorded is in .part or on its way there.
Stored == sidecar \subseteq part \cup {task[t].buffer : t \in Sends}

Receiving == manifest["receiver"].status = "Accepted" /\ ~disturbed
Delivered == \A p \in Peers : manifest[p].status = "Complete"

\* A send with chunks missing, the first one or one that continues after a lost
\* link, is completed and delivered at both ends unless it is disturbed or the
\* link is lost.
ResumedCompletes ==
    (Receiving /\ Stored /\ manifest["receiver"].done # Chunks)
        ~> (Delivered /\ out = Chunks) \/ disturbed \/ manifest["receiver"] = None

\* The same with nothing missing any more: the receiver, or its link, was lost
\* between the last chunk and the delivery, or the file is sent a second time.
AcceptedCompletes ==
    Receiving /\ Stored ~> Delivered \/ disturbed \/ manifest["receiver"] = None

\* The transfer seen as a delivery of the file: its record, what the sender
\* counts, the chosen path and the sender's report.
Promise == INSTANCE FileDelivery
              WITH kept <- sidecar,
                   counted <- manifest["sender"].done,
                   file <- IF out = NoFile THEN "none"
                           ELSE IF out = Chunks THEN "whole" ELSE "damaged",
                   reported <- (manifest["sender"].status = "Complete"),
                   lapsed <- outdated,
                   overlap <- overlapped

\* Every step of the two peers, of their tasks and of the network is a step of
\* the delivery, or none: among them, that the file goes from the path only while
\* the sender does not report it (session.rs:1884-1912), that only what is
\* recorded is counted, and that a link that is lost adds nothing to the record.
ImplementsDelivery == Promise!Spec
=============================================================================
