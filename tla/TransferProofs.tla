--------------------------- MODULE TransferProofs ----------------------------
(***************************************************************************)
(* Proofs about Transfer, for a file of any size, any number of sends at   *)
(* once and any number of disturbances: that no acknowledged chunk is      *)
(* lost (AckedIsRecorded), the types, and that the file is delivered       *)
(* whole and reported only then (WholeUnlessOverlapped,                    *)
(* CompleteIsDelivered), in the steps of FileDelivery.                     *)
(*                                                                         *)
(* Acknowledged chunks. The sender learns what is done from                *)
(* acknowledgements alone. Each one under way is for a chunk of the        *)
(* sidecar, because the chunk is saved before it is acknowledged; and the  *)
(* sidecar never shrinks, as long as it is written from the manifest of    *)
(* the link, which starts from it and only grows. A pause, a cancel and a  *)
(* failure write a copy made earlier: when the manifest has grown since,   *)
(* that is what outdated stands for, and all of the above is about links   *)
(* on which it has not happened. The argument needs a manifest wherever    *)
(* the sidecar is written, so the invariant also says that a send is       *)
(* under way, or asked for, and a copy is to be saved, only while the      *)
(* receiver has one.                                                       *)
(*                                                                         *)
(* Delivery. The receiver verifies .part, removes the old file and         *)
(* renames .part to its path: four steps, and between them nothing but     *)
(* the bytes of that one send may reach .part. That is why the invariant   *)
(* counts the sends: as long as chunks are asked for only when no send is  *)
(* left and no request waits, there is one send at most, and a request is  *)
(* behind every report of an end. A send that is started and not through   *)
(* is therefore not reported, which is what keeps the sender's Complete    *)
(* true while the file of an earlier send is removed.                      *)
(*                                                                         *)
(* The refinement (ImplementsDelivery). Each step is one of FileDelivery   *)
(* or none, by what the two invariants say; a lost link adds nothing to    *)
(* the record because the copies it may leave were the manifest once, and  *)
(* the record has only grown since.                                        *)
(***************************************************************************)
EXTENDS Transfer, TLAPS

-----------------------------------------------------------------------------
(* The shapes of the values, as far as the proof looks at them             *)

Statuses == {"Offered", "Accepted", "Paused", "Complete", "Cancelled", "Failed"}
Places == {"no stream", "incoming", "check", "read", "record", "flush", "hash", "save",
           "remove", "rename", "complete", "ended"}
LManifests == [status: Statuses \cup {"None"}, done: SUBSET Int]
LTasks == [writer: {"spawned", "writing", "failed", "ended"}, next: Int, reader: Places,
           read: Int, sink: {"none", "part", "out", "gone"}, buffer: Int, copy: SUBSET Int]
LSavings == [then: {"idle", "return", "cancel", "pause", "tell", "stop"}, copy: SUBSET Int]
LMessages == [type: {"accept"}, done: SUBSET Int] \cup [type: {"ack"}, chunk: Int]
             \cup [type: {"offer", "reject", "cancel", "complete"}]

\* The receiver has accepted the transfer on this link.
Joined == manifest["receiver"].status # "None"

\* Unless an older copy was saved, the sidecar is the receiver's manifest, or
\* what an earlier link left, and has all that the sender knows of.
ManifestsOK == /\ manifest \in [Peers -> LManifests]
               /\ sidecar \in SUBSET Int
               /\ saving \in [Peers -> LSavings]
               /\ outdated \/ (Joined => manifest["receiver"].done = sidecar)
               /\ Joined \/ manifest["receiver"] = None
               /\ saving["receiver"].then # "idle" => Joined
               /\ AckedIsRecorded

\* An acknowledgement is for a recorded chunk; a send is asked for only after
\* the receiver has accepted.
Good(m) == /\ m.type = "ack" => outdated \/ m.chunk \in sidecar
           /\ m.type = "accept" => Joined

WireOK == /\ wire \in [Peers -> Seq(LMessages)]
          /\ \A i \in 1 .. Len(wire["sender"]) : Good(wire["sender"][i])

\* So is a send under way.
TasksOK == /\ task \in [Sends -> LTasks]
           /\ \A t \in Sends : task[t].reader # "ended" => Joined

RecordInv == ManifestsOK /\ WireOK /\ TasksOK

\* What a step does that only adds to what is recorded.
Grows == /\ outdated' \/ (~outdated /\ sidecar \subseteq sidecar')
         /\ Joined => Joined'

-----------------------------------------------------------------------------
(* The parts of a step: what happens to the manifests, the messages, the    *)
(* tasks                                                                   *)

LEMMA MessageShapes ==
    /\ \A d \in SUBSET Int : Accept(d) \in LMessages /\ Accept(d).type = "accept"
    /\ \A c \in Int : Ack(c) \in LMessages /\ Ack(c).type = "ack" /\ Ack(c).chunk = c
    /\ \A k \in {"offer", "reject", "cancel", "complete"} :
         Msg(k) \in LMessages /\ Msg(k).type = k
  BY DEF Accept, Ack, Msg, LMessages

\* A saved manifest has every chunk of the one before.
LEMMA SaveStep ==
    ASSUME RecordInv, NEW p \in Peers, NEW m \in LManifests, Save(p, m),
           p = "receiver" => m.status # "None" /\ (outdated \/ sidecar \subseteq m.done),
           p = "sender" => outdated \/ m.done \subseteq sidecar
    PROVE  ManifestsOK' /\ Grows
  BY DEF RecordInv, ManifestsOK, Save, Peers, LManifests, Joined, Grows, AckedIsRecorded,
         AckedIsSaved

LEMMA WithShape ==
    ASSUME RecordInv, NEW p \in Peers, NEW st \in Statuses
    PROVE  /\ With(p, st) \in LManifests
           /\ With(p, st).status = st /\ st # "None"
           /\ With(p, st).done = manifest[p].done
  BY DEF With, RecordInv, ManifestsOK, LManifests, Statuses

LEMMA StatusStep ==
    ASSUME RecordInv, NEW p \in Peers, NEW st \in Statuses, SetStatus(p, st),
           p = "receiver" => Joined
    PROVE  ManifestsOK' /\ Grows
  <1>1. /\ p = "receiver" => outdated \/ With(p, st).done = sidecar
        /\ p = "sender" => outdated \/ With(p, st).done \subseteq sidecar
    BY WithShape DEF RecordInv, ManifestsOK, AckedIsRecorded, AckedIsSaved
  <1>2. Save(p, With(p, st))
    BY DEF SetStatus
  <1> QED
    BY <1>1, <1>2, WithShape, SaveStep

\* Only the status changes, and perhaps a copy is made.
LEMMA MarkStep ==
    ASSUME RecordInv, NEW p \in Peers, NEW st \in Statuses, Mark(p, st),
           p = "receiver" => Joined, UNCHANGED <<sidecar, outdated>>,
           saving' \in [Peers -> LSavings], saving'["receiver"].then # "idle" => Joined
    PROVE  ManifestsOK' /\ Grows
  <1> DEFINE m == With(p, st)
  <1>1. m \in LManifests /\ m.status # "None" /\ m.done = manifest[p].done
    BY WithShape
  <1>2. manifest' = [manifest EXCEPT ![p] = m]
    BY DEF Mark
  <1> HIDE DEF m
  <1> QED
    BY <1>1, <1>2 DEF RecordInv, ManifestsOK, Peers, Joined, Grows, AckedIsRecorded,
                      AckedIsSaved

LEMMA MarkInLoopStep ==
    ASSUME RecordInv, NEW p \in Peers, NEW st \in Statuses,
           NEW then \in {"return", "cancel", "pause"}, MarkInLoop(p, st, then),
           p = "receiver" => Joined
    PROVE  ManifestsOK' /\ Grows
  <1> DEFINE e == IF p = "receiver" THEN [then |-> then, copy |-> manifest[p].done]
                  ELSE [Idle EXCEPT !.then = AfterSave(then)]
  <1>1. AfterSave(then) \in {"idle", "tell", "stop"}
    BY DEF AfterSave
  <1>2. e \in LSavings
    <2>1. manifest[p].done \in SUBSET Int
      BY DEF RecordInv, ManifestsOK, LManifests
    <2> QED
      BY <1>1, <2>1 DEF LSavings, Idle
  <1>3. saving' = [saving EXCEPT ![p] = e]
    BY DEF MarkInLoop
  <1> HIDE DEF e
  <1>4. /\ saving' \in [Peers -> LSavings]
        /\ saving'["receiver"].then # "idle" => Joined
    BY <1>2, <1>3 DEF RecordInv, ManifestsOK, Peers
  <1> QED
    BY <1>4, MarkStep DEF MarkInLoop

LEMMA ManifestsKept ==
    ASSUME RecordInv, UNCHANGED <<manifest, stored>>
    PROVE  ManifestsOK' /\ Grows
  BY DEF RecordInv, ManifestsOK, Joined, Grows, AckedIsRecorded, AckedIsSaved, stored

\* A saved copy is the manifest, or outdates the sidecar.
LEMMA CopyStep ==
    ASSUME RecordInv, NEW copy \in SUBSET Int, SaveCopy(copy), Joined, UNCHANGED manifest,
           saving' \in [Peers -> LSavings]
    PROVE  ManifestsOK' /\ Grows
  BY DEF RecordInv, ManifestsOK, SaveCopy, Joined, Grows, AckedIsRecorded, AckedIsSaved

\* The loop of p is through with what it began.
LEMMA IdleStep ==
    ASSUME RecordInv, NEW p \in Peers, UNCHANGED <<manifest, sidecar, outdated>>,
           saving' = [saving EXCEPT ![p] = Idle]
    PROVE  ManifestsOK' /\ Grows
  <1>1. Idle \in LSavings /\ Idle.then = "idle"
    BY DEF Idle, LSavings
  <1>2. /\ saving' \in [Peers -> LSavings]
        /\ saving'["receiver"].then # "idle" => saving["receiver"].then # "idle"
    BY <1>1 DEF RecordInv, ManifestsOK, Peers
  <1> QED
    BY <1>2 DEF RecordInv, ManifestsOK, Joined, Grows, AckedIsRecorded, AckedIsSaved

LEMMA CancelStep ==
    ASSUME RecordInv, NEW p \in Peers, NEW then \in {"return", "cancel"},
           MarkCancelled(p, then)
    PROVE  ManifestsOK' /\ Grows
  <1>1. CASE manifest[p] = None
    BY <1>1, ManifestsKept DEF MarkCancelled
  <1>2. CASE manifest[p] # None
    <2>1. MarkInLoop(p, "Cancelled", then)
      BY <1>2 DEF MarkCancelled
    <2>2. p = "receiver" => Joined
      BY <1>2 DEF RecordInv, ManifestsOK
    <2> QED
      BY <2>1, <2>2, MarkInLoopStep DEF Statuses
  <1> QED
    BY <1>1, <1>2

\* A message that was good stays good.
LEMMA GoodKept ==
    ASSUME RecordInv, Grows, NEW i \in 1 .. Len(wire["sender"]), NEW m, m = wire["sender"][i]
    PROVE  Good(m)'
  BY DEF RecordInv, WireOK, Good, Grows

LEMMA SendStep ==
    ASSUME RecordInv, Grows, NEW p \in Peers, NEW m \in LMessages, Send(p, m),
           p = "receiver" => Good(m)'
    PROVE  WireOK'
  <1> DEFINE s == wire["sender"]
  <1>1. s \in Seq(LMessages) /\ wire \in [Peers -> Seq(LMessages)]
    BY DEF RecordInv, WireOK, Peers
  <1>2. wire' \in [Peers -> Seq(LMessages)]
    BY <1>1 DEF Send, Peer, Peers
  <1>3. wire'["sender"] = IF p = "receiver" THEN Append(s, m) ELSE s
    BY <1>1 DEF Send, Peer, Peers
  <1>4. ASSUME NEW i \in 1 .. Len(wire'["sender"]), NEW e, e = wire'["sender"][i]
        PROVE  Good(e)'
    <2>1. CASE \E j \in 1 .. Len(s) : e = s[j]
      BY <2>1, GoodKept
    <2>2. CASE e = m /\ p = "receiver"
      BY <2>2
    <2>3. (\E j \in 1 .. Len(s) : e = s[j]) \/ (e = m /\ p = "receiver")
      <3> HIDE DEF s
      <3> QED
        BY <1>1, <1>3, <1>4
    <2> QED
      BY <2>1, <2>2, <2>3
  <1> QED
    BY <1>2, <1>4 DEF WireOK, Good

LEMMA TakeStep ==
    ASSUME RecordInv, Grows, NEW p \in Peers, wire[p] # <<>>, Take(p)
    PROVE  WireOK'
  <1> DEFINE s == wire["sender"]
  <1>1. s \in Seq(LMessages) /\ wire \in [Peers -> Seq(LMessages)]
    BY DEF RecordInv, WireOK, Peers
  <1>2. wire' \in [Peers -> Seq(LMessages)]
    BY <1>1 DEF Take, Peers
  <1>3. wire'["sender"] = IF p = "sender" THEN Tail(s) ELSE s
    BY <1>1 DEF Take, Peers
  <1>4. ASSUME NEW i \in 1 .. Len(wire'["sender"]), NEW e, e = wire'["sender"][i]
        PROVE  Good(e)'
    <2>1. p = "sender" => s # <<>>
      OBVIOUS
    <2>2. \E j \in 1 .. Len(s) : e = s[j]
      <3> HIDE DEF s
      <3> QED
        BY <1>1, <1>3, <1>4, <2>1
    <2> QED
      BY <2>2, GoodKept
  <1> QED
    BY <1>2, <1>4 DEF WireOK, Good

LEMMA WireKept ==
    ASSUME RecordInv, Grows, UNCHANGED wire
    PROVE  WireOK'
  <1>1. ASSUME NEW i \in 1 .. Len(wire["sender"]) PROVE Good(wire["sender"][i])'
    BY <1>1, GoodKept DEF Good
  <1> QED
    BY <1>1 DEF RecordInv, WireOK, Good

\* The message at the head of the sender's stream.
LEMMA HeadIsGood ==
    ASSUME RecordInv, wire["sender"] # <<>>
    PROVE  Head(wire["sender"]) \in LMessages /\ Good(Head(wire["sender"]))
  BY DEF RecordInv, WireOK, Peers

LEMMA NoTaskShape == NoTask \in LTasks /\ NoTask.reader = "ended"
  <1>1. NoTask \in LTasks
    BY DEF NoTask, LTasks, Places
  <1>2. NoTask.reader = "ended"
    BY DEF NoTask
  <1> QED
    BY <1>1, <1>2

\* Changing fields keeps the shape of a task.
LEMMA AcceptShape ==
    ASSUME NEW n \in Int
    PROVE  [NoTask EXCEPT !.writer = "spawned", !.next = n, !.reader = "no stream"] \in LTasks
  BY NoTaskShape DEF LTasks, Places

LEMMA WriteShape ==
    ASSUME NEW r \in LTasks, NEW n \in Int, NEW w \in {"writing", "ended"}
    PROVE  /\ [r EXCEPT !.next = n, !.writer = w] \in LTasks
           /\ [r EXCEPT !.next = n, !.writer = w].reader = r.reader
  BY DEF LTasks

LEMMA RecordShape ==
    ASSUME NEW r \in LTasks, NEW n \in Int, NEW k \in Places
    PROVE  [r EXCEPT !.read = n, !.reader = k] \in LTasks
  BY DEF LTasks

LEMMA LandShape ==
    ASSUME NEW r \in LTasks
    PROVE  /\ [r EXCEPT !.buffer = 0] \in LTasks
           /\ [r EXCEPT !.buffer = 0].reader = r.reader
  BY DEF LTasks

LEMMA CopyShape ==
    ASSUME NEW r \in LTasks, NEW k \in Places, NEW d \in SUBSET Int
    PROVE  [r EXCEPT !.reader = k, !.copy = d] \in LTasks
  BY DEF LTasks

\* A task goes on to r: it is over, or it was not over before.
LEMMA TaskStep ==
    ASSUME RecordInv, Grows, NEW t \in Sends, NEW r \in LTasks, SetTask(t, r),
           r.reader # "ended" => Joined
    PROVE  TasksOK'
  <1>1. PICK n \in LTasks : /\ task' = [task EXCEPT ![t] = n]
                            /\ n.reader # "ended" => Joined
    BY NoTaskShape DEF SetTask
  <1> QED
    BY <1>1 DEF RecordInv, TasksOK, Grows

LEMMA TasksKept ==
    ASSUME RecordInv, Grows, UNCHANGED task
    PROVE  TasksOK'
  BY DEF RecordInv, TasksOK, Grows

\* A step of the receiver's task that goes on to another place of its code.
LEMMA GoStep ==
    ASSUME RecordInv, NEW t \in Sends, NEW k \in Places, task[t].reader # "ended",
           Go(t, k), Grows
    PROVE  TasksOK'
  <1> DEFINE r == [task[t] EXCEPT !.reader = k]
  <1>1. r \in LTasks
    BY DEF RecordInv, TasksOK, LTasks
  <1>2. Joined
    BY DEF RecordInv, TasksOK
  <1>3. SetTask(t, r)
    BY DEF Go
  <1> HIDE DEF r
  <1> QED
    BY <1>1, <1>2, <1>3, TaskStep

\* Renaming and removing files changes no place in the code but t's.
LEMMA SinksStep ==
    ASSUME RecordInv, Grows, NEW t \in Sends, task[t].reader # "ended", NEW k \in Places,
           NEW f \in [{"none", "part", "out", "gone"} -> {"none", "part", "out", "gone"}],
           task' = [Reopened(f) EXCEPT ![t].reader = k]
    PROVE  TasksOK'
  <1>1. Reopened(f) \in [Sends -> LTasks]
    BY DEF Reopened, RecordInv, TasksOK, LTasks
  <1>2. \A u \in Sends : Reopened(f)[u].reader = task[u].reader
    BY DEF Reopened, RecordInv, TasksOK, LTasks
  <1>3. task' \in [Sends -> LTasks]
    BY <1>1 DEF LTasks
  <1>4. \A u \in Sends : task'[u].reader # "ended" => task[u].reader # "ended"
    BY <1>1, <1>2 DEF LTasks
  <1> QED
    BY <1>3, <1>4 DEF RecordInv, TasksOK, Grows

LEMMA ManifestShapes ==
    \A st \in Statuses, d \in SUBSET Int :
      /\ Manifest(st, d) \in LManifests
      /\ Manifest(st, d).status = st /\ Manifest(st, d).done = d /\ st # "None"
  BY DEF Manifest, LManifests, Statuses

LEMMA NoneShape == None \in LManifests /\ None.status = "None" /\ None.done = {}
  BY DEF None, Manifest, LManifests

\* Only acknowledgements and requests say something of the receiver.
LEMMA PlainIsGood ==
    \A k \in {"offer", "reject", "cancel", "complete"} : Good(Msg(k))'
  BY MessageShapes DEF Good

LEMMA AskStep ==
    ASSUME RecordInv, Grows, NEW d \in SUBSET Int, Ask(d), Joined'
    PROVE  WireOK'
  <1>1. Send("receiver", Accept(d))
    BY DEF Ask, Send, Peer
  <1>2. Good(Accept(d))'
    BY MessageShapes DEF Good
  <1> QED
    BY <1>1, <1>2, MessageShapes, SendStep DEF Peers

-----------------------------------------------------------------------------
(* Every action keeps the invariant                                        *)

LEMMA OfferFileKeeps ==
    ASSUME RecordInv, OfferFile
    PROVE  RecordInv'
  <1>1. ManifestsOK' /\ Grows
    BY SaveStep, ManifestShapes DEF OfferFile, Peers, Statuses
  <1>2. WireOK'
    BY <1>1, SendStep, MessageShapes DEF OfferFile, Peers
  <1>3. TasksOK'
    BY <1>1, TasksKept DEF OfferFile
  <1> QED
    BY <1>1, <1>2, <1>3 DEF RecordInv

LEMMA AcceptOfferKeeps ==
    ASSUME RecordInv, AcceptOffer
    PROVE  RecordInv'
  <1>a. sidecar \in SUBSET Int
    BY DEF RecordInv, ManifestsOK
  <1> DEFINE m == Manifest("Accepted", sidecar)
  <1>c. m \in LManifests /\ m.status = "Accepted" /\ m.done = sidecar
    BY <1>a, ManifestShapes DEF Statuses
  <1>d. Save("receiver", m)
    BY DEF AcceptOffer, Continued
  <1> HIDE DEF m
  <1>1. ManifestsOK' /\ Grows
    BY <1>c, <1>d, SaveStep DEF Peers
  <1>b. Joined'
    BY <1>c, <1>d DEF Save, RecordInv, ManifestsOK, Joined, Peers
  <1>2. WireOK'
    BY <1>1, <1>a, <1>b, AskStep DEF AcceptOffer
  <1>3. TasksOK'
    BY <1>1, TasksKept DEF AcceptOffer
  <1> QED
    BY <1>1, <1>2, <1>3 DEF RecordInv

LEMMA RejectOfferKeeps ==
    ASSUME RecordInv, RejectOffer
    PROVE  RecordInv'
  <1>1. ManifestsOK' /\ Grows
    BY ManifestsKept DEF RejectOffer
  <1>2. WireOK'
    BY <1>1, SendStep, MessageShapes, PlainIsGood DEF RejectOffer, Peers
  <1>3. TasksOK'
    BY <1>1, TasksKept DEF RejectOffer
  <1> QED
    BY <1>1, <1>2, <1>3 DEF RecordInv

LEMMA PauseKeeps ==
    ASSUME RecordInv, NEW p \in Peers, Pause(p)
    PROVE  RecordInv'
  <1>a. p = "receiver" => Joined
    BY DEF Pause, Joined
  <1>1. ManifestsOK' /\ Grows
    BY <1>a, MarkInLoopStep DEF Pause, Statuses
  <1>2. WireOK'
    BY <1>1, WireKept DEF Pause
  <1>3. TasksOK'
    BY <1>1, TasksKept DEF Pause
  <1> QED
    BY <1>1, <1>2, <1>3 DEF RecordInv

LEMMA ResumeKeeps ==
    ASSUME RecordInv, NEW p \in Peers, Resume(p)
    PROVE  RecordInv'
  <1>a. p = "receiver" => Joined
    BY DEF Resume, Joined
  <1>1. ManifestsOK' /\ Grows
    BY <1>a, StatusStep DEF Resume, Statuses
  <1>2. WireOK'
    <2>1. CASE p = "receiver"
      <3>1. manifest[p].done \in SUBSET Int
        BY DEF RecordInv, ManifestsOK, LManifests
      <3>2. Joined'
        BY <2>1, <1>a, <1>1 DEF Grows
      <3> QED
        BY <1>1, <2>1, <3>1, <3>2, AskStep DEF Resume
    <2>2. CASE p # "receiver"
      BY <1>1, <2>2, SendStep, MessageShapes DEF Resume
    <2> QED
      BY <2>1, <2>2
  <1>3. TasksOK'
    BY <1>1, TasksKept DEF Resume
  <1> QED
    BY <1>1, <1>2, <1>3 DEF RecordInv

LEMMA CancelKeeps ==
    ASSUME RecordInv, NEW p \in Peers, Cancel(p)
    PROVE  RecordInv'
  <1>1. ManifestsOK' /\ Grows
    BY CancelStep DEF Cancel
  <1>2. WireOK'
    BY <1>1, WireKept DEF Cancel
  <1>3. TasksOK'
    BY <1>1, TasksKept DEF Cancel
  <1> QED
    BY <1>1, <1>2, <1>3 DEF RecordInv

LEMMA LoopSavesKeeps ==
    ASSUME RecordInv, LoopSaves
    PROVE  RecordInv'
  <1> DEFINE then == saving["receiver"].then
             copy == saving["receiver"].copy
  <1>1. Joined /\ copy \in SUBSET Int
    BY DEF LoopSaves, LoopIsSaving, RecordInv, ManifestsOK, LSavings, Peers
  <1>2. saving' \in [Peers -> LSavings]
    <2>1. [Idle EXCEPT !.then = AfterSave(then)] \in LSavings
      BY DEF LoopSaves, LoopIsSaving, AfterSave, Idle, LSavings
    <2> QED
      BY <2>1 DEF LoopSaves, RecordInv, ManifestsOK
  <1>3. ManifestsOK' /\ Grows
    BY <1>1, <1>2, CopyStep DEF LoopSaves
  <1>4. WireOK'
    BY <1>3, WireKept DEF LoopSaves
  <1>5. TasksOK'
    BY <1>3, TasksKept DEF LoopSaves
  <1> QED
    BY <1>3, <1>4, <1>5 DEF RecordInv

LEMMA CancelTellsKeeps ==
    ASSUME RecordInv, NEW p \in Peers, CancelTells(p)
    PROVE  RecordInv'
  <1>1. ManifestsOK' /\ Grows
    BY IdleStep DEF CancelTells
  <1>2. WireOK'
    BY <1>1, SendStep, MessageShapes, PlainIsGood DEF CancelTells
  <1>3. TasksOK'
    BY <1>1, TasksKept DEF CancelTells
  <1> QED
    BY <1>1, <1>2, <1>3 DEF RecordInv

LEMMA PauseStopsKeeps ==
    ASSUME RecordInv, NEW p \in Peers, PauseStops(p)
    PROVE  RecordInv'
  <1>1. ManifestsOK' /\ Grows
    BY IdleStep DEF PauseStops
  <1>2. WireOK'
    BY <1>1, SendStep, MessageShapes, PlainIsGood DEF PauseStops
  <1>3. TasksOK'
    BY <1>1, TasksKept DEF PauseStops
  <1> QED
    BY <1>1, <1>2, <1>3 DEF RecordInv

LEMMA AcceptFailsKeeps ==
    ASSUME RecordInv, AcceptFails
    PROVE  RecordInv'
  <1>1. ManifestsOK' /\ Grows
    BY ManifestsKept DEF AcceptFails
  <1>2. WireOK'
    BY <1>1, WireKept DEF AcceptFails
  <1>3. TasksOK'
    BY <1>1, TasksKept DEF AcceptFails
  <1> QED
    BY <1>1, <1>2, <1>3 DEF RecordInv

LEMMA HandleOfferKeeps ==
    ASSUME RecordInv, HandleOffer
    PROVE  RecordInv'
  <1>1. ManifestsOK' /\ Grows
    BY ManifestsKept DEF HandleOffer
  <1>2. WireOK'
    BY <1>1, TakeStep DEF HandleOffer, Incoming, Peers
  <1>3. TasksOK'
    BY <1>1, TasksKept DEF HandleOffer
  <1> QED
    BY <1>1, <1>2, <1>3 DEF RecordInv

LEMMA HandleCancelKeeps ==
    ASSUME RecordInv, NEW p \in Peers, HandleCancel(p)
    PROVE  RecordInv'
  <1>1. ManifestsOK' /\ Grows
    BY CancelStep DEF HandleCancel
  <1>2. WireOK'
    BY <1>1, TakeStep DEF HandleCancel, Incoming
  <1>3. TasksOK'
    BY <1>1, TasksKept DEF HandleCancel
  <1> QED
    BY <1>1, <1>2, <1>3 DEF RecordInv

LEMMA HandleAckKeeps ==
    ASSUME RecordInv, HandleAck
    PROVE  RecordInv'
  <1> DEFINE h == Head(wire["sender"])
  <1>a. wire["sender"] # <<>> /\ h.type = "ack"
    BY DEF HandleAck, Incoming
  <1>b. h.chunk \in Int /\ (outdated \/ h.chunk \in sidecar)
    BY <1>a, HeadIsGood DEF Good, LMessages
  <1>c. /\ manifest["sender"].done \cup {h.chunk} \in SUBSET Int
        /\ outdated \/ manifest["sender"].done \subseteq sidecar
    BY <1>b DEF RecordInv, ManifestsOK, LManifests, AckedIsRecorded, AckedIsSaved, Peers
  <1>d. Save("sender", Manifest("Accepted", manifest["sender"].done \cup {h.chunk}))
    BY DEF HandleAck
  <1> HIDE DEF h
  <1>1. ManifestsOK' /\ Grows
    <2> DEFINE d == manifest["sender"].done \cup {h.chunk}
               m == Manifest("Accepted", d)
    <2>1. outdated \/ d \subseteq sidecar
      BY <1>b, <1>c
    <2>2. m \in LManifests /\ m.status = "Accepted" /\ m.done = d
      BY <1>c, ManifestShapes DEF Statuses
    <2>3. Save("sender", m)
      BY <1>d
    <2> HIDE DEF m, d
    <2> QED
      BY <2>1, <2>2, <2>3, SaveStep DEF Peers
  <1>2. WireOK'
    BY <1>1, <1>a, TakeStep DEF HandleAck, Peers
  <1>3. TasksOK'
    BY <1>1, TasksKept DEF HandleAck
  <1> QED
    BY <1>1, <1>2, <1>3 DEF RecordInv

LEMMA HandleCompleteKeeps ==
    ASSUME RecordInv, NEW p \in Peers, HandleComplete(p)
    PROVE  RecordInv'
  <1>1. ManifestsOK' /\ Grows
    BY StatusStep, ManifestsKept DEF HandleComplete, Statuses
  <1>2. WireOK'
    BY <1>1, TakeStep DEF HandleComplete, Incoming
  <1>3. TasksOK'
    BY <1>1, TasksKept DEF HandleComplete
  <1> QED
    BY <1>1, <1>2, <1>3 DEF RecordInv

LEMMA HandleAcceptKeeps ==
    ASSUME RecordInv, NEW t \in Sends, HandleAccept(t)
    PROVE  RecordInv'
  <1>1. ManifestsOK' /\ Grows
    BY ManifestsKept DEF HandleAccept
  <1>2. WireOK'
    BY <1>1, TakeStep DEF HandleAccept, Incoming, Peers
  <1>3. TasksOK'
    <2>1. Joined
      BY HeadIsGood DEF HandleAccept, Incoming, Good
    <2>2. PICK c \in 1 .. N + 1 : task' = [task EXCEPT ![t] = [NoTask EXCEPT !.writer = "spawned",
                                              !.next = c, !.reader = "no stream"]]
      BY DEF HandleAccept
    <2>3. [NoTask EXCEPT !.writer = "spawned", !.next = c, !.reader = "no stream"] \in LTasks
      <3>1. c \in Int
        BY ChunksAssumption
      <3> QED
        BY <3>1, AcceptShape
    <2> QED
      BY <1>1, <2>1, <2>2, <2>3 DEF RecordInv, TasksOK, Grows
  <1> QED
    BY <1>1, <1>2, <1>3 DEF RecordInv

LEMMA WriterStartKeeps ==
    ASSUME RecordInv, NEW t \in Sends, WriterStart(t)
    PROVE  RecordInv'
  <1>1. ManifestsOK' /\ Grows
    BY StatusStep DEF WriterStart, Started, Statuses, Peers
  <1>2. WireOK'
    <2>1. CASE task[t].next > N
      BY <1>1, <2>1, SendStep, MessageShapes DEF WriterStart, Peers
    <2>2. CASE ~ (task[t].next > N)
      BY <1>1, <2>2, WireKept DEF WriterStart
    <2> QED
      BY <2>1, <2>2
  <1>3. TasksOK'
    <2> DEFINE r1 == [task[t] EXCEPT !.writer = "ended", !.reader = "ended"]
               r2 == [task[t] EXCEPT !.writer = "writing"]
    <2>1. r1 \in LTasks /\ (r1.reader # "ended" => Joined)
      BY DEF WriterStart, At, RecordInv, TasksOK, LTasks, Places
    <2>2. r2 \in LTasks /\ (r2.reader # "ended" => Joined)
      BY DEF WriterStart, At, RecordInv, TasksOK, LTasks, Places
    <2>3. SetTask(t, r1) \/ SetTask(t, r2)
      BY DEF WriterStart
    <2> HIDE DEF r1, r2
    <2> QED
      BY <1>1, <2>1, <2>2, <2>3, TaskStep
  <1> QED
    BY <1>1, <1>2, <1>3 DEF RecordInv

LEMMA WriterWriteKeeps ==
    ASSUME RecordInv, NEW t \in Sends, WriterWrite(t)
    PROVE  RecordInv'
  <1>1. ManifestsOK' /\ Grows
    BY ManifestsKept DEF WriterWrite
  <1>2. WireOK'
    BY <1>1, WireKept DEF WriterWrite
  <1>3. TasksOK'
    <2> DEFINE c == task[t].next
               opened == IF task[t].reader = "no stream"
                         THEN [task[t] EXCEPT !.reader = "incoming", !.read = c] ELSE task[t]
               n == c + 1
               w == IF LastOfRange(c) THEN "ended" ELSE "writing"
               r == [opened EXCEPT !.next = n, !.writer = w]
    <2>1. task[t] \in LTasks /\ c \in Int /\ (task[t].reader # "ended" => Joined)
      BY DEF RecordInv, TasksOK, LTasks
    <2>2. opened \in LTasks /\ (opened.reader # "ended" => Joined)
      BY <2>1 DEF LTasks, Places
    <2>3. r \in LTasks /\ r.reader = opened.reader
      <3>1. n \in Int /\ w \in {"writing", "ended"}
        BY <2>1
      <3> HIDE DEF c, n, w, opened
      <3> QED
        BY <2>2, <3>1, WriteShape
    <2>4. SetTask(t, r)
      BY DEF WriterWrite
    <2> HIDE DEF r, opened
    <2> QED
      BY <1>1, <2>2, <2>3, <2>4, TaskStep
  <1> QED
    BY <1>1, <1>2, <1>3 DEF RecordInv

LEMMA WriterFailKeeps ==
    ASSUME RecordInv, NEW t \in Sends, WriterFail(t)
    PROVE  RecordInv'
  <1>1. ManifestsOK' /\ Grows
    BY MarkStep DEF WriterFail, stored, Statuses, Peers, RecordInv, ManifestsOK
  <1>2. WireOK'
    BY <1>1, WireKept DEF WriterFail
  <1>3. TasksOK'
    <2> DEFINE r1 == [task[t] EXCEPT !.writer = "failed",
                                      !.reader = IF @ = "no stream" THEN "ended" ELSE @]
    <2>1. r1 \in LTasks /\ (r1.reader # "ended" => Joined)
      BY DEF WriterFail, RecordInv, TasksOK, LTasks, Places
    <2>2. SetTask(t, r1)
      BY DEF WriterFail
    <2> HIDE DEF r1
    <2> QED
      BY <1>1, <2>1, <2>2, TaskStep
  <1> QED
    BY <1>1, <1>2, <1>3 DEF RecordInv

LEMMA WriterTellsKeeps ==
    ASSUME RecordInv, NEW t \in Sends, WriterTells(t)
    PROVE  RecordInv'
  <1>1. ManifestsOK' /\ Grows
    BY ManifestsKept DEF WriterTells
  <1>2. WireOK'
    BY <1>1, SendStep, MessageShapes DEF WriterTells, Peers
  <1>3. TasksOK'
    <2> DEFINE r1 == [task[t] EXCEPT !.writer = "ended"]
    <2>1. r1 \in LTasks /\ (r1.reader # "ended" => Joined)
      BY DEF RecordInv, TasksOK, LTasks
    <2>2. SetTask(t, r1)
      BY DEF WriterTells
    <2> HIDE DEF r1
    <2> QED
      BY <1>1, <2>1, <2>2, TaskStep
  <1> QED
    BY <1>1, <1>2, <1>3 DEF RecordInv

LEMMA ReaderOpenKeeps ==
    ASSUME RecordInv, NEW t \in Sends, ReaderOpen(t)
    PROVE  RecordInv'
  <1>1. ManifestsOK' /\ Grows
    BY ManifestsKept DEF ReaderOpen
  <1>2. WireOK'
    BY <1>1, WireKept DEF ReaderOpen
  <1>3. TasksOK'
    <2>1. PICK r \in LTasks : SetTask(t, r) /\ (task[t].reader = "ended" => r.reader = "ended")
      BY DEF ReaderOpen, At, RecordInv, TasksOK, LTasks, Places
    <2> QED
      BY <1>1, <2>1, TaskStep DEF RecordInv, TasksOK
  <1> QED
    BY <1>1, <1>2, <1>3 DEF RecordInv

LEMMA ReaderReadKeeps ==
    ASSUME RecordInv, NEW t \in Sends, ReaderRead(t)
    PROVE  RecordInv'
  <1>1. ManifestsOK' /\ Grows
    BY ManifestsKept DEF ReaderRead
  <1>2. WireOK'
    BY <1>1, WireKept DEF ReaderRead
  <1>3. TasksOK'
    <2>1. PICK r \in LTasks : SetTask(t, r) /\ (task[t].reader = "ended" => r.reader = "ended")
      BY DEF ReaderRead, At, RecordInv, TasksOK, LTasks, Places
    <2> QED
      BY <1>1, <2>1, TaskStep DEF RecordInv, TasksOK
  <1> QED
    BY <1>1, <1>2, <1>3 DEF RecordInv

LEMMA BufferLandsKeeps ==
    ASSUME RecordInv, NEW t \in Sends, BufferLands(t)
    PROVE  RecordInv'
  <1>1. ManifestsOK' /\ Grows
    BY ManifestsKept DEF BufferLands
  <1>2. WireOK'
    BY <1>1, WireKept DEF BufferLands
  <1>3. TasksOK'
    <2> DEFINE r1 == [task[t] EXCEPT !.buffer = 0]
    <2>1. r1 \in LTasks /\ (r1.reader # "ended" => Joined)
      <3>1. task[t] \in LTasks /\ (task[t].reader # "ended" => Joined)
        BY DEF RecordInv, TasksOK
      <3> QED
        BY <3>1, LandShape
    <2>2. SetTask(t, r1)
      BY DEF BufferLands
    <2> HIDE DEF r1
    <2> QED
      BY <1>1, <2>1, <2>2, TaskStep
  <1> QED
    BY <1>1, <1>2, <1>3 DEF RecordInv

LEMMA ReaderCheckKeeps ==
    ASSUME RecordInv, NEW t \in Sends, ReaderCheck(t)
    PROVE  RecordInv'
  <1>1. ManifestsOK' /\ Grows
    BY ManifestsKept DEF ReaderCheck
  <1>2. WireOK'
    BY <1>1, WireKept DEF ReaderCheck
  <1>3. TasksOK'
    BY <1>1, GoStep DEF ReaderCheck, At, Places
  <1> QED
    BY <1>1, <1>2, <1>3 DEF RecordInv

LEMMA ReaderCutOffKeeps ==
    ASSUME RecordInv, NEW t \in Sends, ReaderCutOff(t)
    PROVE  RecordInv'
  <1>1. ManifestsOK' /\ Grows
    BY ManifestsKept DEF ReaderCutOff
  <1>2. WireOK'
    BY <1>1, WireKept DEF ReaderCutOff
  <1>3. TasksOK'
    BY <1>1, GoStep DEF ReaderCutOff, At, Places
  <1> QED
    BY <1>1, <1>2, <1>3 DEF RecordInv

LEMMA ReaderFlushKeeps ==
    ASSUME RecordInv, NEW t \in Sends, ReaderFlush(t)
    PROVE  RecordInv'
  <1>1. ManifestsOK' /\ Grows
    BY ManifestsKept DEF ReaderFlush
  <1>2. WireOK'
    BY <1>1, WireKept DEF ReaderFlush
  <1>3. TasksOK'
    BY <1>1, GoStep DEF ReaderFlush, At, Places
  <1> QED
    BY <1>1, <1>2, <1>3 DEF RecordInv

LEMMA ReaderNoPartKeeps ==
    ASSUME RecordInv, NEW t \in Sends, ReaderNoPart(t)
    PROVE  RecordInv'
  <1>1. ManifestsOK' /\ Grows
    BY ManifestsKept DEF ReaderNoPart
  <1>2. WireOK'
    BY <1>1, WireKept DEF ReaderNoPart
  <1>3. TasksOK'
    BY <1>1, GoStep DEF ReaderNoPart, At, Places
  <1> QED
    BY <1>1, <1>2, <1>3 DEF RecordInv

LEMMA ReaderRecordKeeps ==
    ASSUME RecordInv, NEW t \in Sends, ReaderRecord(t)
    PROVE  RecordInv'
  <1>a. PICK c \in Int : c = task[t].read
    BY DEF RecordInv, TasksOK, LTasks
  <1>b. PICK d \in SUBSET Int : d = manifest["receiver"].done \cup {c}
    BY DEF RecordInv, ManifestsOK, LManifests, Peers
  <1>c. Joined /\ (outdated \/ sidecar \subseteq d)
    BY <1>b DEF ReaderRecord, At, RecordInv, TasksOK, ManifestsOK
  <1>d. Save("receiver", Manifest("Accepted", d)) /\ Send("receiver", Ack(c))
    BY <1>a, <1>b DEF ReaderRecord, Record
  <1>1. ManifestsOK' /\ Grows
    <2> DEFINE m == Manifest("Accepted", d)
    <2>1. m \in LManifests /\ m.status = "Accepted" /\ m.done = d
      BY ManifestShapes DEF Statuses
    <2>2. Save("receiver", m)
      BY <1>d
    <2> HIDE DEF m
    <2> QED
      BY <1>c, <2>1, <2>2, SaveStep DEF Peers
  <1>2. WireOK'
    <2>1. sidecar' = d
      BY <1>d, ManifestShapes DEF Save, Statuses
    <2>2. Good(Ack(c))'
      BY <1>b, <2>1, MessageShapes DEF Good
    <2> QED
      BY <1>1, <1>d, <2>2, SendStep, MessageShapes DEF Peers
  <1>3. TasksOK'
    <2> DEFINE n == c + 1
               k == IF c = N THEN "flush" ELSE "check"
               r == [task[t] EXCEPT !.read = n, !.reader = k]
    <2>1. r \in LTasks
      <3>1. task[t] \in LTasks
        BY DEF RecordInv, TasksOK
      <3>2. n \in Int /\ k \in Places
        BY DEF Places
      <3> HIDE DEF n, k
      <3> QED
        BY <3>1, <3>2, RecordShape
    <2>2. SetTask(t, r)
      BY <1>a DEF ReaderRecord
    <2> HIDE DEF r
    <2> QED
      BY <1>1, <1>c, <2>1, <2>2, TaskStep
  <1> QED
    BY <1>1, <1>2, <1>3 DEF RecordInv

LEMMA ReaderHashKeeps ==
    ASSUME RecordInv, NEW t \in Sends, ReaderHash(t)
    PROVE  RecordInv'
  <1>a. Joined
    BY DEF ReaderHash, At, RecordInv, TasksOK
  <1>1. ManifestsOK' /\ Grows
    <2>1. CASE UNCHANGED manifest
      BY <2>1, ManifestsKept DEF ReaderHash
    <2>2. CASE Mark("receiver", "Failed")
      BY <1>a, <2>2, MarkStep
      DEF ReaderHash, stored, Statuses, Peers, RecordInv, ManifestsOK
    <2> QED
      BY <2>1, <2>2 DEF ReaderHash
  <1>2. WireOK'
    BY <1>1, WireKept DEF ReaderHash
  <1>3. TasksOK'
    <2> DEFINE r1 == [task[t] EXCEPT !.reader = "save", !.copy = manifest["receiver"].done]
    <2>1. CASE \E k \in {"remove", "ended"} : Go(t, k)
      BY <1>1, <2>1, GoStep DEF ReaderHash, At, Places
    <2>2. CASE SetTask(t, r1)
      <3>1. r1 \in LTasks
        <4>1. manifest["receiver"].done \in SUBSET Int
          BY DEF RecordInv, ManifestsOK, LManifests, Peers
        <4> QED
          BY <4>1, CopyShape DEF RecordInv, TasksOK, Places
      <3> HIDE DEF r1
      <3> QED
        BY <1>a, <1>1, <2>2, <3>1, TaskStep
    <2> QED
      BY <2>1, <2>2 DEF ReaderHash
  <1> QED
    BY <1>1, <1>2, <1>3 DEF RecordInv

LEMMA ReaderSaveKeeps ==
    ASSUME RecordInv, NEW t \in Sends, ReaderSave(t)
    PROVE  RecordInv'
  <1>1. Joined /\ task[t].copy \in SUBSET Int
    BY DEF ReaderSave, At, RecordInv, TasksOK, LTasks
  <1>2. ManifestsOK' /\ Grows
    BY <1>1, CopyStep DEF ReaderSave, RecordInv, ManifestsOK
  <1>3. WireOK'
    BY <1>2, WireKept DEF ReaderSave
  <1>4. TasksOK'
    <2> DEFINE r1 == [task[t] EXCEPT !.reader = "ended", !.copy = {}]
    <2>1. r1 \in LTasks
      BY CopyShape DEF RecordInv, TasksOK, Places
    <2>2. SetTask(t, r1)
      BY DEF ReaderSave
    <2> HIDE DEF r1
    <2> QED
      BY <1>1, <1>2, <2>1, <2>2, TaskStep
  <1> QED
    BY <1>2, <1>3, <1>4 DEF RecordInv

LEMMA ReaderRemoveKeeps ==
    ASSUME RecordInv, NEW t \in Sends, ReaderRemove(t)
    PROVE  RecordInv'
  <1>1. ManifestsOK' /\ Grows
    BY ManifestsKept DEF ReaderRemove
  <1>2. WireOK'
    BY <1>1, WireKept DEF ReaderRemove
  <1>3. TasksOK'
    <2> DEFINE f == [none |-> "none", part |-> "part", out |-> "gone", gone |-> "gone"]
    <2>1. f \in [{"none", "part", "out", "gone"} -> {"none", "part", "out", "gone"}]
      OBVIOUS
    <2>2. task' = [Reopened(f) EXCEPT ![t].reader = "rename"] /\ task[t].reader # "ended"
      BY DEF ReaderRemove, At
    <2> HIDE DEF f
    <2> QED
      BY <1>1, <2>1, <2>2, SinksStep DEF Places
  <1> QED
    BY <1>1, <1>2, <1>3 DEF RecordInv

LEMMA ReaderRenameKeeps ==
    ASSUME RecordInv, NEW t \in Sends, ReaderRename(t)
    PROVE  RecordInv'
  <1>1. ManifestsOK' /\ Grows
    BY ManifestsKept DEF ReaderRename
  <1>2. WireOK'
    BY <1>1, WireKept DEF ReaderRename
  <1>3. TasksOK'
    <2> DEFINE f == [none |-> "none", part |-> "out", out |-> "gone", gone |-> "gone"]
    <2>1. f \in [{"none", "part", "out", "gone"} -> {"none", "part", "out", "gone"}]
      OBVIOUS
    <2>2. task' = [Reopened(f) EXCEPT ![t].reader = "complete"] /\ task[t].reader # "ended"
      BY DEF ReaderRename, At
    <2> HIDE DEF f
    <2> QED
      BY <1>1, <2>1, <2>2, SinksStep DEF Places
  <1> QED
    BY <1>1, <1>2, <1>3 DEF RecordInv

LEMMA ReaderCompleteKeeps ==
    ASSUME RecordInv, NEW t \in Sends, ReaderComplete(t)
    PROVE  RecordInv'
  <1>a. Joined
    BY DEF ReaderComplete, At, RecordInv, TasksOK
  <1>1. ManifestsOK' /\ Grows
    BY <1>a, StatusStep DEF ReaderComplete, Statuses, Peers
  <1>2. WireOK'
    BY <1>1, SendStep, MessageShapes, PlainIsGood DEF ReaderComplete, Peers
  <1>3. TasksOK'
    BY <1>1, GoStep DEF ReaderComplete, At, Places
  <1> QED
    BY <1>1, <1>2, <1>3 DEF RecordInv

LEMMA LinkDownKeeps ==
    ASSUME RecordInv, LinkDown
    PROVE  RecordInv'
  <1>1. ManifestsOK'
    <2>1. \A d \in PendingCopies : d \in SUBSET Int
      BY DEF PendingCopies, RecordInv, ManifestsOK, TasksOK, LSavings, LTasks, Peers
    <2>2. sidecar' \in SUBSET Int
      BY <2>1 DEF LinkDown, RecordInv, ManifestsOK
    <2>3. saving' \in [Peers -> LSavings] /\ saving'["receiver"].then = "idle"
      BY DEF LinkDown, Idle, LSavings, Peers
    <2> QED
      BY <2>2, <2>3, NoneShape
      DEF LinkDown, ManifestsOK, Joined, AckedIsRecorded, AckedIsSaved, Peers
  <1>2. WireOK'
    BY DEF LinkDown, WireOK, Peers
  <1>3. TasksOK'
    BY NoTaskShape DEF LinkDown, TasksOK
  <1> QED
    BY <1>1, <1>2, <1>3 DEF RecordInv

-----------------------------------------------------------------------------
(* The theorems                                                            *)

\* The inductive invariant: unless an older copy was saved, the sidecar is what
\* the receiver has recorded on this link or an earlier one, and acknowledgements follow it.
THEOREM RecordInvariant == Spec => []RecordInv
  <1>1. Init => RecordInv
    <2>1. Idle \in LSavings /\ Idle.then = "idle"
      BY DEF Idle, LSavings
    <2> QED
      BY <2>1, NoneShape, NoTaskShape
      DEF Init, RecordInv, ManifestsOK, WireOK, TasksOK, Joined, AckedIsRecorded,
          AckedIsSaved, Peers
  <1>2. RecordInv /\ [Next]_vars => RecordInv'
    <2> SUFFICES ASSUME RecordInv, [Next]_vars PROVE RecordInv'
      OBVIOUS
    <2>1. ASSUME NEW p \in Peers, User(p) PROVE RecordInv'
      BY <2>1, OfferFileKeeps, AcceptOfferKeeps, AcceptFailsKeeps, RejectOfferKeeps,
         PauseKeeps, ResumeKeeps, CancelKeeps DEF User
    <2>2. ASSUME NEW p \in Peers, Handle(p) PROVE RecordInv'
      BY <2>2, HandleOfferKeeps, HandleAckKeeps, HandleAcceptKeeps, HandleCancelKeeps,
         HandleCompleteKeeps DEF Handle
    <2>3. ASSUME NEW p \in Peers, Finish(p) PROVE RecordInv'
      BY <2>3, LoopSavesKeeps, CancelTellsKeeps, PauseStopsKeeps DEF Finish
    <2>4. ASSUME NEW t \in Sends, Writer(t) PROVE RecordInv'
      BY <2>4, WriterStartKeeps, WriterWriteKeeps, WriterFailKeeps, WriterTellsKeeps DEF Writer
    <2>5. ASSUME NEW t \in Sends, Reader(t) PROVE RecordInv'
      BY <2>5, ReaderOpenKeeps, ReaderCheckKeeps, ReaderReadKeeps, ReaderCutOffKeeps,
         ReaderRecordKeeps, ReaderFlushKeeps, ReaderHashKeeps, ReaderSaveKeeps,
         ReaderRemoveKeeps, ReaderRenameKeeps, ReaderNoPartKeeps, ReaderCompleteKeeps DEF Reader
    <2>6. CASE UNCHANGED vars
      <3>1. ManifestsOK' /\ Grows
        BY <2>6, ManifestsKept DEF vars, stored
      <3>2. WireOK' /\ TasksOK'
        BY <2>6, <3>1, WireKept, TasksKept DEF vars
      <3> QED
        BY <3>1, <3>2 DEF RecordInv
    <2> QED
      BY <2>1, <2>2, <2>3, <2>4, <2>5, <2>6, BufferLandsKeeps, LinkDownKeeps DEF Next, System
  <1> QED
    BY <1>1, <1>2, PTL DEF Spec

\* What the sender counts as received is in the receiver's sidecar, unless an
\* older copy of the manifest was saved on this link.
THEOREM NothingAckedIsLost == Spec => []AckedIsRecorded
  <1>1. RecordInv => AckedIsRecorded
    BY DEF RecordInv, ManifestsOK
  <1> QED
    BY <1>1, RecordInvariant, PTL
-----------------------------------------------------------------------------
(* Types.  Beyond TypeOK: how far a task is says which chunk it is at, and   *)
(* the file that a task has open is there.                                  *)

Early == {"incoming", "check", "read", "record"}
Late == {"hash", "remove", "rename", "complete"}

\* A stream is opened with the first chunk to send; the file is hashed,
\* and delivered, after the last byte was flushed.
Formed(r) ==
    /\ r.writer = "spawned" => r.next \in 1 .. N + 1 /\ r.reader = "no stream"
    /\ r.writer = "writing" => r.next \in Chunks
    /\ r.reader \in Early => r.read \in Chunks
    /\ r.reader \in Late => r.buffer = 0

Recorded == /\ manifest \in [Peers -> Manifests]
            /\ saving \in [Peers -> Savings]
            /\ sidecar \subseteq Chunks
            /\ torn \in BOOLEAN
            /\ outdated \in BOOLEAN
Budget == /\ events \in 0 .. MaxEvents
          /\ disturbed \in BOOLEAN
          /\ overlapped \in BOOLEAN
Loops == /\ Recorded /\ Budget
         /\ offered \in BOOLEAN
         /\ cancelled \subseteq Peers
         /\ wire \in [Peers -> Seq(Messages)]
FilesOf(r) == (r.sink = "part" => part # NoFile) /\ (r.sink = "out" => out # NoFile)
Disk == {part, out} \subseteq (SUBSET Chunks) \cup {NoFile}
AtWork == \A t \in Sends : Formed(task[t]) /\ FilesOf(task[t])
Typed == Loops /\ Disk /\ task \in [Sends -> Tasks] /\ AtWork

LEMMA SmallFacts ==
    /\ N \in Nat /\ N >= 1
    /\ 0 \notin Chunks /\ Chunks \subseteq Int /\ Chunks # NoFile /\ {} # NoFile
    /\ Chunks \in SUBSET Chunks /\ 1 \in Chunks /\ N \in Chunks
  <1>1. N \in Nat /\ N >= 1
    BY ChunksAssumption
  <1>2. 0 \notin Chunks /\ 1 \in Chunks /\ N \in Chunks /\ Chunks \subseteq Int
    BY <1>1 DEF Chunks
  <1> HIDE DEF Chunks
  <1> QED
    BY <1>1, <1>2 DEF NoFile

LEMMA ManifestTypes ==
    /\ \A st \in Statuses, d \in SUBSET Chunks : Manifest(st, d) \in Manifests
    /\ \A st \in Statuses, m \in Manifests : [m EXCEPT !.status = st] \in Manifests
    /\ \A m \in Manifests : m.done \in SUBSET Chunks
    /\ None \in Manifests
  BY DEF Manifest, Manifests, None, Statuses

LEMMA MessageTypes ==
    /\ \A d \in SUBSET Chunks : Accept(d) \in Messages /\ Accept(d).type = "accept"
    /\ \A c \in Chunks : Ack(c) \in Messages /\ Ack(c).type = "ack"
    /\ \A k \in {"offer", "reject", "cancel", "complete"} : Msg(k) \in Messages /\ Msg(k).type = k
  BY DEF Accept, Ack, Msg, Messages

\* What the steps of a loop or a task do to the manifests.
LEMMA SaveTypes ==
    ASSUME Recorded, NEW p \in Peers, NEW m \in Manifests, Save(p, m)
    PROVE  Recorded'
  BY ManifestTypes DEF Recorded, Save

LEMMA StatusTypes ==
    ASSUME Recorded, NEW p \in Peers, NEW st \in Statuses, SetStatus(p, st)
    PROVE  Recorded'
  <1>1. With(p, st) \in Manifests
    BY ManifestTypes DEF With, Recorded
  <1> QED
    BY <1>1, SaveTypes DEF SetStatus

LEMMA MarkTypes ==
    ASSUME Recorded, NEW p \in Peers, NEW st \in Statuses, Mark(p, st)
    PROVE  manifest' \in [Peers -> Manifests]
  <1>1. With(p, st) \in Manifests
    BY ManifestTypes DEF With, Recorded
  <1> QED
    BY <1>1 DEF Mark, Recorded

LEMMA InLoopTypes ==
    ASSUME Recorded, NEW p \in Peers, NEW st \in Statuses,
           NEW then \in {"return", "cancel", "pause"}, MarkInLoop(p, st, then)
    PROVE  Recorded'
  <1> DEFINE e == IF p = "receiver" THEN [then |-> then, copy |-> manifest[p].done]
                  ELSE [Idle EXCEPT !.then = AfterSave(then)]
  <1>1. e \in Savings
    <2>1. AfterSave(then) \in {"idle", "tell", "stop"}
      BY DEF AfterSave
    <2>2. manifest[p].done \in SUBSET Chunks
      BY ManifestTypes DEF Recorded
    <2> QED
      BY <2>1, <2>2 DEF Savings, Idle
  <1>2. saving' = [saving EXCEPT ![p] = e]
    BY DEF MarkInLoop
  <1> HIDE DEF e
  <1> QED
    BY <1>1, <1>2, MarkTypes DEF Recorded, MarkInLoop

LEMMA CancelledTypes ==
    ASSUME Loops, NEW p \in Peers, NEW then \in {"return", "cancel"}, MarkCancelled(p, then)
    PROVE  Recorded' /\ cancelled' \subseteq Peers /\ offered' \in BOOLEAN
  BY InLoopTypes DEF MarkCancelled, Loops, Recorded, stored, Statuses

LEMMA CopyTypes ==
    ASSUME Recorded, NEW copy \in SUBSET Chunks, SaveCopy(copy), UNCHANGED manifest,
           saving' \in [Peers -> Savings]
    PROVE  Recorded'
  BY DEF Recorded, SaveCopy

LEMMA IdleTypes ==
    ASSUME Recorded, NEW p \in Peers, UNCHANGED <<manifest, sidecar, torn, outdated>>,
           saving' = [saving EXCEPT ![p] = Idle]
    PROVE  Recorded'
  <1>1. Idle \in Savings
    BY DEF Idle, Savings
  <1> QED
    BY <1>1 DEF Recorded

LEMMA RecordedKept ==
    ASSUME Recorded, UNCHANGED <<manifest, stored>>
    PROVE  Recorded'
  BY DEF Recorded, stored

\* What they do to the messages and to the bounds.
LEMMA SendTypes ==
    ASSUME Loops, NEW p \in Peers, NEW m \in Messages, Send(p, m)
    PROVE  wire' \in [Peers -> Seq(Messages)]
  <1>1. Peer(p) \in Peers /\ Append(wire[Peer(p)], m) \in Seq(Messages)
    <2>1. Peer(p) \in Peers
      BY DEF Peer, Peers
    <2>2. wire[Peer(p)] \in Seq(Messages)
      BY <2>1 DEF Loops
    <2> QED
      BY <2>1, <2>2
  <1> QED
    BY <1>1 DEF Send, Loops

LEMMA TakeTypes ==
    ASSUME Loops, NEW p \in Peers, wire[p] # <<>>, Take(p)
    PROVE  wire' \in [Peers -> Seq(Messages)]
  <1>1. Tail(wire[p]) \in Seq(Messages)
    BY DEF Loops
  <1> QED
    BY <1>1 DEF Take, Loops

LEMMA AskTypes ==
    ASSUME Loops, NEW d \in SUBSET Chunks, Ask(d)
    PROVE  wire' \in [Peers -> Seq(Messages)] /\ overlapped' \in BOOLEAN
  <1>1. Send("receiver", Accept(d))
    BY DEF Ask, Send, Peer
  <1>2. wire' \in [Peers -> Seq(Messages)]
    BY <1>1, MessageTypes, SendTypes DEF Peers
  <1>3. overlapped' \in BOOLEAN
    BY DEF Ask, Loops, Budget
  <1> QED
    BY <1>2, <1>3

LEMMA EventTypes ==
    ASSUME Budget, Event, overlapped' \in BOOLEAN
    PROVE  Budget'
  BY BoundsAssumption DEF Budget, Event

LEMMA BudgetKept ==
    ASSUME Budget, UNCHANGED <<events, disturbed>>, overlapped' \in BOOLEAN
    PROVE  Budget'
  BY DEF Budget

LEMMA HeadTypes ==
    ASSUME Loops, NEW p \in Peers, wire[p] # <<>>
    PROVE  /\ Head(wire[p]) \in Messages
           /\ Head(wire[p]).type = "ack" => Head(wire[p]).chunk \in Chunks
           /\ Head(wire[p]).type = "accept" => Head(wire[p]).done \in SUBSET Chunks
  <1>1. Head(wire[p]) \in Messages
    BY DEF Loops
  <1> QED
    BY <1>1 DEF Messages

\* A task goes on to r.
LEMMA NoTaskTypes ==
    /\ NoTask \in Tasks /\ Formed(NoTask) /\ FilesOf(NoTask)
    /\ NoTask.sink = "none" /\ NoTask.reader = "ended" /\ NoTask.writer = "ended"
    /\ NoTask.buffer = 0
  <1>1. NoTask \in Tasks
    BY SmallFacts DEF NoTask, Tasks
  <1>2. /\ NoTask.sink = "none" /\ NoTask.reader = "ended" /\ NoTask.writer = "ended"
        /\ NoTask.buffer = 0
    BY DEF NoTask
  <1>3. Formed(NoTask) /\ FilesOf(NoTask)
    BY <1>2 DEF Formed, FilesOf, Early, Late
  <1> QED
    BY <1>1, <1>2, <1>3

LEMMA TaskTypes ==
    ASSUME Typed, NEW t \in Sends, NEW r \in Tasks, SetTask(t, r), Formed(r),
           (r.sink = "part" => part' # NoFile) /\ (r.sink = "out" => out' # NoFile),
           part # NoFile => part' # NoFile, out # NoFile => out' # NoFile
    PROVE  task' \in [Sends -> Tasks] /\ AtWork'
  <1>1. PICK n \in Tasks : /\ task' = [task EXCEPT ![t] = n]
                           /\ n = r \/ n = NoTask
    BY NoTaskTypes DEF SetTask
  <1>2. /\ Formed(n)
        /\ (n.sink = "part" => part' # NoFile) /\ (n.sink = "out" => out' # NoFile)
    BY <1>1, NoTaskTypes
  <1>3. task' \in [Sends -> Tasks]
    BY <1>1 DEF Typed
  <1>4. ASSUME NEW u \in Sends
        PROVE  /\ Formed(task[u])'
               /\ (task'[u].sink = "part" => part' # NoFile)
               /\ (task'[u].sink = "out" => out' # NoFile)
    <2>1. task'[u] = n \/ task'[u] = task[u]
      BY <1>1 DEF Typed
    <2>2. Formed(task[u]) /\ FilesOf(task[u])
      BY DEF Typed, AtWork
    <2> QED
      BY <1>2, <2>1, <2>2 DEF Formed, FilesOf
  <1>5. AtWork'
    BY <1>4 DEF AtWork, FilesOf
  <1> QED
    BY <1>3, <1>5

LEMMA TaskFields ==
    ASSUME Typed, NEW t \in Sends
    PROVE  /\ task[t] \in Tasks
           /\ Formed(task[t])
           /\ (task[t].sink = "part" => part # NoFile) /\ (task[t].sink = "out" => out # NoFile)
           /\ task[t].copy \in SUBSET Chunks
           /\ task[t].buffer \in 0 .. N
  BY DEF Typed, AtWork, FilesOf, Tasks

\* Only the tasks change; only the loops do.
LEMMA TasksOnly ==
    ASSUME Typed, Loops', UNCHANGED files, NEW t \in Sends, NEW r \in Tasks, SetTask(t, r),
           Formed(r), r.sink = task[t].sink
    PROVE  Typed'
  BY TaskTypes, TaskFields DEF Typed, Disk, files

LEMMA LoopsOnly ==
    ASSUME Typed, Loops', UNCHANGED <<task, files>>
    PROVE  Typed'
  BY DEF Typed, Disk, AtWork, Formed, FilesOf, files

LEMMA GoTypes ==
    ASSUME Typed, Loops', UNCHANGED files, NEW t \in Sends, NEW k \in Places, Go(t, k),
           k \in Early => task[t].read \in Chunks, k \in Late => task[t].buffer = 0,
           task[t].reader # "no stream"
    PROVE  Typed'
  <1> DEFINE r == [task[t] EXCEPT !.reader = k]
  <1>1. /\ r \in Tasks /\ r.sink = task[t].sink
        /\ r.reader = k /\ r.writer = task[t].writer /\ r.next = task[t].next
        /\ r.read = task[t].read /\ r.buffer = task[t].buffer
    BY TaskFields DEF Tasks, Places
  <1>2. SetTask(t, r)
    BY DEF Go
  <1> HIDE DEF r
  <1>3. Formed(r)
    BY <1>1, TaskFields DEF Formed
  <1> QED
    BY <1>1, <1>2, <1>3, TasksOnly

\* Every action keeps the types.
LEMMA UserTypes ==
    ASSUME Typed, NEW p \in Peers, User(p)
    PROVE  Typed'
  <1> USE DEF Typed, Loops
  <1>a. ASSUME UNCHANGED overlapped, Budget PROVE overlapped' \in BOOLEAN
    BY <1>a DEF Budget
  <1>b. {} \in SUBSET Chunks
    OBVIOUS
  <1>1. CASE OfferFile
    <2>1. Recorded'
      BY <1>1, <1>b, ManifestTypes, SaveTypes DEF OfferFile, Peers, Statuses
    <2>2. wire' \in [Peers -> Seq(Messages)]
      BY <1>1, MessageTypes, SendTypes DEF OfferFile, Peers
    <2>3. Budget'
      BY <1>1, <1>a, EventTypes, BudgetKept DEF OfferFile
    <2> QED
      BY <1>1, <2>1, <2>2, <2>3, LoopsOnly DEF OfferFile
  <1>2. CASE AcceptOffer
    <2>a. sidecar \in SUBSET Chunks
      BY DEF Recorded
    <2>1. Recorded'
      BY <1>2, <2>a, ManifestTypes, SaveTypes DEF AcceptOffer, Continued, Peers, Statuses
    <2>2. wire' \in [Peers -> Seq(Messages)] /\ overlapped' \in BOOLEAN
      BY <1>2, <2>a, AskTypes DEF AcceptOffer
    <2>3. Budget'
      BY <1>2, <2>2, BudgetKept DEF AcceptOffer
    <2> QED
      BY <1>2, <2>1, <2>2, <2>3, LoopsOnly DEF AcceptOffer
  <1>3. CASE AcceptFails
    BY <1>3, <1>a, LoopsOnly, RecordedKept, BudgetKept DEF AcceptFails, bounds
  <1>4. CASE RejectOffer
    <2>1. wire' \in [Peers -> Seq(Messages)]
      BY <1>4, MessageTypes, SendTypes DEF RejectOffer, Peers
    <2> QED
      BY <1>4, <1>a, <2>1, LoopsOnly, RecordedKept, EventTypes DEF RejectOffer
  <1>5. CASE Pause(p)
    <2>1. Recorded'
      BY <1>5, InLoopTypes DEF Pause, Statuses
    <2> QED
      BY <1>5, <1>a, <2>1, LoopsOnly, EventTypes DEF Pause
  <1>6. CASE Resume(p)
    <2>a. manifest[p].done \in SUBSET Chunks
      BY ManifestTypes DEF Recorded
    <2>1. Recorded'
      BY <1>6, StatusTypes DEF Resume, Statuses
    <2>2. wire' \in [Peers -> Seq(Messages)] /\ overlapped' \in BOOLEAN
      BY <1>6, <1>a, <2>a, AskTypes, MessageTypes, SendTypes DEF Resume
    <2>3. Budget'
      BY <1>6, <2>2, EventTypes DEF Resume
    <2> QED
      BY <1>6, <2>1, <2>2, <2>3, LoopsOnly DEF Resume
  <1>7. CASE Cancel(p)
    <2>1. Recorded' /\ cancelled' \subseteq Peers /\ offered' \in BOOLEAN
      BY <1>7, CancelledTypes DEF Cancel
    <2> QED
      BY <1>7, <1>a, <2>1, LoopsOnly, EventTypes DEF Cancel
  <1> QED
    BY <1>1, <1>2, <1>3, <1>4, <1>5, <1>6, <1>7 DEF User

LEMMA FinishTypes ==
    ASSUME Typed, NEW p \in Peers, Finish(p)
    PROVE  Typed'
  <1> USE DEF Typed, Loops
  <1>a. overlapped \in BOOLEAN
    BY DEF Budget
  <1>1. CASE LoopSaves
    <2>1. saving["receiver"].copy \in SUBSET Chunks
      BY DEF Recorded, Savings, Peers
    <2>2. saving' \in [Peers -> Savings]
      <3>1. [Idle EXCEPT !.then = AfterSave(saving["receiver"].then)] \in Savings
        BY <1>1 DEF LoopSaves, LoopIsSaving, AfterSave, Idle, Savings
      <3> QED
        BY <1>1, <3>1 DEF LoopSaves, Recorded
    <2>3. Recorded'
      BY <1>1, <2>1, <2>2, CopyTypes DEF LoopSaves
    <2> QED
      BY <1>1, <1>a, <2>3, LoopsOnly, BudgetKept DEF LoopSaves, bounds
  <1>2. CASE CancelTells(p)
    <2>1. wire' \in [Peers -> Seq(Messages)]
      BY <1>2, MessageTypes, SendTypes DEF CancelTells
    <2> QED
      BY <1>2, <1>a, <2>1, LoopsOnly, IdleTypes, BudgetKept DEF CancelTells, bounds
  <1>3. CASE PauseStops(p)
    <2>1. wire' \in [Peers -> Seq(Messages)]
      BY <1>3, MessageTypes, SendTypes DEF PauseStops
    <2> QED
      BY <1>3, <1>a, <2>1, LoopsOnly, IdleTypes, BudgetKept DEF PauseStops, bounds
  <1> QED
    BY <1>1, <1>2, <1>3 DEF Finish

LEMMA HandleTypes ==
    ASSUME Typed, NEW p \in Peers, Handle(p)
    PROVE  Typed'
  <1> USE DEF Typed, Loops
  <1>a. overlapped \in BOOLEAN
    BY DEF Budget
  <1>1. CASE HandleOffer
    BY <1>1, <1>a, TakeTypes, LoopsOnly, RecordedKept, BudgetKept
    DEF HandleOffer, Incoming, bounds, Peers
  <1>2. CASE HandleAck
    <2> DEFINE h == Head(wire["sender"])
               d == manifest["sender"].done \cup {h.chunk}
    <2>1. wire["sender"] # <<>> /\ h.type = "ack"
      BY <1>2 DEF HandleAck, Incoming
    <2>2. h.chunk \in Chunks
      BY <2>1, HeadTypes DEF Peers
    <2>3. d \in SUBSET Chunks
      BY <2>2, ManifestTypes DEF Recorded, Peers
    <2>4. Save("sender", Manifest("Accepted", d))
      BY <1>2 DEF HandleAck
    <2> HIDE DEF h, d
    <2>5. Recorded'
      BY <2>3, <2>4, ManifestTypes, SaveTypes DEF Peers, Statuses
    <2>6. wire' \in [Peers -> Seq(Messages)]
      BY <1>2, <2>1, TakeTypes DEF HandleAck, Peers
    <2> QED
      BY <1>2, <1>a, <2>5, <2>6, LoopsOnly, BudgetKept DEF HandleAck, bounds
  <1>3. ASSUME NEW t \in Sends, HandleAccept(t) PROVE Typed'
    <2>1. PICK c \in 1 .. N + 1 :
             task' = [task EXCEPT ![t] = [NoTask EXCEPT !.writer = "spawned", !.next = c,
                                                        !.reader = "no stream"]]
      BY <1>3 DEF HandleAccept
    <2> DEFINE r == [NoTask EXCEPT !.writer = "spawned", !.next = c, !.reader = "no stream"]
    <2>a. c \in 0 .. N + 1
      BY SmallFacts
    <2>2. r \in Tasks
      BY <2>a, NoTaskTypes DEF Tasks
    <2>3. /\ r.writer = "spawned" /\ r.next = c /\ r.reader = "no stream"
          /\ r.sink = "none"
      BY DEF NoTask
    <2>4. SetTask(t, r)
      BY <2>1, <2>3 DEF SetTask
    <2> HIDE DEF r
    <2>5. Formed(r)
      BY <2>3 DEF Formed, Early, Late
    <2>6. wire' \in [Peers -> Seq(Messages)]
      BY <1>3, TakeTypes DEF HandleAccept, Incoming, Peers
    <2>7. Loops'
      BY <1>3, <1>a, <2>6, RecordedKept, BudgetKept DEF HandleAccept, bounds
    <2>8. task[t].sink = "none"
      BY <1>3, NoTaskTypes DEF HandleAccept
    <2> QED
      BY <1>3, <2>2, <2>3, <2>4, <2>5, <2>7, <2>8, TasksOnly DEF HandleAccept
  <1>4. CASE HandleCancel(p)
    <2>1. Recorded' /\ cancelled' \subseteq Peers /\ offered' \in BOOLEAN
      BY <1>4, CancelledTypes DEF HandleCancel
    <2>2. wire' \in [Peers -> Seq(Messages)]
      BY <1>4, TakeTypes DEF HandleCancel, Incoming
    <2> QED
      BY <1>4, <1>a, <2>1, <2>2, LoopsOnly, BudgetKept DEF HandleCancel, bounds
  <1>5. CASE HandleComplete(p)
    <2>1. Recorded'
      BY <1>5, StatusTypes, RecordedKept DEF HandleComplete, Statuses
    <2>2. wire' \in [Peers -> Seq(Messages)]
      BY <1>5, TakeTypes DEF HandleComplete, Incoming
    <2> QED
      BY <1>5, <1>a, <2>1, <2>2, LoopsOnly, BudgetKept DEF HandleComplete, bounds
  <1> QED
    BY <1>1, <1>2, <1>3, <1>4, <1>5 DEF Handle

LEMMA WriterTypes ==
    ASSUME Typed, NEW t \in Sends, Writer(t)
    PROVE  Typed'
  <1> USE DEF Typed, Loops
  <1>a. overlapped \in BOOLEAN
    BY DEF Budget
  <1>b. /\ task[t].writer = "spawned" => task[t].next \in 1 .. N + 1
                                         /\ task[t].reader = "no stream"
        /\ task[t].writer = "writing" => task[t].next \in Chunks
    BY TaskFields DEF Formed
  <1>1. CASE WriterStart(t)
    <2>1. Recorded'
      BY <1>1, StatusTypes DEF WriterStart, Started, Peers, Statuses
    <2>2. wire' \in [Peers -> Seq(Messages)]
      BY <1>1, MessageTypes, SendTypes DEF WriterStart, Peers
    <2>3. Loops'
      BY <1>1, <1>a, <2>1, <2>2, BudgetKept DEF WriterStart, bounds
    <2> DEFINE r1 == [task[t] EXCEPT !.writer = "ended", !.reader = "ended"]
               r2 == [task[t] EXCEPT !.writer = "writing"]
    <2>4. r1 \in Tasks /\ r1.sink = task[t].sink /\ r1.writer = "ended" /\ r1.reader = "ended"
      BY TaskFields DEF Tasks
    <2>5. /\ r2 \in Tasks /\ r2.sink = task[t].sink
          /\ r2.writer = "writing" /\ r2.reader = task[t].reader /\ r2.next = task[t].next
      BY TaskFields DEF Tasks
    <2>a. task[t].writer = "spawned"
      BY <1>1 DEF WriterStart
    <2>b. task[t].next \in 1 .. N + 1
      BY <1>b, <2>a
    <2>c. task[t].next \in Int /\ (task[t].next <= N => task[t].next \in Chunks)
      <3> DEFINE n == task[t].next
      <3>1. n \in 1 .. N + 1
        BY <2>b
      <3>2. n \in Int /\ (n <= N => n \in Chunks)
        <4> HIDE DEF n
        <4> QED
          BY <3>1, SmallFacts DEF Chunks
      <3> QED
        BY <3>2
    <2>6. SetTask(t, r1) \/ (~ (task[t].next > N) /\ SetTask(t, r2))
      BY <1>1 DEF WriterStart
    <2> HIDE DEF r1, r2
    <2>7. Formed(r1)
      BY <2>4 DEF Formed, Early, Late
    <2>8. ASSUME ~ (task[t].next > N) PROVE Formed(r2)
      <3>1. task[t].next \in Chunks
        BY <2>8, <2>c, SmallFacts
      <3>2. task[t].reader = "no stream"
        BY <1>b, <2>a
      <3> QED
        BY <2>5, <3>1, <3>2 DEF Formed, Early, Late
    <2> QED
      BY <1>1, <2>3, <2>4, <2>5, <2>6, <2>7, <2>8, TasksOnly DEF WriterStart
  <1>2. CASE WriterWrite(t)
    <2>1. Loops'
      BY <1>2, <1>a, RecordedKept, BudgetKept DEF WriterWrite, bounds
    <2> DEFINE c == task[t].next
               opened == IF task[t].reader = "no stream"
                         THEN [task[t] EXCEPT !.reader = "incoming", !.read = c] ELSE task[t]
               n == c + 1
               w == IF LastOfRange(c) THEN "ended" ELSE "writing"
               r == [opened EXCEPT !.next = n, !.writer = w]
    <2>2. c \in Chunks /\ c \in 0 .. N + 1 /\ n \in 0 .. N + 1 /\ (c # N => n \in Chunks)
      <3>1. c \in Chunks
        BY <1>2, <1>b DEF WriterWrite
      <3> HIDE DEF c
      <3> QED
        BY <3>1, SmallFacts DEF Chunks
    <2>3. SetTask(t, r) /\ (LastOfRange(c) <=> c = N)
      BY <1>2 DEF WriterWrite, LastOfRange
    <2> HIDE DEF c, n
    <2>4. /\ opened \in Tasks /\ opened.sink = task[t].sink /\ opened.buffer = task[t].buffer
          /\ opened.reader \in Early => opened.read \in Chunks
          /\ opened.reader = task[t].reader \/ opened.reader = "incoming"
      <3>1. task[t] \in Tasks /\ Formed(task[t])
        BY TaskFields
      <3> QED
        BY <2>2, <3>1 DEF Tasks, Formed, Early
    <2> HIDE DEF opened
    <2>5. /\ r \in Tasks /\ r.sink = task[t].sink
          /\ r.next = n /\ r.writer = w /\ r.reader = opened.reader /\ r.read = opened.read
          /\ r.buffer = opened.buffer
      BY <2>2, <2>4 DEF Tasks
    <2> HIDE DEF r
    <2>6. Formed(r)
      BY <2>2, <2>3, <2>4, <2>5, TaskFields DEF Formed, Late
    <2> QED
      BY <1>2, <2>1, <2>3, <2>5, <2>6, TasksOnly DEF WriterWrite
  <1>3. CASE WriterFail(t)
    <2>1. Loops'
      BY <1>3, <1>a, MarkTypes, BudgetKept
      DEF WriterFail, bounds, stored, Recorded, Peers, Statuses
    <2> DEFINE k == IF task[t].reader = "no stream" THEN "ended" ELSE task[t].reader
               r == [task[t] EXCEPT !.writer = "failed",
                                    !.reader = IF @ = "no stream" THEN "ended" ELSE @]
    <2>2. /\ r \in Tasks /\ r.sink = task[t].sink /\ r.buffer = task[t].buffer
          /\ r.writer = "failed" /\ r.reader = k /\ r.read = task[t].read
      BY TaskFields DEF Tasks
    <2>3. SetTask(t, r)
      BY <1>3 DEF WriterFail
    <2> HIDE DEF r
    <2>4. Formed(r)
      BY <2>2, TaskFields DEF Formed, Early, Late
    <2> QED
      BY <1>3, <2>1, <2>2, <2>3, <2>4, TasksOnly DEF WriterFail
  <1>4. CASE WriterTells(t)
    <2>1. wire' \in [Peers -> Seq(Messages)]
      BY <1>4, MessageTypes, SendTypes DEF WriterTells, Peers
    <2>2. Loops'
      BY <1>4, <1>a, <2>1, RecordedKept, BudgetKept DEF WriterTells, bounds
    <2> DEFINE r == [task[t] EXCEPT !.writer = "ended"]
    <2>3. /\ r \in Tasks /\ r.sink = task[t].sink /\ r.buffer = task[t].buffer
          /\ r.writer = "ended" /\ r.reader = task[t].reader /\ r.read = task[t].read
      BY TaskFields DEF Tasks
    <2>4. SetTask(t, r)
      BY <1>4 DEF WriterTells
    <2> HIDE DEF r
    <2>5. Formed(r)
      BY <2>3, TaskFields DEF Formed
    <2> QED
      BY <1>4, <2>2, <2>3, <2>4, <2>5, TasksOnly DEF WriterTells
  <1> QED
    BY <1>1, <1>2, <1>3, <1>4 DEF Writer

\* Bytes that land in a file: there is one.
LEMMA LandTypes ==
    ASSUME NEW file \in (SUBSET Chunks) \cup {NoFile}, NEW bytes \in SUBSET Chunks,
           bytes # {} => file # NoFile
    PROVE  /\ file \cup bytes \in (SUBSET Chunks) \cup {NoFile}
           /\ file # NoFile => file \cup bytes # NoFile
  <1>1. CASE bytes = {}
    BY <1>1
  <1>2. CASE bytes # {}
    BY <1>2, SmallFacts DEF NoFile
  <1> QED
    BY <1>1, <1>2

LEMMA ReopenTypes ==
    ASSUME Typed, Loops', NEW t \in Sends, NEW k \in {"rename", "complete"},
           task[t].reader \in {"remove", "rename"},
           NEW f \in [{"none", "part", "out", "gone"} -> {"none", "part", "out", "gone"}],
           task' = [Reopened(f) EXCEPT ![t].reader = k], Disk',
           \A u \in Sends : /\ f[task[u].sink] = "part" => part' # NoFile
                            /\ f[task[u].sink] = "out" => out' # NoFile
    PROVE  Typed'
  <1>1. ASSUME NEW u \in Sends
        PROVE  /\ Reopened(f)[u] \in Tasks
               /\ Reopened(f)[u].sink = f[task[u].sink]
               /\ Reopened(f)[u].reader = task[u].reader
               /\ Reopened(f)[u].writer = task[u].writer
               /\ Reopened(f)[u].next = task[u].next
               /\ Reopened(f)[u].read = task[u].read
               /\ Reopened(f)[u].buffer = task[u].buffer
    BY TaskFields DEF Reopened, Tasks
  <1>2. Reopened(f) \in [Sends -> Tasks]
    BY <1>1 DEF Reopened
  <1> HIDE DEF Reopened
  <1>3. ASSUME NEW u \in Sends
        PROVE  /\ task'[u] \in Tasks
               /\ task'[u].sink = f[task[u].sink]
               /\ task'[u].reader = IF u = t THEN k ELSE task[u].reader
               /\ task'[u].writer = task[u].writer
               /\ task'[u].next = task[u].next
               /\ task'[u].read = task[u].read
               /\ task'[u].buffer = task[u].buffer
    <2>1. CASE u = t
      <3> DEFINE r == Reopened(f)[t]
      <3>1. task'[u] = [r EXCEPT !.reader = k]
        BY <1>2, <2>1
      <3>2. r \in Tasks
        BY <1>1
      <3>3. /\ [r EXCEPT !.reader = k] \in Tasks
            /\ [r EXCEPT !.reader = k].sink = r.sink
            /\ [r EXCEPT !.reader = k].reader = k
            /\ [r EXCEPT !.reader = k].writer = r.writer
            /\ [r EXCEPT !.reader = k].next = r.next
            /\ [r EXCEPT !.reader = k].read = r.read
            /\ [r EXCEPT !.reader = k].buffer = r.buffer
        <4> HIDE DEF r
        <4> QED
          BY <3>2 DEF Tasks
      <3> QED
        BY <1>1, <2>1, <3>1, <3>3
    <2>2. CASE u # t
      <3>1. task'[u] = Reopened(f)[u]
        BY <1>2, <2>2
      <3> QED
        BY <1>1, <2>2, <3>1
    <2> QED
      BY <2>1, <2>2
  <1>4. task' \in [Sends -> Tasks]
    <2>1. DOMAIN task' = Sends
      BY <1>2
    <2>2. task' = [u \in DOMAIN task' |-> task'[u]]
      BY <1>2
    <2> QED
      BY <1>3, <2>1, <2>2
  <1>5. ASSUME NEW u \in Sends PROVE Formed(task[u])'
    <2>1. Formed(task[u])
      BY TaskFields
    <2>2. u = t => Formed(task[t]) /\ task[t].reader \in Late /\ k \in Late
      BY <2>1 DEF Late
    <2> QED
      BY <1>3, <2>1, <2>2 DEF Formed, Early, Late
  <1>6. ASSUME NEW u \in Sends
        PROVE  /\ task'[u].sink = "part" => part' # NoFile
               /\ task'[u].sink = "out" => out' # NoFile
    BY <1>3
  <1>7. AtWork'
    BY <1>5, <1>6 DEF AtWork, FilesOf
  <1> QED
    BY <1>4, <1>7 DEF Typed

LEMMA ReaderTypes ==
    ASSUME Typed, NEW t \in Sends, Reader(t)
    PROVE  Typed'
  <1> USE DEF Typed, Loops
  <1>a. overlapped \in BOOLEAN
    BY DEF Budget
  <1>b. /\ task[t].reader \in Early => task[t].read \in Chunks
        /\ task[t].reader \in Late => task[t].buffer = 0
    BY TaskFields DEF Formed
  <1>1. CASE ReaderOpen(t)
    <2>1. Loops'
      BY <1>1, <1>a, RecordedKept, BudgetKept DEF ReaderOpen, bounds
    <2> DEFINE r == [task[t] EXCEPT !.reader = "check", !.sink = "part"]
    <2>2. /\ r \in Tasks /\ r.sink = "part" /\ r.reader = "check"
          /\ r.writer = task[t].writer /\ r.next = task[t].next /\ r.read = task[t].read
      BY TaskFields DEF Tasks
    <2>3. SetTask(t, r)
      BY <1>1 DEF ReaderOpen
    <2> HIDE DEF r
    <2>4. Formed(r)
      BY <1>1, <1>b, <2>2, TaskFields DEF Formed, Early, Late, ReaderOpen, At
    <2>5. part' # NoFile /\ out' = out /\ Disk'
      BY <1>1, SmallFacts DEF ReaderOpen, Disk
    <2> QED
      BY <2>1, <2>2, <2>3, <2>4, <2>5, TaskTypes
  <1>2. CASE ReaderCheck(t)
    <2>1. Loops'
      BY <1>2, <1>a, RecordedKept, BudgetKept DEF ReaderCheck, bounds
    <2>2. PICK k \in {"ended", "read"} : Go(t, k)
      BY <1>2 DEF ReaderCheck
    <2> QED
      BY <1>2, <1>b, <2>1, <2>2, GoTypes DEF ReaderCheck, At, Early, Late, Places
  <1>3. CASE ReaderRead(t)
    <2>1. Loops'
      BY <1>3, <1>a, RecordedKept, BudgetKept DEF ReaderRead, bounds
    <2> DEFINE c == task[t].read
               r == [task[t] EXCEPT !.reader = "record", !.buffer = c]
    <2>a. c \in Chunks /\ c \in 0 .. N
      BY <1>3, <1>b, SmallFacts DEF ReaderRead, At, Early, Chunks
    <2>3. SetTask(t, r)
      BY <1>3 DEF ReaderRead
    <2>2. /\ r \in Tasks /\ r.sink = task[t].sink /\ r.reader = "record"
          /\ r.writer = task[t].writer /\ r.next = task[t].next /\ r.read = c
      <3> HIDE DEF c
      <3>1. r.read = task[t].read
        BY TaskFields DEF Tasks
      <3> QED
        BY <2>a, <3>1, TaskFields DEF Tasks, c
    <2> HIDE DEF r
    <2>4. Formed(r)
      BY <1>3, <2>2, <2>a, TaskFields DEF Formed, Early, Late, ReaderRead, At
    <2> QED
      BY <1>3, <2>1, <2>2, <2>3, <2>4, TasksOnly DEF ReaderRead
  <1>4. CASE ReaderCutOff(t)
    <2>1. Loops'
      BY <1>4, <1>a, RecordedKept, BudgetKept DEF ReaderCutOff, bounds
    <2> QED
      BY <1>4, <1>b, <2>1, GoTypes DEF ReaderCutOff, At, Early, Late, Places
  <1>5. CASE ReaderRecord(t)
    <2> DEFINE c == task[t].read
               d == manifest["receiver"].done \cup {c}
    <2>1. c \in Chunks
      BY <1>5, <1>b DEF ReaderRecord, At, Early
    <2>2. d \in SUBSET Chunks
      BY <2>1, ManifestTypes DEF Recorded, Peers
    <2>3. Save("receiver", Manifest("Accepted", d)) /\ Send("receiver", Ack(c))
      BY <1>5 DEF ReaderRecord, Record
    <2> DEFINE k == IF c = N THEN "flush" ELSE "check"
               n == c + 1
               r == [task[t] EXCEPT !.read = n, !.reader = k]
    <2>4. SetTask(t, r)
      BY <1>5 DEF ReaderRecord
    <2> HIDE DEF d
    <2>5. Recorded'
      BY <2>2, <2>3, ManifestTypes, SaveTypes DEF Peers, Statuses
    <2>6. wire' \in [Peers -> Seq(Messages)]
      BY <2>1, <2>3, MessageTypes, SendTypes DEF Peers
    <2>7. Loops'
      BY <1>5, <1>a, <2>5, <2>6, BudgetKept DEF ReaderRecord, bounds
    <2>8. n \in 0 .. N + 1 /\ (c # N => n \in Chunks)
      <3> HIDE DEF c
      <3> QED
        BY <2>1, SmallFacts DEF Chunks
    <2> HIDE DEF n
    <2>9. /\ r \in Tasks /\ r.sink = task[t].sink /\ r.reader = k
          /\ r.writer = task[t].writer /\ r.next = task[t].next /\ r.read = n
      BY <2>8, TaskFields DEF Tasks
    <2> HIDE DEF r
    <2>10. Formed(r)
      BY <1>5, <2>8, <2>9, TaskFields DEF Formed, Early, Late, ReaderRecord, At
    <2> QED
      BY <1>5, <2>4, <2>7, <2>9, <2>10, TasksOnly DEF ReaderRecord
  <1>6. CASE ReaderFlush(t)
    <2>1. Loops'
      BY <1>6, <1>a, RecordedKept, BudgetKept DEF ReaderFlush, bounds
    <2>2. PICK k \in {"ended", "hash"} : Go(t, k)
      BY <1>6 DEF ReaderFlush
    <2> QED
      BY <1>6, <1>b, <2>1, <2>2, GoTypes DEF ReaderFlush, At, Early, Late, Places
  <1>7. CASE ReaderHash(t)
    <2>1. manifest' \in [Peers -> Manifests]
      BY <1>7, MarkTypes DEF ReaderHash, Peers, Statuses, Recorded
    <2>2. Loops'
      BY <1>7, <1>a, <2>1, BudgetKept DEF ReaderHash, bounds, stored, Recorded
    <2> DEFINE d == manifest["receiver"].done
               r == [task[t] EXCEPT !.reader = "save", !.copy = d]
    <2>3. d \in SUBSET Chunks
      BY ManifestTypes DEF Recorded, Peers
    <2>4. (\E k \in {"remove", "ended"} : Go(t, k)) \/ SetTask(t, r)
      BY <1>7 DEF ReaderHash
    <2> HIDE DEF d
    <2>5. /\ r \in Tasks /\ r.sink = task[t].sink /\ r.reader = "save"
          /\ r.writer = task[t].writer /\ r.next = task[t].next
      BY <2>3, TaskFields DEF Tasks
    <2> HIDE DEF r
    <2>6. Formed(r)
      BY <1>7, <2>5, TaskFields DEF Formed, Early, Late, ReaderHash, At
    <2>7. CASE SetTask(t, r)
      BY <1>7, <2>2, <2>5, <2>6, <2>7, TasksOnly DEF ReaderHash
    <2>8. CASE \E k \in {"remove", "ended"} : Go(t, k)
      BY <1>7, <1>b, <2>2, <2>8, GoTypes DEF ReaderHash, At, Early, Late, Places
    <2> QED
      BY <2>4, <2>7, <2>8
  <1>8. CASE ReaderSave(t)
    <2>1. Recorded'
      BY <1>8, TaskFields, CopyTypes DEF ReaderSave, Recorded
    <2>2. Loops'
      BY <1>8, <1>a, <2>1, BudgetKept DEF ReaderSave, bounds
    <2> DEFINE r == [task[t] EXCEPT !.reader = "ended", !.copy = {}]
    <2>3. /\ r \in Tasks /\ r.sink = task[t].sink /\ r.reader = "ended"
          /\ r.writer = task[t].writer /\ r.next = task[t].next
      BY TaskFields DEF Tasks
    <2>4. SetTask(t, r)
      BY <1>8 DEF ReaderSave
    <2> HIDE DEF r
    <2>5. Formed(r)
      BY <1>8, <2>3, TaskFields DEF Formed, Early, Late, ReaderSave, At
    <2> QED
      BY <1>8, <2>2, <2>3, <2>4, <2>5, TasksOnly DEF ReaderSave
  <1>9. CASE ReaderRemove(t)
    <2>1. Loops'
      BY <1>9, <1>a, RecordedKept, BudgetKept DEF ReaderRemove, bounds
    <2> DEFINE f == [none |-> "none", part |-> "part", out |-> "gone", gone |-> "gone"]
    <2>2. /\ f \in [{"none", "part", "out", "gone"} -> {"none", "part", "out", "gone"}]
          /\ f["none"] = "none" /\ f["part"] = "part" /\ f["out"] = "gone"
          /\ f["gone"] = "gone"
      OBVIOUS
    <2>3. task' = [Reopened(f) EXCEPT ![t].reader = "rename"]
      BY <1>9 DEF ReaderRemove
    <2> HIDE DEF f
    <2>4. \A u \in Sends : f[task[u].sink] # "out" /\ (f[task[u].sink] = "part" => part # NoFile)
      BY <2>2, TaskFields DEF Tasks
    <2>5. out' = NoFile /\ part' = part /\ task[t].reader = "remove"
      BY <1>9 DEF ReaderRemove, At
    <2>6. Disk'
      BY <2>5 DEF Disk
    <2> QED
      BY <2>1, <2>2, <2>3, <2>4, <2>5, <2>6, ReopenTypes
  <1>10. CASE ReaderRename(t)
    <2>1. Loops'
      BY <1>10, <1>a, RecordedKept, BudgetKept DEF ReaderRename, bounds
    <2> DEFINE f == [none |-> "none", part |-> "out", out |-> "gone", gone |-> "gone"]
    <2>2. /\ f \in [{"none", "part", "out", "gone"} -> {"none", "part", "out", "gone"}]
          /\ f["none"] = "none" /\ f["part"] = "out" /\ f["out"] = "gone"
          /\ f["gone"] = "gone"
      OBVIOUS
    <2>3. task' = [Reopened(f) EXCEPT ![t].reader = "complete"]
      BY <1>10 DEF ReaderRename
    <2> HIDE DEF f
    <2>4. \A u \in Sends : f[task[u].sink] # "part"
      BY <2>2, TaskFields DEF Tasks
    <2>5. part # NoFile /\ out' = part /\ part' = NoFile /\ task[t].reader = "rename"
      BY <1>10 DEF ReaderRename, At
    <2>6. Disk' /\ out' # NoFile
      BY <2>5 DEF Disk
    <2> QED
      BY <2>1, <2>2, <2>3, <2>4, <2>5, <2>6, ReopenTypes
  <1>11. CASE ReaderNoPart(t)
    <2>1. Loops'
      BY <1>11, <1>a, RecordedKept, BudgetKept DEF ReaderNoPart, bounds
    <2> QED
      BY <1>11, <1>b, <2>1, GoTypes DEF ReaderNoPart, At, Early, Late, Places
  <1>12. CASE ReaderComplete(t)
    <2>1. Recorded'
      BY <1>12, StatusTypes DEF ReaderComplete, Peers, Statuses
    <2>2. wire' \in [Peers -> Seq(Messages)]
      BY <1>12, MessageTypes, SendTypes DEF ReaderComplete, Peers
    <2>3. Loops'
      BY <1>12, <1>a, <2>1, <2>2, BudgetKept DEF ReaderComplete, bounds
    <2> QED
      BY <1>12, <1>b, <2>3, GoTypes DEF ReaderComplete, At, Early, Late, Places
  <1> QED
    BY <1>1, <1>2, <1>3, <1>4, <1>5, <1>6, <1>7, <1>8, <1>9, <1>10, <1>11, <1>12 DEF Reader

LEMMA LandsTypes ==
    ASSUME Typed, NEW t \in Sends, BufferLands(t)
    PROVE  Typed'
  <1>1. Loops'
    BY RecordedKept, BudgetKept DEF BufferLands, bounds, Typed, Loops, Budget
  <1>2. task[t].buffer \in Chunks
    BY TaskFields, SmallFacts DEF BufferLands, Chunks
  <1>3. PICK b \in SUBSET Chunks : b = {task[t].buffer}
    BY <1>2
  <1>4. /\ part' = IF task[t].sink = "part" THEN part \cup b ELSE part
        /\ out' = IF task[t].sink = "out" THEN out \cup b ELSE out
    BY <1>3 DEF BufferLands
  <1>5. /\ part \in (SUBSET Chunks) \cup {NoFile} /\ out \in (SUBSET Chunks) \cup {NoFile}
        /\ task[t].sink = "part" => part # NoFile
        /\ task[t].sink = "out" => out # NoFile
    BY TaskFields DEF Typed, Disk
  <1>6. /\ part' \in (SUBSET Chunks) \cup {NoFile} /\ (part # NoFile => part' # NoFile)
        /\ out' \in (SUBSET Chunks) \cup {NoFile} /\ (out # NoFile => out' # NoFile)
    <2>1. CASE task[t].sink = "part"
      BY <1>4, <1>5, <2>1, LandTypes
    <2>2. CASE task[t].sink = "out"
      BY <1>4, <1>5, <2>2, LandTypes
    <2>3. CASE task[t].sink \notin {"part", "out"}
      BY <1>4, <1>5, <2>3
    <2> QED
      BY <2>1, <2>2, <2>3
  <1> DEFINE r == [task[t] EXCEPT !.buffer = 0]
  <1>7. /\ r \in Tasks /\ r.sink = task[t].sink /\ r.buffer = 0 /\ r.reader = task[t].reader
        /\ r.writer = task[t].writer /\ r.next = task[t].next /\ r.read = task[t].read
    <2>1. task[t] \in Tasks /\ 0 \in 0 .. N
      BY TaskFields, SmallFacts
    <2> QED
      BY <2>1 DEF Tasks
  <1>8. SetTask(t, r)
    BY DEF BufferLands
  <1> HIDE DEF r
  <1>9. Formed(r)
    BY <1>7, TaskFields DEF Formed
  <1>10. Disk'
    BY <1>6 DEF Disk
  <1> QED
    BY <1>1, <1>5, <1>6, <1>7, <1>8, <1>9, <1>10, TaskTypes DEF Typed

\* The bytes that get into a file when the link is lost.
Landed(landing, sink) == {task[t].buffer : t \in {u \in landing : task[u].sink = sink}}

LEMMA LinkDownTypes ==
    ASSUME Typed, LinkDown
    PROVE  Typed'
  <1>1. PICK landing \in SUBSET {t \in Sends : task[t].buffer # 0} :
           /\ part' = part \cup Landed(landing, "part")
           /\ out' = out \cup Landed(landing, "out")
    BY DEF LinkDown, Landed
  <1>2. ASSUME NEW sink \in {"part", "out"}
        PROVE  /\ Landed(landing, sink) \in SUBSET Chunks
               /\ Landed(landing, sink) # {} => \E t \in Sends : task[t].sink = sink
    BY TaskFields, SmallFacts DEF Landed, Chunks
  <1>3. /\ Landed(landing, "part") # {} => part # NoFile
        /\ Landed(landing, "out") # {} => out # NoFile
    BY <1>2, TaskFields
  <1>4. part \in (SUBSET Chunks) \cup {NoFile} /\ out \in (SUBSET Chunks) \cup {NoFile}
    BY DEF Typed, Disk
  <1>5. part' \in (SUBSET Chunks) \cup {NoFile} /\ out' \in (SUBSET Chunks) \cup {NoFile}
    BY <1>1, <1>2, <1>3, <1>4, LandTypes
  <1>6. Disk'
    BY <1>5 DEF Disk
  <1>7. task' \in [Sends -> Tasks] /\ AtWork'
    <2>1. \A t \in Sends : task'[t] = NoTask
      BY DEF LinkDown
    <2>2. Formed(NoTask) /\ NoTask.sink = "none"
      BY NoTaskTypes
    <2>3. AtWork'
      BY <2>1, <2>2 DEF AtWork, FilesOf, Formed
    <2> QED
      BY <2>3, NoTaskTypes DEF LinkDown
  <1>8. Recorded'
    <2>1. \A d \in PendingCopies : d \in SUBSET Chunks
      BY TaskFields DEF PendingCopies, Typed, Loops, Recorded, Savings, Peers
    <2>2. sidecar' \in SUBSET Chunks /\ torn' \in BOOLEAN
      <3>1. sidecar' \in {sidecar} \cup PendingCopies /\ torn' \in {torn, torn \/ MayBeWriting}
        BY DEF LinkDown
      <3>2. MayBeWriting \in BOOLEAN
        BY DEF MayBeWriting
      <3> QED
        BY <2>1, <3>1, <3>2 DEF Typed, Loops, Recorded
    <2>3. manifest' \in [Peers -> Manifests] /\ saving' \in [Peers -> Savings]
      BY ManifestTypes DEF LinkDown, Idle, Savings
    <2>4. outdated' \in BOOLEAN
      BY DEF LinkDown
    <2> QED
      BY <2>2, <2>3, <2>4 DEF Recorded
  <1>9. Budget'
    <2>1. /\ Budget /\ MaxEvents \in Nat
          /\ events < MaxEvents /\ events' = events + 1
          /\ disturbed' = FALSE /\ overlapped' = overlapped
      BY BoundsAssumption DEF LinkDown, Typed, Loops
    <2>2. events' \in 0 .. MaxEvents
      BY <2>1 DEF Budget
    <2>3. disturbed' \in BOOLEAN /\ overlapped' \in BOOLEAN
      BY <2>1 DEF Budget
    <2> QED
      BY <2>2, <2>3 DEF Budget
  <1>10. Loops'
    <2>1. /\ offered' = FALSE /\ cancelled' = {}
          /\ wire' = [p \in Peers |-> <<>>]
      BY DEF LinkDown
    <2>2. wire' \in [Peers -> Seq(Messages)]
      BY <2>1
    <2> QED
      BY <1>8, <1>9, <2>1, <2>2 DEF Loops
  <1> QED
    BY <1>6, <1>7, <1>10 DEF Typed

\* The types hold from the start.
LEMMA InitTypes == Init => Typed
  <1> SUFFICES ASSUME Init PROVE Typed
    OBVIOUS
  <1>1. Recorded
    <2>1. Idle \in Savings
      BY DEF Idle, Savings
    <2> QED
      BY <2>1, ManifestTypes DEF Init, Recorded
  <1>2. Budget
    <2>1. events = 0 /\ disturbed = FALSE /\ overlapped = FALSE /\ MaxEvents \in Nat
      BY BoundsAssumption DEF Init
    <2>2. events \in 0 .. MaxEvents
      BY <2>1
    <2>3. disturbed \in BOOLEAN /\ overlapped \in BOOLEAN
      BY <2>1
    <2> QED
      BY <2>2, <2>3 DEF Budget
  <1>3. Loops
    <2>1. wire = [p \in Peers |-> <<>>] /\ offered = FALSE /\ cancelled = {}
      BY DEF Init
    <2>2. wire \in [Peers -> Seq(Messages)]
      BY <2>1
    <2> QED
      BY <1>1, <1>2, <2>1, <2>2 DEF Loops
  <1>4. Disk
    <2>1. part = NoFile /\ out = NoFile
      BY DEF Init
    <2> QED
      BY <2>1 DEF Disk
  <1>5. task \in [Sends -> Tasks] /\ AtWork
    BY NoTaskTypes DEF Init, AtWork
  <1> QED
    BY <1>3, <1>4, <1>5 DEF Typed

LEMMA TypesStep ==
    ASSUME Typed, [Next]_vars
    PROVE  Typed'
  <1>1. CASE UNCHANGED vars
    BY <1>1, LoopsOnly, RecordedKept, BudgetKept
    DEF vars, Typed, Loops, Budget, stored, files
  <1>2. CASE Next
    BY <1>2, UserTypes, HandleTypes, FinishTypes, WriterTypes, ReaderTypes, LandsTypes,
       LinkDownTypes DEF Next, System
  <1> QED
    BY <1>1, <1>2

\* Whatever the users, the network and the disk do, the state stays within its
\* types: no stream is asked for a chunk the file does not have, no byte reaches
\* a file that is not there.
THEOREM TypeCorrect == Spec => []TypeOK
  <1>1. Spec => []Typed
    BY InitTypes, TypesStep, PTL DEF Spec
  <1>2. Typed => TypeOK
    BY DEF Typed, Loops, Recorded, Budget, Disk, TypeOK
  <1> QED
    BY <1>1, <1>2, PTL

-----------------------------------------------------------------------------
(* Delivery.  As long as chunks are asked for only when the sends before    *)
(* are over, there is one send at most; and from the moment a send starts   *)
(* until the receiver has told its end, the sender does not report it.      *)

\* There is a request, a report of the end, among the messages of q; a request
\* is the only one, and every report is ahead of it.
Asks(q) == \E i \in 1 .. Len(q) : q[i].type = "accept"
Tells(q) == \E i \in 1 .. Len(q) : q[i].type = "complete"
Lined(q) == \A i, j \in 1 .. Len(q) :
               q[i].type = "accept" => /\ q[j].type = "accept" => j = i
                                       /\ q[j].type = "complete" => j < i

\* The receiver's task works on .part, and removes the old file only when it
\* has verified .part.
Sound(r) ==
    /\ r.reader \in {"check", "read", "record", "flush", "hash", "remove", "rename"}
          => r.sink = "part"
    /\ r.buffer # 0 => r.sink = "part"
    /\ r.reader \in {"remove", "rename"} => part = Chunks
    /\ r.reader = "complete" => out = Chunks

\* The sender has the end reported, or on its way to be.
Reported == Tells(wire["sender"]) \/ manifest["sender"].status = "Complete"

\* A send that is started and whose task at the receiver is not through is not
\* reported.
Pending(r) ==
    r.reader # "ended" => /\ ~Tells(wire["sender"])
                          /\ r.writer # "spawned" => manifest["sender"].status # "Complete"

OneSend == \A t, u \in Sends : task[t] # NoTask /\ task[u] # NoTask => t = u

Delivery == /\ OutputIsWhole
            /\ Lined(wire["sender"])
            /\ OneSend
            /\ Asks(wire["sender"]) => \A t \in Sends : task[t] = NoTask
            /\ \A t \in Sends : Sound(task[t]) /\ Pending(task[t])
            /\ Reported => out = Chunks

DeliveryInv == Typed /\ (overlapped \/ Delivery)

\* No request and no report is added, and they stay in line.
Follows(q, r) == /\ Asks(r) => Asks(q)
                 /\ Tells(r) => Tells(q)
                 /\ Lined(q) => Lined(r)

LEMMA AppendKinds ==
    ASSUME NEW q \in Seq(Messages), NEW m \in Messages
    PROVE  /\ m.type \notin {"accept", "complete"} => Follows(q, Append(q, m))
           /\ m.type # "accept" => (Asks(Append(q, m)) => Asks(q))
           /\ m.type # "complete" => (Tells(Append(q, m)) => Tells(q))
           /\ ~Asks(q) => Lined(Append(q, m))
  <1> DEFINE r == Append(q, m)
  <1>1. /\ Len(q) \in Nat /\ Len(r) = Len(q) + 1
        /\ \A i \in 1 .. Len(q) : r[i] = q[i]
        /\ r[Len(q) + 1] = m
    OBVIOUS
  <1> HIDE DEF r
  <1>2. \A i \in 1 .. Len(r) : i \in 1 .. Len(q) \/ i = Len(q) + 1
    BY <1>1
  <1>3. m.type # "accept" => (Asks(r) => Asks(q))
    BY <1>1, <1>2 DEF Asks
  <1>4. m.type # "complete" => (Tells(r) => Tells(q))
    BY <1>1, <1>2 DEF Tells
  <1>5. ~Asks(q) => Lined(r)
    <2> SUFFICES ASSUME ~Asks(q), NEW i \in 1 .. Len(r), NEW j \in 1 .. Len(r),
                        r[i].type = "accept"
                 PROVE  /\ r[j].type = "accept" => j = i
                        /\ r[j].type = "complete" => j < i
      BY DEF Lined
    <2>1. i = Len(q) + 1
      BY <1>1, <1>2 DEF Asks
    <2>2. j < i \/ j = i
      BY <1>1, <1>2, <2>1
    <2>3. j < i => r[j].type # "accept"
      BY <1>1, <1>2, <2>1 DEF Asks
    <2> QED
      BY <2>2, <2>3
  <1>6. m.type \notin {"accept", "complete"} /\ Lined(q) => Lined(r)
    <2> SUFFICES ASSUME m.type \notin {"accept", "complete"}, Lined(q),
                        NEW i \in 1 .. Len(r), NEW j \in 1 .. Len(r), r[i].type = "accept"
                 PROVE  /\ r[j].type = "accept" => j = i
                        /\ r[j].type = "complete" => j < i
      BY DEF Lined
    <2>1. i \in 1 .. Len(q) /\ q[i].type = "accept"
      BY <1>1, <1>2
    <2>2. CASE j \in 1 .. Len(q)
      BY <1>1, <2>1, <2>2 DEF Lined
    <2>3. CASE j = Len(q) + 1
      BY <1>1, <2>3
    <2> QED
      BY <1>2, <2>2, <2>3
  <1>7. m.type \notin {"accept", "complete"} => Follows(q, r)
    BY <1>3, <1>4, <1>6 DEF Follows
  <1> QED
    BY <1>3, <1>4, <1>5, <1>7 DEF r

LEMMA TailKinds ==
    ASSUME NEW q \in Seq(Messages), q # <<>>
    PROVE  /\ Follows(q, Tail(q))
           /\ Lined(q) /\ Head(q).type = "accept" => ~Asks(Tail(q)) /\ ~Tells(Tail(q))
           /\ Head(q).type = "complete" => Tells(q)
  <1> DEFINE r == Tail(q)
  <1>1. /\ Len(q) \in Nat /\ Len(q) >= 1 /\ Len(r) = Len(q) - 1
        /\ \A i \in 1 .. Len(r) : r[i] = q[i + 1]
        /\ Head(q) = q[1]
    OBVIOUS
  <1> HIDE DEF r
  <1>2. \A i \in 1 .. Len(r) : i + 1 \in 1 .. Len(q)
    BY <1>1
  <1>3. (Asks(r) => Asks(q)) /\ (Tells(r) => Tells(q))
    BY <1>1, <1>2 DEF Asks, Tells
  <1>4. Lined(q) => Lined(r)
    <2> SUFFICES ASSUME Lined(q), NEW i \in 1 .. Len(r), NEW j \in 1 .. Len(r),
                        r[i].type = "accept"
                 PROVE  /\ r[j].type = "accept" => j = i
                        /\ r[j].type = "complete" => j < i
      BY DEF Lined
    <2>1. /\ i + 1 \in 1 .. Len(q) /\ j + 1 \in 1 .. Len(q)
          /\ q[i + 1] = r[i] /\ q[j + 1] = r[j]
      BY <1>1, <1>2
    <2>2. /\ q[j + 1].type = "accept" => j + 1 = i + 1
          /\ q[j + 1].type = "complete" => j + 1 < i + 1
      BY <2>1 DEF Lined
    <2> QED
      BY <1>1, <2>1, <2>2
  <1>5. ASSUME Lined(q), Head(q).type = "accept" PROVE ~Asks(r) /\ ~Tells(r)
    <2>1. ASSUME NEW i \in 1 .. Len(r) PROVE r[i].type \notin {"accept", "complete"}
      <3>1. 1 \in 1 .. Len(q) /\ i + 1 \in 1 .. Len(q) /\ q[1].type = "accept" /\ q[i + 1] = r[i]
        BY <1>1, <1>2, <1>5
      <3>2. /\ q[i + 1].type = "accept" => i + 1 = 1
            /\ q[i + 1].type = "complete" => i + 1 < 1
        BY <1>5, <3>1 DEF Lined
      <3> QED
        BY <1>1, <3>1, <3>2
    <2> QED
      BY <2>1 DEF Asks, Tells
  <1>6. Head(q).type = "complete" => Tells(q)
    BY <1>1 DEF Tells
  <1> QED
    BY <1>3, <1>4, <1>5, <1>6 DEF Follows, r

\* What a step does to the messages that wait for the sender.
LEMMA SendFollows ==
    ASSUME Typed, NEW p \in Peers, NEW k \in {"offer", "reject", "cancel"}, Send(p, Msg(k))
    PROVE  Follows(wire["sender"], wire'["sender"])
  <1>1. wire["sender"] \in Seq(Messages) /\ Msg(k) \in Messages /\ Msg(k).type = k
    BY MessageTypes DEF Typed, Loops, Peers
  <1>2. wire'["sender"] = wire["sender"] \/ wire'["sender"] = Append(wire["sender"], Msg(k))
    BY DEF Send, Typed, Loops, Peer, Peers
  <1>3. Follows(wire["sender"], wire["sender"])
    BY DEF Follows
  <1> QED
    BY <1>1, <1>2, <1>3, AppendKinds

LEMMA TakeFollows ==
    ASSUME Typed, NEW p \in Peers, wire[p] # <<>>, Take(p)
    PROVE  Follows(wire["sender"], wire'["sender"])
  <1>1. wire["sender"] \in Seq(Messages)
    BY DEF Typed, Loops, Peers
  <1>2. \/ wire'["sender"] = wire["sender"]
        \/ wire["sender"] # <<>> /\ wire'["sender"] = Tail(wire["sender"])
    BY DEF Take, Typed, Loops, Peers
  <1>3. Follows(wire["sender"], wire["sender"])
    BY DEF Follows
  <1> QED
    BY <1>1, <1>2, <1>3, TailKinds

LEMMA KeptFollows == UNCHANGED wire => Follows(wire["sender"], wire'["sender"])
  BY DEF Follows

\* The status of the sender that a step sets is not Complete.
LEMMA OpenStatus ==
    ASSUME Typed, NEW p \in Peers, NEW st \in Statuses, Mark(p, st), p = "sender" => st # "Complete"
    PROVE  manifest'["sender"].status = "Complete" => manifest["sender"].status = "Complete"
  <1>1. manifest[p] \in Manifests
    BY DEF Typed, Loops, Recorded
  <1>2. With(p, st).status = st
    BY <1>1 DEF With, Manifests, None, Manifest
  <1>3. manifest'["sender"] = IF p = "sender" THEN With(p, st) ELSE manifest["sender"]
    BY DEF Mark, Typed, Loops, Recorded, Peers
  <1> QED
    BY <1>2, <1>3

\* A step of a loop that asks for nothing.
LEMMA QuietStep ==
    ASSUME Typed, Delivery, UNCHANGED <<task, files>>,
           Follows(wire["sender"], wire'["sender"]),
           manifest'["sender"].status = "Complete" => Reported
    PROVE  Delivery'
  <1>1. Reported' => Reported
    BY DEF Reported, Follows
  <1>2. OutputIsWhole' /\ Lined(wire["sender"])' /\ OneSend'
    BY DEF Delivery, files, OutputIsWhole, OneSend, Follows, Lined
  <1>3. Asks(wire["sender"])' => \A t \in Sends : task'[t] = NoTask
    BY DEF Delivery, Follows, Asks
  <1>4. ASSUME NEW t \in Sends PROVE Sound(task[t])' /\ Pending(task[t])'
    <2>1. Sound(task[t]) /\ Pending(task[t])
      BY DEF Delivery
    <2>2. Sound(task[t])'
      BY <2>1 DEF Sound, files
    <2>3. Pending(task[t])'
      BY <1>1, <2>1 DEF Pending, Reported, Follows, Tells
    <2> QED
      BY <2>2, <2>3
  <1>5. Reported' => out' = Chunks
    BY <1>1 DEF Delivery, files
  <1> QED
    BY <1>2, <1>3, <1>4, <1>5 DEF Delivery

\* A request for chunks when every send is over.
LEMMA AskDelivers ==
    ASSUME Typed, Delivery, ~overlapped', NEW d \in SUBSET Chunks, Ask(d),
           UNCHANGED <<task, files>>, manifest'["sender"] = manifest["sender"]
    PROVE  Delivery'
  <1> DEFINE q == wire["sender"]
  <1>1. q \in Seq(Messages) /\ Accept(d) \in Messages /\ Accept(d).type = "accept"
    BY MessageTypes DEF Typed, Loops, Peers
  <1>2. wire'["sender"] = Append(q, Accept(d))
    BY DEF Ask, Typed, Loops, Peers
  <1>3. ~Asks(q) /\ \A t \in Sends : task[t] = NoTask
    BY DEF Ask, Asks
  <1>4. Lined(wire["sender"])' /\ (Tells(wire["sender"])' => Tells(q))
    <2> HIDE DEF q
    <2>1. Lined(Append(q, Accept(d))) /\ (Tells(Append(q, Accept(d))) => Tells(q))
      BY <1>1, <1>3, AppendKinds
    <2> QED
      BY <1>2, <2>1 DEF Lined, Tells
  <1>5. OutputIsWhole' /\ OneSend'
    BY DEF Delivery, files, OutputIsWhole, OneSend
  <1>6. ASSUME NEW t \in Sends PROVE Sound(task[t])' /\ Pending(task[t])' /\ task'[t] = NoTask
    BY <1>3, NoTaskTypes DEF Sound, Pending
  <1>7. Reported' => out' = Chunks
    BY <1>4 DEF Reported, Delivery, files
  <1> QED
    BY <1>4, <1>5, <1>6, <1>7 DEF Delivery

\* A step of the only send, which stays the only one.
LEMMA SendStepDelivers ==
    ASSUME Typed, Typed', Delivery, NEW t \in Sends, task[t] # NoTask,
           \A u \in Sends : u # t /\ task[u] = NoTask => task'[u] = NoTask,
           OutputIsWhole', Lined(wire["sender"])', Asks(wire["sender"])' => Asks(wire["sender"]),
           Sound(task[t])', Pending(task[t])', Reported' => out' = Chunks
    PROVE  Delivery'
  <1>1. \A u \in Sends : u # t => (task[u] = NoTask /\ task'[u] = NoTask)
    BY DEF Delivery, OneSend
  <1>2. OneSend'
    BY <1>1 DEF OneSend
  <1>3. ~Asks(wire["sender"])'
    BY DEF Delivery
  <1>4. ASSUME NEW u \in Sends PROVE Sound(task[u])' /\ Pending(task[u])'
    <2>1. CASE u = t
      BY <2>1
    <2>2. CASE u # t
      BY <1>1, <2>2, NoTaskTypes DEF Sound, Pending
    <2> QED
      BY <2>1, <2>2
  <1> QED
    BY <1>2, <1>3, <1>4 DEF Delivery

\* A task goes on to r, or is over; the files stay.
LEMMA WorkDelivers ==
    ASSUME Typed, Typed', Delivery, NEW t \in Sends, task[t] # NoTask, NEW r \in Tasks,
           SetTask(t, r), UNCHANGED files,
           Follows(wire["sender"], wire'["sender"]),
           manifest'["sender"].status = "Complete" => manifest["sender"].status = "Complete",
           Sound(r),
           r.reader # "ended" => /\ task[t].reader # "ended"
                                 /\ r.writer = "spawned" \/ task[t].writer # "spawned"
                                                         \/ manifest'["sender"].status # "Complete"
    PROVE  Delivery'
  <1>1. PICK n \in Tasks : task' = [task EXCEPT ![t] = n] /\ (n = r \/ n = NoTask)
    BY NoTaskTypes DEF SetTask
  <1>2. task'[t] = n /\ \A u \in Sends : u # t => task'[u] = task[u]
    BY <1>1 DEF Typed
  <1>3. OutputIsWhole'
    BY DEF Delivery, OutputIsWhole, files
  <1>4. Lined(wire["sender"])' /\ (Asks(wire["sender"])' => Asks(wire["sender"]))
    BY DEF Follows, Delivery, Lined, Asks
  <1>5. Sound(task[t])'
    BY <1>1, <1>2, NoTaskTypes DEF Sound, files
  <1>6. Pending(task[t])'
    <2>1. CASE n.reader = "ended"
      BY <1>2, <2>1 DEF Pending
    <2>2. CASE n.reader # "ended"
      <3>1. n = r /\ task[t].reader # "ended"
        BY <1>1, <2>2, NoTaskTypes
      <3>2. Pending(task[t])
        BY DEF Delivery
      <3>3. ~Tells(wire["sender"])'
        BY <3>1, <3>2 DEF Pending, Follows, Tells
      <3>4. r.writer # "spawned" => manifest'["sender"].status # "Complete"
        BY <2>2, <3>1, <3>2 DEF Pending
      <3> QED
        BY <1>2, <3>1, <3>3, <3>4 DEF Pending
    <2> QED
      BY <2>1, <2>2
  <1>7. Reported' => out' = Chunks
    BY DEF Reported, Follows, Delivery, files, Tells
  <1> QED
    BY <1>2, <1>3, <1>4, <1>5, <1>6, <1>7, SendStepDelivers

LEMMA GoDelivers ==
    ASSUME Typed, Typed', Delivery, NEW t \in Sends, NEW k \in Places, Go(t, k),
           task[t].reader # "ended", task[t].reader # "no stream", UNCHANGED files,
           Follows(wire["sender"], wire'["sender"]),
           manifest'["sender"].status = "Complete" => manifest["sender"].status = "Complete",
           k = "ended" \/ (task[t].sink = "part" /\ (k \in {"remove", "rename"} => part = Chunks)
                                                 /\ k # "complete")
    PROVE  Delivery'
  <1> DEFINE r == [task[t] EXCEPT !.reader = k]
  <1>1. /\ r \in Tasks /\ r.sink = task[t].sink
        /\ r.reader = k /\ r.writer = task[t].writer /\ r.buffer = task[t].buffer
    BY TaskFields DEF Tasks, Places
  <1>2. SetTask(t, r)
    BY DEF Go
  <1>3. Sound(task[t])
    BY DEF Delivery
  <1> HIDE DEF r
  <1>4. Sound(r)
    BY <1>1, <1>3 DEF Sound
  <1>5. task[t].writer # "spawned" /\ task[t] # NoTask
    BY TaskFields, NoTaskTypes DEF Formed
  <1> QED
    BY <1>1, <1>2, <1>4, <1>5, WorkDelivers

\* The commands of the users.
LEMMA UserDelivers ==
    ASSUME Typed, Delivery, ~overlapped', NEW p \in Peers, User(p)
    PROVE  Delivery'
  <1>a. manifest \in [Peers -> Manifests]
    BY DEF Typed, Loops, Recorded
  <1>b. Manifest("Offered", {}).status = "Offered"
    BY DEF Manifest
  <1>1. CASE OfferFile
    <2>1. manifest'["sender"].status # "Complete"
      BY <1>1, <1>a, <1>b DEF OfferFile, Save, Peers
    <2> QED
      BY <1>1, <2>1, QuietStep, SendFollows DEF OfferFile, Peers
  <1>2. CASE AcceptOffer
    <2>1. manifest'["sender"] = manifest["sender"]
      BY <1>2, <1>a DEF AcceptOffer, Save, Peers
    <2>2. sidecar \in SUBSET Chunks
      BY DEF Typed, Loops, Recorded
    <2> QED
      BY <1>2, <2>1, <2>2, AskDelivers DEF AcceptOffer
  <1>3. CASE AcceptFails
    BY <1>3, QuietStep, KeptFollows DEF AcceptFails, Reported
  <1>4. CASE RejectOffer
    BY <1>4, QuietStep, SendFollows DEF RejectOffer, Reported, Peers
  <1>5. CASE Pause(p)
    BY <1>5, QuietStep, KeptFollows, OpenStatus DEF Pause, MarkInLoop, Reported, Statuses
  <1>6. CASE Resume(p)
    <2>1. CASE p = "receiver"
      <3>1. manifest'["sender"] = manifest["sender"]
        BY <1>6, <1>a, <2>1 DEF Resume, SetStatus, Save, Peers
      <3>2. manifest[p].done \in SUBSET Chunks
        BY <1>a, ManifestTypes
      <3> QED
        BY <1>6, <2>1, <3>1, <3>2, AskDelivers DEF Resume
    <2>2. CASE p = "sender"
      <3>1. Mark(p, "Offered")
        BY <1>6, <2>2 DEF Resume, SetStatus, Save, Mark
      <3> QED
        BY <1>6, <2>2, <3>1, QuietStep, SendFollows, OpenStatus DEF Resume, Reported, Statuses
    <2> QED
      BY <2>1, <2>2 DEF Peers
  <1>7. CASE Cancel(p)
    BY <1>7, QuietStep, KeptFollows, OpenStatus
    DEF Cancel, MarkCancelled, MarkInLoop, Reported, Statuses
  <1> QED
    BY <1>1, <1>2, <1>3, <1>4, <1>5, <1>6, <1>7 DEF User

\* The loops: what they have begun, and the messages.
LEMMA FinishDelivers ==
    ASSUME Typed, Delivery, NEW p \in Peers, Finish(p)
    PROVE  Delivery'
  <1>1. CASE LoopSaves
    BY <1>1, QuietStep, KeptFollows DEF LoopSaves, Reported
  <1>2. CASE CancelTells(p)
    BY <1>2, QuietStep, SendFollows DEF CancelTells, Reported
  <1>3. CASE PauseStops(p)
    BY <1>3, QuietStep, SendFollows DEF PauseStops, Reported
  <1> QED
    BY <1>1, <1>2, <1>3 DEF Finish

LEMMA HandleAcceptDelivers ==
    ASSUME Typed, Typed', Delivery, NEW t \in Sends, HandleAccept(t)
    PROVE  Delivery'
  <1> DEFINE q == wire["sender"]
  <1>1. /\ q \in Seq(Messages) /\ q # <<>> /\ Head(q).type = "accept"
        /\ wire'["sender"] = Tail(q)
    BY DEF HandleAccept, Incoming, Take, Typed, Loops, Peers
  <1>2. Lined(q) /\ Asks(q)
    <2>1. Len(q) \in Nat /\ Len(q) >= 1 /\ Head(q) = q[1]
      <3> HIDE DEF q
      <3> QED
        BY <1>1
    <2> QED
      BY <1>1, <2>1 DEF Delivery, Asks
  <1>3. ~Asks(wire'["sender"]) /\ ~Tells(wire'["sender"]) /\ Lined(wire'["sender"])
    <2> HIDE DEF q
    <2> QED
      BY <1>1, <1>2, TailKinds DEF Follows
  <1>4. \A u \in Sends : task[u] = NoTask
    BY <1>2 DEF Delivery
  <1>5. \A u \in Sends : u # t => task'[u] = NoTask
    BY <1>4 DEF HandleAccept, Typed
  <1>6. /\ task'[t].writer = "spawned" /\ task'[t].reader = "no stream"
        /\ task'[t].buffer = 0
    <2>1. PICK c \in 1 .. N + 1 :
             task' = [task EXCEPT ![t] = [NoTask EXCEPT !.writer = "spawned", !.next = c,
                                                        !.reader = "no stream"]]
      BY DEF HandleAccept
    <2> DEFINE r == [NoTask EXCEPT !.writer = "spawned", !.next = c, !.reader = "no stream"]
    <2>2. r.writer = "spawned" /\ r.reader = "no stream" /\ r.buffer = 0
      BY DEF NoTask
    <2>3. task'[t] = r
      BY <2>1 DEF Typed
    <2> QED
      BY <2>2, <2>3
  <1>7. Sound(task[t])' /\ Pending(task[t])'
    BY <1>3, <1>6 DEF Sound, Pending, Tells
  <1>8. ASSUME NEW u \in Sends PROVE Sound(task[u])' /\ Pending(task[u])'
    <2>1. CASE u = t
      BY <1>7, <2>1
    <2>2. CASE u # t
      BY <1>5, <2>2, NoTaskTypes DEF Sound, Pending
    <2> QED
      BY <2>1, <2>2
  <1>9. OneSend'
    BY <1>5 DEF OneSend
  <1>10. OutputIsWhole' /\ (Reported' => out' = Chunks)
    <2>1. manifest' = manifest /\ out' = out
      BY DEF HandleAccept, files
    <2>2. Reported' => Reported
      BY <1>3, <2>1 DEF Reported, Tells
    <2> QED
      BY <2>1, <2>2 DEF Delivery, OutputIsWhole
  <1>11. Lined(wire["sender"])' /\ ~Asks(wire["sender"])'
    BY <1>3 DEF Lined, Asks
  <1> QED
    BY <1>8, <1>9, <1>10, <1>11 DEF Delivery

LEMMA HandleDelivers ==
    ASSUME Typed, Typed', Delivery, NEW p \in Peers, Handle(p)
    PROVE  Delivery'
  <1>a. manifest \in [Peers -> Manifests]
    BY DEF Typed, Loops, Recorded
  <1>1. CASE HandleOffer
    BY <1>1, QuietStep, TakeFollows DEF HandleOffer, Incoming, Reported, Peers
  <1>2. CASE HandleAck
    <2>1. manifest'["sender"].status = "Accepted"
      BY <1>2, <1>a DEF HandleAck, Save, Manifest, Peers
    <2> QED
      BY <1>2, <2>1, QuietStep, TakeFollows DEF HandleAck, Incoming, Peers
  <1>3. CASE HandleCancel(p)
    BY <1>3, QuietStep, TakeFollows, OpenStatus
    DEF HandleCancel, Incoming, MarkCancelled, MarkInLoop, Reported, Statuses
  <1>4. CASE HandleComplete(p)
    <2>1. manifest'["sender"].status = "Complete" => Reported
      <3>1. CASE p = "sender"
        <4>1. /\ wire["sender"] \in Seq(Messages) /\ wire["sender"] # <<>>
              /\ Head(wire["sender"]).type = "complete"
          BY <1>4, <3>1 DEF HandleComplete, Incoming, Typed, Loops, Peers
        <4> QED
          BY <4>1, TailKinds DEF Reported
      <3>2. CASE p # "sender"
        BY <1>4, <3>2 DEF HandleComplete, Reported
      <3> QED
        BY <3>1, <3>2
    <2> QED
      BY <1>4, <2>1, QuietStep, TakeFollows DEF HandleComplete, Incoming
  <1> QED
    BY <1>1, <1>2, <1>3, <1>4, HandleAcceptDelivers DEF Handle

\* The send task.
LEMMA WriterDelivers ==
    ASSUME Typed, Typed', Delivery, NEW t \in Sends, Writer(t)
    PROVE  Delivery'
  <1>a. Sound(task[t]) /\ task[t] \in Tasks /\ Formed(task[t])
    BY TaskFields DEF Delivery
  <1>b. task[t] # NoTask
    BY NoTaskTypes DEF Writer, WriterStart, WriterWrite, WriterFail, WriterTells
  <1>1. CASE WriterStart(t)
    <2>1. manifest'["sender"].status = "Accepted"
      BY <1>1 DEF WriterStart, Started, SetStatus, Save, With, Typed, Loops, Recorded, Peers,
                  Manifests, None, Manifest
    <2>2. Follows(wire["sender"], wire'["sender"])
      <3>1. wire'["sender"] = wire["sender"]
        BY <1>1 DEF WriterStart, Send, Peer, Typed, Loops, Peers
      <3> QED
        BY <3>1 DEF Follows
    <2> DEFINE r1 == [task[t] EXCEPT !.writer = "ended", !.reader = "ended"]
               r2 == [task[t] EXCEPT !.writer = "writing"]
    <2>3. /\ r1 \in Tasks /\ r1.reader = "ended" /\ r1.buffer = task[t].buffer
          /\ r1.sink = task[t].sink
      BY <1>a DEF Tasks
    <2>4. /\ r2 \in Tasks /\ r2.reader = task[t].reader /\ r2.buffer = task[t].buffer
          /\ r2.sink = task[t].sink
      BY <1>a DEF Tasks
    <2>5. SetTask(t, r1) \/ SetTask(t, r2)
      BY <1>1 DEF WriterStart
    <2> HIDE DEF r1, r2
    <2>6. Sound(r1) /\ Sound(r2)
      BY <1>a, <2>3, <2>4 DEF Sound
    <2>7. task[t].reader = "no stream" /\ UNCHANGED files
      BY <1>1, <1>a DEF WriterStart, Formed
    <2> QED
      BY <1>b, <2>1, <2>2, <2>3, <2>4, <2>5, <2>6, <2>7, WorkDelivers
  <1>2. CASE WriterWrite(t)
    <2> DEFINE c == task[t].next
               opened == IF task[t].reader = "no stream"
                         THEN [task[t] EXCEPT !.reader = "incoming", !.read = c] ELSE task[t]
               n == c + 1
               w == IF LastOfRange(c) THEN "ended" ELSE "writing"
               r == [opened EXCEPT !.next = n, !.writer = w]
    <2>1. c \in 0 .. N + 1 /\ n \in 0 .. N + 1
      <3>1. c \in Chunks
        BY <1>2, <1>a DEF WriterWrite, Formed
      <3> HIDE DEF c
      <3> QED
        BY <3>1, SmallFacts DEF Chunks
    <2>2. SetTask(t, r) /\ UNCHANGED files /\ task[t].writer # "spawned"
      BY <1>2 DEF WriterWrite
    <2> HIDE DEF c, n
    <2>3. /\ opened \in Tasks /\ opened.sink = task[t].sink /\ opened.buffer = task[t].buffer
          /\ opened.reader = task[t].reader
             \/ (opened.reader = "incoming" /\ task[t].reader = "no stream")
      BY <1>a, <2>1 DEF Tasks
    <2> HIDE DEF opened
    <2>4. /\ r \in Tasks /\ r.sink = task[t].sink /\ r.reader = opened.reader
          /\ r.buffer = task[t].buffer
      BY <2>1, <2>3 DEF Tasks
    <2> HIDE DEF r
    <2>5. Sound(r)
      BY <1>a, <2>3, <2>4 DEF Sound
    <2>6. /\ Follows(wire["sender"], wire'["sender"])
          /\ manifest'["sender"].status = "Complete" => manifest["sender"].status = "Complete"
      BY <1>2, KeptFollows DEF WriterWrite
    <2>7. r.reader # "ended" => task[t].reader # "ended"
      BY <2>3, <2>4
    <2> QED
      BY <1>b, <2>2, <2>4, <2>5, <2>6, <2>7, WorkDelivers
  <1>3. CASE WriterFail(t)
    <2> DEFINE r == [task[t] EXCEPT !.writer = "failed",
                                    !.reader = IF @ = "no stream" THEN "ended" ELSE @]
    <2>1. /\ r \in Tasks /\ r.sink = task[t].sink /\ r.buffer = task[t].buffer
          /\ r.reader = task[t].reader \/ r.reader = "ended"
      BY <1>a DEF Tasks
    <2>2. SetTask(t, r) /\ UNCHANGED files /\ task[t].writer # "spawned"
      BY <1>3 DEF WriterFail
    <2> HIDE DEF r
    <2>3. Sound(r)
      BY <1>a, <2>1 DEF Sound
    <2>4. /\ Follows(wire["sender"], wire'["sender"])
          /\ manifest'["sender"].status = "Complete" => manifest["sender"].status = "Complete"
      BY <1>3, KeptFollows, OpenStatus DEF WriterFail, Peers, Statuses
    <2> QED
      BY <1>b, <2>1, <2>2, <2>3, <2>4, WorkDelivers
  <1>4. CASE WriterTells(t)
    <2> DEFINE r == [task[t] EXCEPT !.writer = "ended"]
    <2>1. /\ r \in Tasks /\ r.sink = task[t].sink /\ r.buffer = task[t].buffer
          /\ r.reader = task[t].reader
      BY <1>a DEF Tasks
    <2>2. SetTask(t, r) /\ UNCHANGED files /\ task[t].writer # "spawned"
      BY <1>4 DEF WriterTells
    <2> HIDE DEF r
    <2>3. Sound(r)
      BY <1>a, <2>1 DEF Sound
    <2>4. /\ Follows(wire["sender"], wire'["sender"])
          /\ manifest'["sender"].status = "Complete" => manifest["sender"].status = "Complete"
      BY <1>4, SendFollows DEF WriterTells, Peers
    <2> QED
      BY <1>b, <2>1, <2>2, <2>3, <2>4, WorkDelivers
  <1> QED
    BY <1>1, <1>2, <1>3, <1>4 DEF Writer

\* The receiver's task, as long as it changes no file.
LEMMA ReaderDelivers ==
    ASSUME Typed, Typed', Delivery, NEW t \in Sends,
           \/ ReaderCheck(t) \/ ReaderRead(t) \/ ReaderCutOff(t) \/ ReaderRecord(t)
           \/ ReaderFlush(t) \/ ReaderHash(t) \/ ReaderSave(t) \/ ReaderNoPart(t)
    PROVE  Delivery'
  <1> DEFINE Kept == /\ Follows(wire["sender"], wire'["sender"])
                     /\ manifest'["sender"].status = "Complete"
                           => manifest["sender"].status = "Complete"
                     /\ UNCHANGED files
  <1>a. Sound(task[t]) /\ task[t] \in Tasks /\ Formed(task[t])
    BY TaskFields DEF Delivery
  <1>1. CASE ReaderCheck(t)
    <2>1. PICK k \in {"ended", "read"} : Go(t, k)
      BY <1>1 DEF ReaderCheck
    <2>2. task[t].reader = "check" /\ Kept
      BY <1>1, KeptFollows DEF ReaderCheck, At
    <2>3. task[t].sink = "part"
      BY <1>a, <2>2 DEF Sound
    <2> QED
      BY <2>1, <2>2, <2>3, GoDelivers DEF Places
  <1>2. CASE ReaderRead(t)
    <2> DEFINE c == task[t].read
               r == [task[t] EXCEPT !.reader = "record", !.buffer = c]
    <2>1. task[t].reader = "read" /\ Kept /\ SetTask(t, r)
      BY <1>2, KeptFollows DEF ReaderRead, At
    <2>2. c \in 0 .. N
      <3>1. c \in Chunks
        BY <1>a, <2>1 DEF Formed, Early
      <3> HIDE DEF c
      <3> QED
        BY <3>1, SmallFacts DEF Chunks
    <2>3. task[t].sink = "part" /\ task[t] # NoTask /\ task[t].writer # "spawned"
      BY <1>a, <2>1, NoTaskTypes DEF Sound, Formed
    <2> HIDE DEF c
    <2>4. r \in Tasks /\ r.sink = task[t].sink /\ r.reader = "record"
      BY <1>a, <2>2 DEF Tasks
    <2> HIDE DEF r
    <2>5. Sound(r)
      BY <2>3, <2>4 DEF Sound
    <2> QED
      BY <2>1, <2>3, <2>4, <2>5, WorkDelivers
  <1>3. CASE ReaderCutOff(t)
    <2>1. task[t].reader = "read" /\ Kept /\ Go(t, "ended")
      BY <1>3, KeptFollows DEF ReaderCutOff, At
    <2> QED
      BY <2>1, GoDelivers DEF Places
  <1>4. CASE ReaderRecord(t)
    <2> DEFINE c == task[t].read
               n == c + 1
               k == IF c = N THEN "flush" ELSE "check"
               r == [task[t] EXCEPT !.read = n, !.reader = k]
    <2>1. task[t].reader = "record" /\ SetTask(t, r) /\ Send("receiver", Ack(c)) /\ Record(c)
      BY <1>4 DEF ReaderRecord, At
    <2>2. c \in Chunks
      BY <1>a, <2>1 DEF Formed, Early
    <2>3. n \in 0 .. N + 1
      <3> HIDE DEF c
      <3> QED
        BY <2>2, SmallFacts DEF Chunks
    <2>4. task[t].sink = "part" /\ task[t] # NoTask /\ task[t].writer # "spawned"
      BY <1>a, <2>1, NoTaskTypes DEF Sound, Formed
    <2>5. Kept
      <3>1. Ack(c) \in Messages /\ Ack(c).type = "ack"
        BY <2>2, MessageTypes
      <3>2. wire["sender"] \in Seq(Messages) /\ wire'["sender"] = Append(wire["sender"], Ack(c))
        BY <2>1 DEF Send, Peer, Typed, Loops, Peers
      <3>3. manifest'["sender"] = manifest["sender"]
        BY <2>1 DEF Record, Save, Typed, Loops, Recorded, Peers
      <3>4. UNCHANGED files
        BY <1>4 DEF ReaderRecord
      <3> QED
        BY <3>1, <3>2, <3>3, <3>4, AppendKinds
    <2> HIDE DEF c, n
    <2>6. r \in Tasks /\ r.sink = task[t].sink /\ r.reader = k
      BY <1>a, <2>3 DEF Tasks
    <2> HIDE DEF r
    <2>7. Sound(r)
      BY <2>4, <2>6 DEF Sound
    <2> QED
      BY <2>1, <2>4, <2>5, <2>6, <2>7, WorkDelivers
  <1>5. CASE ReaderFlush(t)
    <2>1. PICK k \in {"ended", "hash"} : Go(t, k)
      BY <1>5 DEF ReaderFlush
    <2>2. task[t].reader = "flush" /\ Kept
      BY <1>5, KeptFollows DEF ReaderFlush, At
    <2>3. task[t].sink = "part"
      BY <1>a, <2>2 DEF Sound
    <2> QED
      BY <2>1, <2>2, <2>3, GoDelivers DEF Places
  <1>6. CASE ReaderHash(t)
    <2>1. task[t].reader = "hash" /\ Kept
      <3>1. UNCHANGED manifest \/ Mark("receiver", "Failed")
        BY <1>6 DEF ReaderHash
      <3> QED
        BY <1>6, <3>1, KeptFollows, OpenStatus DEF ReaderHash, At, Peers, Statuses
    <2>2. task[t].sink = "part" /\ task[t] # NoTask /\ task[t].writer # "spawned"
      BY <1>a, <2>1, NoTaskTypes DEF Sound, Formed
    <2> DEFINE d == manifest["receiver"].done
               r == [task[t] EXCEPT !.reader = "save", !.copy = d]
    <2>3. CASE SetTask(t, r)
      <3>1. d \in SUBSET Chunks
        BY ManifestTypes DEF Typed, Loops, Recorded, Peers
      <3> HIDE DEF d
      <3>2. /\ r \in Tasks /\ r.sink = task[t].sink /\ r.reader = "save"
            /\ r.buffer = task[t].buffer
        BY <1>a, <3>1 DEF Tasks
      <3> HIDE DEF r
      <3>3. Sound(r)
        BY <2>2, <3>2 DEF Sound
      <3> QED
        BY <2>1, <2>2, <2>3, <3>2, <3>3, WorkDelivers
    <2>4. CASE \E k \in {"remove", "ended"} : Go(t, k) /\ (k = "remove" => part = Chunks)
      BY <2>1, <2>2, <2>4, GoDelivers DEF Places
    <2> QED
      BY <1>6, <2>3, <2>4 DEF ReaderHash, Verified
  <1>7. CASE ReaderSave(t)
    <2> DEFINE r == [task[t] EXCEPT !.reader = "ended", !.copy = {}]
    <2>1. task[t].reader = "save" /\ Kept /\ SetTask(t, r)
      BY <1>7, KeptFollows DEF ReaderSave, At
    <2>2. /\ r \in Tasks /\ r.sink = task[t].sink /\ r.reader = "ended"
          /\ r.buffer = task[t].buffer
      BY <1>a DEF Tasks
    <2> HIDE DEF r
    <2>3. Sound(r) /\ task[t] # NoTask
      BY <1>a, <2>1, <2>2, NoTaskTypes DEF Sound
    <2> QED
      BY <2>1, <2>2, <2>3, WorkDelivers
  <1>8. CASE ReaderNoPart(t)
    <2>1. task[t].reader = "rename" /\ Kept /\ Go(t, "ended")
      BY <1>8, KeptFollows DEF ReaderNoPart, At
    <2> QED
      BY <2>1, GoDelivers DEF Places
  <1> QED
    BY <1>1, <1>2, <1>3, <1>4, <1>5, <1>6, <1>7, <1>8

\* Opening .part, and bytes that reach it: a whole .part stays whole.
LEMMA ReaderOpenDelivers ==
    ASSUME Typed, Typed', Delivery, NEW t \in Sends, ReaderOpen(t)
    PROVE  Delivery'
  <1> DEFINE r == [task[t] EXCEPT !.reader = "check", !.sink = "part"]
  <1>1. r.sink = "part" /\ r.reader = "check" /\ r.writer = task[t].writer
    BY TaskFields DEF Tasks
  <1>2. task' = [task EXCEPT ![t] = r]
    BY <1>1 DEF ReaderOpen, SetTask
  <1>3. task'[t] = r /\ \A u \in Sends : u # t => task'[u] = task[u]
    BY <1>2 DEF Typed
  <1>4. /\ task[t].reader = "incoming"
        /\ out' = out /\ wire' = wire /\ manifest' = manifest
    BY DEF ReaderOpen, At
  <1>5. Pending(task[t]) /\ task[t] # NoTask /\ task[t].writer # "spawned"
    BY <1>4, NoTaskTypes, TaskFields DEF Delivery, Formed
  <1> HIDE DEF r
  <1>6. Sound(task[t])'
    BY <1>1, <1>3 DEF Sound
  <1>7. Pending(task[t])'
    BY <1>1, <1>3, <1>4, <1>5 DEF Pending, Tells
  <1>8. /\ OutputIsWhole' /\ Lined(wire["sender"])' /\ (Reported' => out' = Chunks)
        /\ Asks(wire["sender"])' => Asks(wire["sender"])
    BY <1>4 DEF Delivery, OutputIsWhole, Lined, Reported, Tells, Asks
  <1> QED
    BY <1>3, <1>5, <1>6, <1>7, <1>8, SendStepDelivers

LEMMA LandsDelivers ==
    ASSUME Typed, Typed', Delivery, NEW t \in Sends, BufferLands(t)
    PROVE  Delivery'
  <1>a. /\ Sound(task[t]) /\ Pending(task[t])
        /\ task[t].buffer # 0 /\ task[t] # NoTask /\ task[t].sink = "part"
    BY NoTaskTypes DEF Delivery, BufferLands, Sound
  <1>1. /\ part' = part \cup {task[t].buffer} /\ out' = out
        /\ wire' = wire /\ manifest' = manifest
    BY <1>a DEF BufferLands
  <1>2. task[t].buffer \in Chunks
    BY <1>a, TaskFields, SmallFacts DEF Chunks
  <1>3. part = Chunks => part' = Chunks
    BY <1>1, <1>2
  <1> DEFINE r == [task[t] EXCEPT !.buffer = 0]
  <1>4. /\ r.sink = task[t].sink /\ r.buffer = 0 /\ r.reader = task[t].reader
        /\ r.writer = task[t].writer
    BY TaskFields DEF Tasks
  <1>5. /\ task'[t] = r \/ task'[t] = NoTask
        /\ \A u \in Sends : u # t => task'[u] = task[u]
    BY DEF BufferLands, SetTask, Typed
  <1> HIDE DEF r
  <1>6. Sound(task[t])'
    BY <1>a, <1>1, <1>3, <1>4, <1>5, NoTaskTypes DEF Sound
  <1>7. Pending(task[t])'
    BY <1>a, <1>1, <1>4, <1>5, NoTaskTypes DEF Pending, Tells
  <1>8. /\ OutputIsWhole' /\ Lined(wire["sender"])' /\ (Reported' => out' = Chunks)
        /\ Asks(wire["sender"])' => Asks(wire["sender"])
    BY <1>1 DEF Delivery, OutputIsWhole, Lined, Reported, Tells, Asks
  <1> QED
    BY <1>a, <1>5, <1>6, <1>7, <1>8, SendStepDelivers

\* A task that is over has no file open.
LEMMA ReopenedTasks ==
    ASSUME Typed, NEW t \in Sends, NEW k \in Places,
           NEW f \in [{"none", "part", "out", "gone"} -> {"none", "part", "out", "gone"}],
           f["none"] = "none", task' = [Reopened(f) EXCEPT ![t].reader = k]
    PROVE  /\ \A u \in Sends : u # t /\ task[u] = NoTask => task'[u] = NoTask
           /\ task'[t].reader = k
           /\ task'[t].buffer = task[t].buffer
           /\ task'[t].sink = f[task[t].sink]
           /\ task'[t].writer = task[t].writer
  <1>1. ASSUME NEW u \in Sends, u # t, task[u] = NoTask PROVE task'[u] = NoTask
    <2>1. task'[u] = [NoTask EXCEPT !.sink = f[@]]
      BY <1>1 DEF Reopened
    <2>2. [NoTask EXCEPT !.sink = f[@]] = [NoTask EXCEPT !.sink = "none"]
      BY NoTaskTypes
    <2>3. [NoTask EXCEPT !.sink = "none"] = NoTask
      BY DEF NoTask
    <2> QED
      BY <2>1, <2>2, <2>3
  <1> DEFINE r == Reopened(f)[t]
  <1>2. /\ r.sink = f[task[t].sink] /\ r.buffer = task[t].buffer
        /\ r.writer = task[t].writer /\ r \in Tasks
    BY TaskFields DEF Reopened, Tasks
  <1>3. task'[t] = [r EXCEPT !.reader = k]
    BY DEF Reopened
  <1> HIDE DEF r
  <1>4. /\ [r EXCEPT !.reader = k].reader = k /\ [r EXCEPT !.reader = k].buffer = r.buffer
        /\ [r EXCEPT !.reader = k].sink = r.sink /\ [r EXCEPT !.reader = k].writer = r.writer
    BY <1>2 DEF Tasks
  <1> QED
    BY <1>1, <1>2, <1>3, <1>4

LEMMA RemoveDelivers ==
    ASSUME Typed, Typed', Delivery, NEW t \in Sends, ReaderRemove(t)
    PROVE  Delivery'
  <1> DEFINE f == [none |-> "none", part |-> "part", out |-> "gone", gone |-> "gone"]
  <1>1. /\ f \in [{"none", "part", "out", "gone"} -> {"none", "part", "out", "gone"}]
        /\ f["none"] = "none" /\ f["part"] = "part"
    OBVIOUS
  <1>2. task' = [Reopened(f) EXCEPT ![t].reader = "rename"]
    BY DEF ReaderRemove
  <1>3. /\ task[t].reader = "remove" /\ out' = NoFile /\ part' = part
        /\ wire' = wire /\ manifest' = manifest
    BY DEF ReaderRemove, At
  <1> HIDE DEF f
  <1>4. /\ task[t] # NoTask /\ Sound(task[t]) /\ Pending(task[t])
        /\ task[t].writer # "spawned" /\ task[t].buffer = 0
    BY <1>3, NoTaskTypes, TaskFields DEF Delivery, Formed, Late
  <1>a. task[t].sink = "part" /\ "rename" \in Places
    BY <1>3, <1>4 DEF Sound, Places
  <1>b. /\ task'[t].reader = "rename" /\ task'[t].buffer = task[t].buffer
        /\ task'[t].sink = f[task[t].sink] /\ task'[t].writer = task[t].writer
        /\ \A u \in Sends : u # t /\ task[u] = NoTask => task'[u] = NoTask
    BY <1>1, <1>2, <1>a, ReopenedTasks
  <1>5. task'[t].buffer = 0 /\ task'[t].sink = "part"
    BY <1>1, <1>4, <1>a, <1>b
  <1>6. Sound(task[t])' /\ Pending(task[t])'
    BY <1>3, <1>4, <1>5, <1>b DEF Sound, Pending, Tells
  <1>7. ~Reported'
    BY <1>3, <1>4 DEF Pending, Reported, Tells
  <1>8. /\ OutputIsWhole' /\ Lined(wire["sender"])'
        /\ Asks(wire["sender"])' => Asks(wire["sender"])
    BY <1>3 DEF Delivery, OutputIsWhole, Lined, Asks
  <1> QED
    BY <1>4, <1>6, <1>7, <1>8, <1>b, SendStepDelivers

LEMMA RenameDelivers ==
    ASSUME Typed, Typed', Delivery, NEW t \in Sends, ReaderRename(t)
    PROVE  Delivery'
  <1> DEFINE f == [none |-> "none", part |-> "out", out |-> "gone", gone |-> "gone"]
  <1>1. /\ f \in [{"none", "part", "out", "gone"} -> {"none", "part", "out", "gone"}]
        /\ f["none"] = "none"
    OBVIOUS
  <1>2. task' = [Reopened(f) EXCEPT ![t].reader = "complete"]
    BY DEF ReaderRename
  <1>3. /\ task[t].reader = "rename" /\ out' = part
        /\ wire' = wire /\ manifest' = manifest
    BY DEF ReaderRename, At
  <1> HIDE DEF f
  <1>4. /\ task[t] # NoTask /\ Sound(task[t]) /\ Pending(task[t])
        /\ task[t].writer # "spawned" /\ task[t].buffer = 0
    BY <1>3, NoTaskTypes, TaskFields DEF Delivery, Formed, Late
  <1>5. /\ task'[t].reader = "complete" /\ task'[t].buffer = 0
        /\ task'[t].writer = task[t].writer
        /\ \A u \in Sends : u # t /\ task[u] = NoTask => task'[u] = NoTask
    BY <1>1, <1>2, <1>4, ReopenedTasks DEF Places
  <1>6. out' = Chunks
    BY <1>3, <1>4 DEF Sound
  <1>7. Sound(task[t])' /\ Pending(task[t])'
    BY <1>3, <1>4, <1>5, <1>6 DEF Sound, Pending, Tells
  <1>8. /\ OutputIsWhole' /\ Lined(wire["sender"])'
        /\ Asks(wire["sender"])' => Asks(wire["sender"])
    BY <1>3, <1>6 DEF Delivery, OutputIsWhole, Lined, Asks
  <1> QED
    BY <1>4, <1>5, <1>6, <1>7, <1>8, SendStepDelivers

\* The end is told when the file is there, and nobody has asked again.
LEMMA CompleteDelivers ==
    ASSUME Typed, Typed', Delivery, NEW t \in Sends, ReaderComplete(t)
    PROVE  Delivery'
  <1> DEFINE q == wire["sender"]
  <1>1. /\ task[t].reader = "complete" /\ UNCHANGED files /\ Go(t, "ended")
        /\ Send("receiver", Msg("complete")) /\ SetStatus("receiver", "Complete")
    BY DEF ReaderComplete, At
  <1>2. task[t] # NoTask /\ Sound(task[t]) /\ out = Chunks
    BY <1>1, NoTaskTypes DEF Delivery, Sound
  <1>3. /\ q \in Seq(Messages) /\ Msg("complete") \in Messages
        /\ Msg("complete").type = "complete" /\ wire'["sender"] = Append(q, Msg("complete"))
    BY <1>1, MessageTypes DEF Send, Peer, Typed, Loops, Peers
  <1>4. ~Asks(q)
    BY <1>2 DEF Delivery
  <1>5. Lined(wire["sender"])' /\ (Asks(wire["sender"])' => Asks(q))
    <2> DEFINE r == Append(q, Msg("complete"))
    <2>1. Lined(r) /\ (Asks(r) => Asks(q))
      <3> HIDE DEF q
      <3> QED
        BY <1>3, <1>4, AppendKinds
    <2> HIDE DEF r
    <2>2. wire'["sender"] = r
      BY <1>3 DEF r
    <2> QED
      BY <2>1, <2>2 DEF Lined, Asks
  <1>6. Sound(task[t])' /\ Pending(task[t])' /\ \A u \in Sends : u # t => task'[u] = task[u]
    <2> DEFINE r == [task[t] EXCEPT !.reader = "ended"]
    <2>1. r.reader = "ended" /\ r.buffer = task[t].buffer /\ r.sink = task[t].sink
      BY TaskFields DEF Tasks
    <2>2. /\ task'[t] = r \/ task'[t] = NoTask
          /\ \A u \in Sends : u # t => task'[u] = task[u]
      BY <1>1 DEF Go, SetTask, Typed
    <2> HIDE DEF r
    <2> QED
      BY <1>2, <2>1, <2>2, NoTaskTypes DEF Sound, Pending
  <1>7. OutputIsWhole' /\ out' = Chunks
    BY <1>1, <1>2 DEF OutputIsWhole, files
  <1> QED
    BY <1>2, <1>5, <1>6, <1>7, SendStepDelivers

\* The link goes, and with it every send: only bytes on their way to .part get
\* there.
LEMMA LinkDownDelivers ==
    ASSUME Typed, Delivery, LinkDown
    PROVE  Delivery'
  <1>1. PICK landing \in SUBSET {t \in Sends : task[t].buffer # 0} :
           out' = out \cup Landed(landing, "out")
    BY DEF LinkDown, Landed
  <1>2. Landed(landing, "out") = {}
    BY DEF Landed, Delivery, Sound
  <1>3. out' = out
    BY <1>1, <1>2
  <1>4. wire'["sender"] = <<>> /\ \A t \in Sends : task'[t] = NoTask
    BY DEF LinkDown, Peers
  <1>5. manifest'["sender"].status = "None"
    BY DEF LinkDown, None, Manifest, Peers
  <1>6. ~Asks(wire["sender"])' /\ ~Tells(wire["sender"])' /\ Lined(wire["sender"])'
    BY <1>4 DEF Asks, Tells, Lined
  <1>7. OneSend' /\ \A t \in Sends : Sound(task[t])' /\ Pending(task[t])'
    BY <1>4, NoTaskTypes DEF OneSend, Sound, Pending
  <1>8. OutputIsWhole' /\ ~Reported'
    BY <1>3, <1>5, <1>6 DEF OutputIsWhole, Delivery, Reported, Tells
  <1> QED
    BY <1>6, <1>7, <1>8 DEF Delivery

-----------------------------------------------------------------------------
\* The inductive invariant: the types, and until sends overlap, that there is one
\* at a time and its end is told once the file is there.
THEOREM DeliveryInvariant == Spec => []DeliveryInv
  <1>1. Init => DeliveryInv
    <2> SUFFICES ASSUME Init PROVE DeliveryInv
      OBVIOUS
    <2>1. wire["sender"] = <<>> /\ out = NoFile /\ \A t \in Sends : task[t] = NoTask
      BY DEF Init, Peers
    <2>2. manifest["sender"].status = "None"
      BY DEF Init, None, Manifest, Peers
    <2>3. ~Asks(wire["sender"]) /\ ~Tells(wire["sender"]) /\ Lined(wire["sender"])
      BY <2>1 DEF Asks, Tells, Lined
    <2>4. OneSend /\ \A t \in Sends : Sound(task[t]) /\ Pending(task[t])
      BY <2>1, NoTaskTypes DEF OneSend, Sound, Pending
    <2>5. Delivery
      BY <2>1, <2>2, <2>3, <2>4 DEF Delivery, OutputIsWhole, Reported
    <2> QED
      BY <2>5, InitTypes DEF DeliveryInv
  <1>2. DeliveryInv /\ [Next]_vars => DeliveryInv'
    <2> SUFFICES ASSUME DeliveryInv, [Next]_vars, ~overlapped' PROVE Delivery'
      BY TypesStep DEF DeliveryInv
    <2>a. Typed /\ Typed'
      BY TypesStep DEF DeliveryInv
    <2>b. ~overlapped
      BY DEF Next, System, User, Handle, Finish, Writer, Reader, vars, bounds, OfferFile,
             AcceptOffer, AcceptFails, RejectOffer, Pause, Resume, Cancel, Ask, HandleOffer,
             HandleAck, HandleAccept, HandleCancel, HandleComplete, LoopSaves, CancelTells,
             PauseStops, WriterStart, WriterWrite, WriterFail, WriterTells, ReaderOpen,
             ReaderCheck, ReaderRead, ReaderCutOff, ReaderRecord, ReaderFlush, ReaderHash,
             ReaderSave, ReaderRemove, ReaderRename, ReaderNoPart, ReaderComplete,
             BufferLands, LinkDown
    <2>c. Delivery
      BY <2>b DEF DeliveryInv
    <2>1. CASE UNCHANGED vars
      BY <2>a, <2>c, <2>1, QuietStep, KeptFollows DEF vars, files, Reported
    <2>2. ASSUME NEW p \in Peers, User(p) \/ Handle(p) \/ Finish(p) PROVE Delivery'
      BY <2>a, <2>c, <2>2, UserDelivers, HandleDelivers, FinishDelivers
    <2>3. ASSUME NEW t \in Sends, Writer(t) \/ Reader(t) \/ BufferLands(t) PROVE Delivery'
      BY <2>a, <2>c, <2>3, WriterDelivers, ReaderDelivers, ReaderOpenDelivers, RemoveDelivers,
         RenameDelivers, CompleteDelivers, LandsDelivers DEF Reader
    <2>4. CASE LinkDown
      BY <2>a, <2>c, <2>4, LinkDownDelivers
    <2> QED
      BY <2>1, <2>2, <2>3, <2>4 DEF Next, System
  <1> QED
    BY <1>1, <1>2, PTL DEF Spec

\* At the chosen path there is the whole file or none, as long as a send is over
\* before the next one starts (README.md:263).
THEOREM WholeFile == Spec => []WholeUnlessOverlapped
  <1>1. DeliveryInv => WholeUnlessOverlapped
    BY DEF DeliveryInv, Delivery, WholeUnlessOverlapped
  <1> QED
    BY <1>1, DeliveryInvariant, PTL

\* And the sender reports the transfer complete only when the file is there.
THEOREM CompleteDelivered == Spec => []CompleteIsDelivered
  <1>1. DeliveryInv => CompleteIsDelivered
    BY DEF DeliveryInv, Delivery, Reported, CompleteIsDelivered
  <1> QED
    BY <1>1, DeliveryInvariant, PTL

-----------------------------------------------------------------------------
(* The refinement.  Every step is one of FileDelivery, or none; the record   *)
(* is the part of it that needs an invariant of its own, because what a lost *)
(* link leaves may be a copy made earlier.                                   *)

\* A copy that is still to be saved has only chunks of the sidecar.
CopiesOK == /\ saving["receiver"].copy \subseteq sidecar
            /\ \A t \in Sends : task[t].copy \subseteq sidecar
RefineInv == RecordInv /\ DeliveryInv /\ (outdated \/ CopiesOK)

\* A step of the delivery that takes nothing from a record that has not lapsed.
Refines == /\ [Promise!Next]_(Promise!vars)
           /\ outdated' \/ (~outdated /\ sidecar \subseteq sidecar')

\* The file at the path, as the delivery sees it.
FileAt(f) == IF f = NoFile THEN "none" ELSE IF f = Chunks THEN "whole" ELSE "damaged"

LEMMA FileKinds ==
    /\ \A f : FileAt(f) \in {"none", "whole", "damaged"}
    /\ FileAt(NoFile) = "none" /\ FileAt(Chunks) = "whole"
    /\ \A f : f \in {Chunks, NoFile} /\ f # Chunks => FileAt(f) = "none"
  BY SmallFacts DEF FileAt

\* The steps that change none of what the delivery sees; and those of the
\* sender's status alone.
LEMMA NothingRefines ==
    ASSUME Typed, UNCHANGED <<sidecar, outdated, overlapped, out>>,
           manifest'["sender"] = manifest["sender"]
    PROVE  Refines
  BY DEF Refines, Promise!vars

LEMMA WithdrawRefines ==
    ASSUME Typed, UNCHANGED <<sidecar, outdated, overlapped, out>>,
           manifest'["sender"].done \in {manifest["sender"].done, {}},
           manifest'["sender"].status # "Complete"
    PROVE  Refines
  <1>1. Promise!Withdraw
    BY DEF Promise!Withdraw
  <1> QED
    BY <1>1 DEF Refines, Promise!Next

\* The record: what is asked for, a chunk more, an older copy.
LEMMA AskRefines ==
    ASSUME Typed, Typed', UNCHANGED <<outdated, out>>, overlapped' \in {overlapped, TRUE},
           outdated \/ sidecar' = sidecar, manifest'["sender"] = manifest["sender"]
    PROVE  Refines
  <1>1. sidecar' \in SUBSET Chunks
    BY DEF Typed, Loops, Recorded
  <1>2. Promise!Ask
    BY <1>1 DEF Promise!Ask
  <1> QED
    BY <1>2 DEF Refines, Promise!Next

LEMMA LapseRefines ==
    ASSUME Typed, Typed', UNCHANGED <<overlapped, out>>, outdated',
           manifest'["sender"] = manifest["sender"]
    PROVE  Refines
  <1>1. sidecar' \in SUBSET Chunks /\ outdated' = TRUE
    BY DEF Typed, Loops, Recorded
  <1>2. Promise!Lapse
    BY <1>1 DEF Promise!Lapse
  <1> QED
    BY <1>2 DEF Refines, Promise!Next

LEMMA KeepRefines ==
    ASSUME Typed, Typed', UNCHANGED <<outdated, overlapped, out>>, NEW c \in Chunks,
           outdated \/ sidecar' = sidecar \cup {c}, manifest'["sender"] = manifest["sender"]
    PROVE  Refines
  <1>1. CASE outdated
    BY <1>1, LapseRefines
  <1>2. CASE ~outdated
    <2>1. Promise!Keep(c)
      BY <1>2 DEF Promise!Keep
    <2> QED
      BY <1>2, <2>1 DEF Refines, Promise!Next
  <1> QED
    BY <1>1, <1>2

\* Of overlapping deliveries only the record is promised.
LEMMA SpoilRefines ==
    ASSUME Typed, overlapped, UNCHANGED <<sidecar, outdated, overlapped>>,
           manifest'["sender"].done = manifest["sender"].done
    PROVE  Refines
  <1>1. Promise!Spoil
    BY FileKinds DEF Promise!Spoil, Promise!Files, FileAt
  <1> QED
    BY <1>1 DEF Refines, Promise!Next

\* What is done to a manifest.
LEMMA MarkRefines ==
    ASSUME Typed, NEW p \in Peers, NEW st \in Statuses, Mark(p, st),
           p = "sender" => st # "Complete", UNCHANGED <<sidecar, outdated, overlapped, out>>
    PROVE  Refines
  <1>1. manifest \in [Peers -> Manifests] /\ manifest[p] \in Manifests
    BY DEF Typed, Loops, Recorded
  <1>2. With(p, st).status = st /\ With(p, st).done = manifest[p].done
    BY <1>1 DEF With, Manifests, None, Manifest
  <1>3. CASE p = "sender"
    <2>1. manifest'["sender"] = With(p, st)
      BY <1>1, <1>3 DEF Mark
    <2> QED
      BY <1>2, <1>3, <2>1, WithdrawRefines
  <1>4. CASE p = "receiver"
    <2>1. manifest'["sender"] = manifest["sender"]
      BY <1>1, <1>4 DEF Mark, Peers
    <2> QED
      BY <2>1, NothingRefines
  <1> QED
    BY <1>3, <1>4 DEF Peers

\* The receiver saves its manifest as it is, or with a chunk more.
LEMMA SaveRefines ==
    ASSUME RecordInv, Typed, Typed', Joined, NEW m, Save("receiver", m), UNCHANGED out,
           \/ UNCHANGED overlapped /\ \E c \in Chunks : m.done = manifest["receiver"].done \cup {c}
           \/ overlapped' \in {overlapped, TRUE} /\ m.done = manifest["receiver"].done
    PROVE  Refines
  <1>1. /\ manifest'["sender"] = manifest["sender"]
        /\ sidecar' = m.done /\ outdated' = outdated
    BY DEF Save, Typed, Loops, Recorded, Peers
  <1>2. outdated \/ manifest["receiver"].done = sidecar
    BY DEF RecordInv, ManifestsOK
  <1>3. CASE UNCHANGED overlapped /\ \E c \in Chunks : m.done = manifest["receiver"].done \cup {c}
    BY <1>1, <1>2, <1>3, KeepRefines
  <1>4. CASE overlapped' \in {overlapped, TRUE} /\ m.done = manifest["receiver"].done
    BY <1>1, <1>2, <1>4, AskRefines
  <1> QED
    BY <1>3, <1>4

LEMMA CopyRefines ==
    ASSUME RecordInv, Typed, Typed', Joined, NEW copy, SaveCopy(copy),
           UNCHANGED <<manifest, overlapped, out>>
    PROVE  Refines
  <1>1. CASE outdated'
    BY <1>1, LapseRefines
  <1>2. CASE ~outdated'
    <2>1. sidecar' = sidecar /\ outdated' = outdated
      BY <1>2 DEF SaveCopy, RecordInv, ManifestsOK, Typed, Loops, Recorded
    <2> QED
      BY <2>1, NothingRefines
  <1> QED
    BY <1>1, <1>2

LEMMA AskSays ==
    ASSUME Typed, NEW d, Ask(d)
    PROVE  overlapped' \in {overlapped, TRUE}
  BY DEF Ask, Typed, Loops, Budget

\* The commands of the users.
LEMMA UserRefines ==
    ASSUME RecordInv, Typed, Typed', NEW p \in Peers, User(p)
    PROVE  Refines
  <1>a. manifest \in [Peers -> Manifests] /\ manifest[p] \in Manifests
    BY DEF Typed, Loops, Recorded
  <1>1. CASE OfferFile
    <2>1. manifest'["sender"] = Manifest("Offered", {})
      BY <1>1, <1>a DEF OfferFile, Save, Peers
    <2>2. Manifest("Offered", {}).status = "Offered" /\ Manifest("Offered", {}).done = {}
      BY DEF Manifest
    <2>3. UNCHANGED <<sidecar, outdated, overlapped, out>>
      BY <1>1 DEF OfferFile, Save, files
    <2> QED
      BY <2>1, <2>2, <2>3, WithdrawRefines
  <1>2. CASE AcceptOffer
    <2>1. manifest'["sender"] = manifest["sender"] /\ UNCHANGED <<sidecar, outdated, out>>
      BY <1>2, <1>a DEF AcceptOffer, Save, Continued, Manifest, files, Peers
    <2>2. overlapped' \in {overlapped, TRUE}
      BY <1>2, AskSays DEF AcceptOffer
    <2> QED
      BY <2>1, <2>2, AskRefines
  <1>3. CASE AcceptFails \/ RejectOffer
    BY <1>3, NothingRefines DEF AcceptFails, RejectOffer, stored, files, bounds
  <1>4. CASE Pause(p)
    BY <1>4, MarkRefines DEF Pause, MarkInLoop, files, Statuses
  <1>5. CASE Resume(p)
    <2>1. CASE p = "receiver"
      <3>1. Joined
        BY <1>5, <2>1 DEF Resume, Joined
      <3>2. /\ Save("receiver", With("receiver", "Accepted")) /\ UNCHANGED out
            /\ overlapped' \in {overlapped, TRUE}
        BY <1>5, <2>1, AskSays DEF Resume, SetStatus, files
      <3>3. With("receiver", "Accepted").done = manifest["receiver"].done
        BY <1>a, <2>1 DEF With, Manifests, None, Manifest
      <3> QED
        BY <3>1, <3>2, <3>3, SaveRefines
    <2>2. CASE p = "sender"
      <3>1. Mark(p, "Offered") /\ UNCHANGED <<sidecar, outdated, overlapped, out>>
        BY <1>5, <2>2 DEF Resume, SetStatus, Save, Mark, files
      <3> QED
        BY <3>1, MarkRefines DEF Statuses
    <2> QED
      BY <2>1, <2>2 DEF Peers
  <1>6. CASE Cancel(p)
    <2>1. UNCHANGED <<overlapped, out>>
      BY <1>6 DEF Cancel, files
    <2>2. \/ UNCHANGED <<manifest, sidecar, outdated>>
          \/ Mark(p, "Cancelled") /\ UNCHANGED <<sidecar, outdated>>
      BY <1>6 DEF Cancel, MarkCancelled, MarkInLoop, stored
    <2> QED
      BY <2>1, <2>2, NothingRefines, MarkRefines DEF Statuses
  <1> QED
    BY <1>1, <1>2, <1>3, <1>4, <1>5, <1>6 DEF User

\* The loops.
LEMMA FinishRefines ==
    ASSUME RecordInv, Typed, Typed', NEW p \in Peers, Finish(p)
    PROVE  Refines
  <1>1. CASE LoopSaves
    <2>1. Joined
      BY <1>1 DEF LoopSaves, LoopIsSaving, RecordInv, ManifestsOK
    <2> QED
      BY <1>1, <2>1, CopyRefines DEF LoopSaves, files, bounds
  <1>2. CASE CancelTells(p) \/ PauseStops(p)
    BY <1>2, NothingRefines DEF CancelTells, PauseStops, files, bounds
  <1> QED
    BY <1>1, <1>2 DEF Finish

LEMMA AckRefines ==
    ASSUME RecordInv, Typed, HandleAck
    PROVE  Refines
  <1> DEFINE q == wire["sender"]
             c == Head(q).chunk
             d == manifest["sender"].done \cup {c}
  <1>1. q # <<>> /\ Head(q).type = "ack" /\ q \in Seq(Messages)
    BY DEF HandleAck, Incoming, Typed, Loops, Peers
  <1>2. Head(q) \in Messages
    <2> HIDE DEF q
    <2> QED
      BY <1>1
  <1>3. c \in Chunks
    BY <1>1, <1>2 DEF Messages
  <1>4. Good(Head(q))
    BY <1>1, HeadIsGood
  <1>5. c \in sidecar \/ outdated
    BY <1>1, <1>4 DEF Good
  <1>6. manifest'["sender"] = Manifest("Accepted", d)
    BY DEF HandleAck, Save, Typed, Loops, Recorded, Peers
  <1>7. Manifest("Accepted", d).status = "Accepted" /\ Manifest("Accepted", d).done = d
    BY DEF Manifest
  <1>8. UNCHANGED <<sidecar, outdated, overlapped, out>>
    BY DEF HandleAck, Save, files, bounds
  <1> HIDE DEF c
  <1>9. Promise!Count(c)
    BY <1>5, <1>6, <1>7, <1>8 DEF Promise!Count
  <1> QED
    BY <1>3, <1>8, <1>9 DEF Refines, Promise!Next

\* The sender's report: the file is there, unless deliveries overlap.
LEMMA ReportRefines ==
    ASSUME Typed, DeliveryInv, HandleComplete("sender")
    PROVE  Refines
  <1>1. manifest \in [Peers -> Manifests] /\ manifest["sender"] \in Manifests
    BY DEF Typed, Loops, Recorded, Peers
  <1>2. manifest'["sender"] = With("sender", "Complete")
    BY <1>1 DEF HandleComplete, SetStatus, Save, Peers
  <1>3. /\ With("sender", "Complete").status = "Complete"
        /\ With("sender", "Complete").done = manifest["sender"].done
    BY <1>1 DEF With, Manifests, None, Manifest
  <1>4. UNCHANGED <<sidecar, outdated, overlapped, out>>
    BY DEF HandleComplete, SetStatus, Save, files, bounds
  <1>5. CASE overlapped
    BY <1>2, <1>3, <1>4, <1>5, SpoilRefines
  <1>6. CASE ~overlapped
    <2>1. /\ wire["sender"] \in Seq(Messages) /\ wire["sender"] # <<>>
          /\ Head(wire["sender"]).type = "complete"
      BY DEF HandleComplete, Incoming, Typed, Loops, Peers
    <2>2. Tells(wire["sender"])
      BY <2>1, TailKinds
    <2>3. out = Chunks
      BY <1>6, <2>2 DEF DeliveryInv, Delivery, Reported
    <2>4. FileAt(out) = "whole"
      BY <2>3, FileKinds
    <2>5. Promise!Report
      BY <1>2, <1>3, <1>4, <2>4 DEF Promise!Report, FileAt
    <2> QED
      BY <1>4, <2>5 DEF Refines, Promise!Next
  <1> QED
    BY <1>5, <1>6

LEMMA AcceptLeaves ==
    ASSUME NEW t \in Sends, HandleAccept(t)
    PROVE  UNCHANGED <<manifest, stored, files, bounds>>
  BY DEF HandleAccept

LEMMA HandleRefines ==
    ASSUME RecordInv, DeliveryInv, Typed, Typed', NEW p \in Peers, Handle(p)
    PROVE  Refines
  <1>1. CASE HandleOffer
    BY <1>1, NothingRefines DEF HandleOffer, stored, files, bounds
  <1>4. ASSUME NEW t \in Sends, HandleAccept(t) PROVE Refines
    BY <1>4, AcceptLeaves, NothingRefines DEF stored, files, bounds
  <1>2. CASE HandleCancel(p)
    <2>1. UNCHANGED <<overlapped, out>>
      BY <1>2 DEF HandleCancel, files, bounds
    <2>2. \/ UNCHANGED <<manifest, sidecar, outdated>>
          \/ Mark(p, "Cancelled") /\ UNCHANGED <<sidecar, outdated>>
      BY <1>2 DEF HandleCancel, MarkCancelled, MarkInLoop, stored
    <2> QED
      BY <2>1, <2>2, NothingRefines, MarkRefines DEF Statuses
  <1>3. CASE HandleComplete(p)
    <2>1. CASE p = "sender"
      BY <1>3, <2>1, ReportRefines
    <2>2. CASE p # "sender"
      BY <1>3, <2>2, NothingRefines DEF HandleComplete, stored, files, bounds
    <2> QED
      BY <2>1, <2>2
  <1> QED
    BY <1>1, <1>2, <1>3, <1>4, AckRefines DEF Handle

\* The send task.
LEMMA WriterRefines ==
    ASSUME RecordInv, Typed, Typed', NEW t \in Sends, Writer(t)
    PROVE  Refines
  <1>1. CASE WriterStart(t)
    <2>1. Mark("sender", "Accepted") /\ UNCHANGED <<sidecar, outdated, overlapped, out>>
      BY <1>1 DEF WriterStart, Started, SetStatus, Save, Mark, files, bounds
    <2> QED
      BY <2>1, MarkRefines DEF Peers, Statuses
  <1>2. CASE WriterFail(t)
    BY <1>2, MarkRefines DEF WriterFail, stored, files, bounds, Peers, Statuses
  <1>3. CASE WriterWrite(t) \/ WriterTells(t)
    BY <1>3, NothingRefines DEF WriterWrite, WriterTells, stored, files, bounds
  <1> QED
    BY <1>1, <1>2, <1>3 DEF Writer

\* The receiver's task: what it records, and where it puts the file.
LEMMA RecordRefines ==
    ASSUME RecordInv, Typed, Typed', NEW t \in Sends, ReaderRecord(t)
    PROVE  Refines
  <1> DEFINE c == task[t].read
             d == manifest["receiver"].done \cup {c}
  <1>1. task[t].reader = "record" /\ Joined
    BY DEF ReaderRecord, At, RecordInv, TasksOK
  <1>a. Formed(task[t])
    BY TaskFields
  <1>2. c \in Chunks
    BY <1>1, <1>a DEF Formed, Early
  <1>3. Save("receiver", Manifest("Accepted", d)) /\ UNCHANGED <<overlapped, out>>
    BY DEF ReaderRecord, Record, files, bounds
  <1>4. Manifest("Accepted", d).done = d
    BY DEF Manifest
  <1> HIDE DEF c
  <1> QED
    BY <1>1, <1>2, <1>3, <1>4, SaveRefines

LEMMA RemoveRefines ==
    ASSUME Typed, DeliveryInv, NEW t \in Sends, ReaderRemove(t)
    PROVE  Refines
  <1>1. /\ task[t].reader = "remove" /\ out' = NoFile
        /\ UNCHANGED <<manifest, sidecar, outdated, overlapped>>
    BY DEF ReaderRemove, At, stored, bounds
  <1>2. CASE overlapped
    BY <1>1, <1>2, SpoilRefines
  <1>3. CASE ~overlapped
    <2>1. Pending(task[t]) /\ OutputIsWhole
      BY <1>3 DEF DeliveryInv, Delivery
    <2>a. Formed(task[t])
      BY TaskFields
    <2>2. task[t].writer # "spawned"
      BY <1>1, <2>a DEF Formed
    <2>3. manifest["sender"].status # "Complete"
      BY <1>1, <2>1, <2>2 DEF Pending
    <2>4. CASE out = NoFile
      BY <1>1, <2>4, NothingRefines
    <2>5. CASE out = Chunks
      <3>1. FileAt(out) = "whole" /\ FileAt(out') = "none"
        BY <1>1, <2>5, FileKinds
      <3>2. Promise!Remove
        BY <1>1, <2>3, <3>1 DEF Promise!Remove, FileAt
      <3> QED
        BY <1>1, <3>2 DEF Refines, Promise!Next
    <2> QED
      BY <2>1, <2>4, <2>5 DEF OutputIsWhole
  <1> QED
    BY <1>2, <1>3

LEMMA RenameRefines ==
    ASSUME Typed, DeliveryInv, NEW t \in Sends, ReaderRename(t)
    PROVE  Refines
  <1>1. /\ task[t].reader = "rename" /\ out' = part
        /\ UNCHANGED <<manifest, sidecar, outdated, overlapped>>
    BY DEF ReaderRename, At, stored, bounds
  <1>2. CASE overlapped
    BY <1>1, <1>2, SpoilRefines
  <1>3. CASE ~overlapped
    <2>1. out' = Chunks
      BY <1>1, <1>3 DEF DeliveryInv, Delivery, Sound
    <2>2. FileAt(out') = "whole"
      BY <2>1, FileKinds
    <2>3. Promise!Deliver
      BY <1>1, <2>2 DEF Promise!Deliver, FileAt
    <2> QED
      BY <1>1, <2>3 DEF Refines, Promise!Next
  <1> QED
    BY <1>2, <1>3

LEMMA ReaderRefines ==
    ASSUME RecordInv, DeliveryInv, Typed, Typed', NEW t \in Sends, Reader(t)
    PROVE  Refines
  <1>1. CASE \/ ReaderOpen(t) \/ ReaderCheck(t) \/ ReaderRead(t) \/ ReaderCutOff(t)
             \/ ReaderFlush(t) \/ ReaderNoPart(t)
    BY <1>1, NothingRefines
    DEF ReaderOpen, ReaderCheck, ReaderRead, ReaderCutOff, ReaderFlush, ReaderNoPart,
        stored, files, bounds
  <1>2. CASE ReaderHash(t)
    <2>1. UNCHANGED manifest \/ Mark("receiver", "Failed")
      BY <1>2 DEF ReaderHash
    <2>2. UNCHANGED <<sidecar, outdated, overlapped, out>>
      BY <1>2 DEF ReaderHash, stored, files, bounds
    <2> QED
      BY <2>1, <2>2, NothingRefines, MarkRefines DEF Peers, Statuses
  <1>3. CASE ReaderSave(t)
    <2>1. Joined
      BY <1>3 DEF ReaderSave, At, RecordInv, TasksOK
    <2> QED
      BY <1>3, <2>1, CopyRefines DEF ReaderSave, files, bounds
  <1>4. CASE ReaderComplete(t)
    <2>1. Joined
      BY <1>4 DEF ReaderComplete, At, RecordInv, TasksOK
    <2>2. /\ Save("receiver", With("receiver", "Complete")) /\ UNCHANGED <<overlapped, out>>
      BY <1>4 DEF ReaderComplete, SetStatus, files, bounds
    <2>3. With("receiver", "Complete").done = manifest["receiver"].done
      BY DEF With, Typed, Loops, Recorded, Peers, Manifests, None, Manifest
    <2> QED
      BY <2>1, <2>2, <2>3, SaveRefines
  <1> QED
    BY <1>1, <1>2, <1>3, <1>4, RecordRefines, RemoveRefines, RenameRefines DEF Reader

LEMMA LandsRefines ==
    ASSUME Typed, DeliveryInv, NEW t \in Sends, BufferLands(t)
    PROVE  Refines
  <1>1. UNCHANGED <<manifest, sidecar, outdated, overlapped>>
    BY DEF BufferLands, stored, bounds
  <1>2. CASE overlapped
    BY <1>1, <1>2, SpoilRefines
  <1>3. CASE ~overlapped
    <2>1. task[t].sink = "part"
      BY <1>3 DEF BufferLands, DeliveryInv, Delivery, Sound
    <2>2. out' = out
      BY <2>1 DEF BufferLands
    <2> QED
      BY <1>1, <2>2, NothingRefines
  <1> QED
    BY <1>2, <1>3

\* What a lost link leaves of the record was in it: a copy, or the sidecar.
LEMMA LinkDownRefines ==
    ASSUME RefineInv, Typed, Typed', LinkDown
    PROVE  [Promise!Next]_(Promise!vars) /\ CopiesOK'
  <1>1. /\ manifest'["sender"] = None /\ outdated' = FALSE /\ overlapped' = overlapped
        /\ saving'["receiver"] = Idle /\ \A t \in Sends : task'[t] = NoTask
    BY DEF LinkDown, Peers
  <1>2. None.status = "None" /\ None.done = {} /\ Idle.copy = {} /\ NoTask.copy = {}
    BY DEF None, Manifest, Idle, NoTask
  <1>3. sidecar' \in SUBSET (IF outdated THEN Chunks ELSE sidecar)
    <2>1. CASE outdated
      BY <2>1 DEF Typed, Loops, Recorded
    <2>2. CASE ~outdated
      <3>1. CopiesOK
        BY <2>2 DEF RefineInv
      <3>2. \A c \in PendingCopies : c \subseteq sidecar
        BY <3>1 DEF PendingCopies, CopiesOK
      <3> QED
        BY <2>2, <3>2 DEF LinkDown
    <2> QED
      BY <2>1, <2>2
  <1>4. overlapped \/ out' = out
    <2> SUFFICES ASSUME ~overlapped PROVE out' = out
      OBVIOUS
    <2>1. PICK landing \in SUBSET {t \in Sends : task[t].buffer # 0} :
             out' = out \cup Landed(landing, "out")
      BY DEF LinkDown, Landed
    <2>2. Landed(landing, "out") = {}
      BY DEF Landed, RefineInv, DeliveryInv, Delivery, Sound
    <2> QED
      BY <2>1, <2>2
  <1>5. Promise!Break
    <2>1. FileAt(out') \in IF overlapped THEN Promise!Files ELSE {FileAt(out)}
      BY <1>4, FileKinds DEF Promise!Files
    <2> QED
      BY <1>1, <1>2, <1>3, <2>1 DEF Promise!Break, FileAt
  <1>6. CopiesOK'
    BY <1>1, <1>2 DEF CopiesOK
  <1> QED
    BY <1>5, <1>6 DEF Promise!Next

LEMMA StepRefines ==
    ASSUME RecordInv, DeliveryInv, DeliveryInv', [Next]_vars, ~LinkDown
    PROVE  Refines
  <1>a. Typed /\ Typed'
    BY DEF DeliveryInv
  <1>1. CASE UNCHANGED vars
    BY <1>a, <1>1, NothingRefines DEF vars
  <1>2. ASSUME NEW p \in Peers, User(p) \/ Handle(p) \/ Finish(p) PROVE Refines
    BY <1>a, <1>2, UserRefines, HandleRefines, FinishRefines
  <1>3. ASSUME NEW t \in Sends, Writer(t) \/ Reader(t) \/ BufferLands(t) PROVE Refines
    BY <1>a, <1>3, WriterRefines, ReaderRefines, LandsRefines
  <1> QED
    BY <1>1, <1>2, <1>3 DEF Next, System

\* Where a copy comes from: it is the manifest of the receiver at the time.
Copied(old, new) == new \in {old, {}, manifest["receiver"].done}

LEMMA LoopCopies ==
    ASSUME Typed, [Next]_vars, ~LinkDown
    PROVE  Copied(saving["receiver"].copy, saving'["receiver"].copy)
  <1>a. saving \in [Peers -> Savings] /\ Idle.copy = {}
    BY DEF Typed, Loops, Recorded, Idle
  <1>b. \A th \in {"tell", "stop", "idle"} : [Idle EXCEPT !.then = th].copy = {}
    BY DEF Idle
  <1>1. CASE UNCHANGED saving
    BY <1>1 DEF Copied
  <1>2. ASSUME NEW p \in Peers, NEW st, NEW th \in {"return", "cancel", "pause"},
               MarkInLoop(p, st, th)
        PROVE  Copied(saving["receiver"].copy, saving'["receiver"].copy)
    <2>1. CASE p = "receiver"
      BY <1>2, <1>a, <2>1 DEF MarkInLoop, Copied
    <2>2. CASE p # "receiver"
      BY <1>2, <1>a, <2>2 DEF MarkInLoop, Copied, Peers
    <2> QED
      BY <2>1, <2>2
  <1>3. CASE LoopSaves
    <2>1. AfterSave(saving["receiver"].then) \in {"idle", "tell", "stop"}
      BY <1>3 DEF LoopSaves, LoopIsSaving, AfterSave
    <2> QED
      BY <1>3, <1>a, <1>b, <2>1 DEF LoopSaves, Copied, Peers
  <1>4. ASSUME NEW p \in Peers, CancelTells(p) \/ PauseStops(p)
        PROVE  Copied(saving["receiver"].copy, saving'["receiver"].copy)
    <2>1. saving' = [saving EXCEPT ![p] = Idle]
      BY <1>4 DEF CancelTells, PauseStops
    <2> QED
      BY <1>a, <2>1 DEF Copied, Peers
  <1>5. ASSUME NEW p \in Peers, User(p)
        PROVE  Copied(saving["receiver"].copy, saving'["receiver"].copy)
    BY <1>1, <1>2, <1>5
    DEF User, OfferFile, AcceptOffer, AcceptFails, RejectOffer, Pause, Resume, Cancel,
        MarkCancelled, SetStatus, Save, stored
  <1>6. ASSUME NEW p \in Peers, Handle(p)
        PROVE  Copied(saving["receiver"].copy, saving'["receiver"].copy)
    <2>1. CASE HandleCancel(p)
      BY <1>1, <1>2, <2>1 DEF HandleCancel, MarkCancelled, stored
    <2>2. CASE ~HandleCancel(p)
      <3>1. \A t \in Sends : HandleAccept(t) => UNCHANGED saving
        BY AcceptLeaves DEF stored
      <3>2. UNCHANGED saving
        BY <1>6, <2>2, <3>1
        DEF Handle, HandleOffer, HandleAck, HandleComplete, SetStatus, Save, stored
      <3> QED
        BY <1>1, <3>2
    <2> QED
      BY <2>1, <2>2
  <1>7. ASSUME NEW t \in Sends, Writer(t) \/ Reader(t) \/ BufferLands(t) PROVE UNCHANGED saving
    BY <1>7
    DEF Writer, WriterStart, WriterWrite, WriterFail, WriterTells, Reader, ReaderOpen,
        ReaderCheck, ReaderRead, ReaderCutOff, ReaderRecord, Record, ReaderFlush, ReaderHash,
        ReaderSave, ReaderRemove, ReaderRename, ReaderNoPart, ReaderComplete, BufferLands,
        SetStatus, Save, stored
  <1>8. CASE UNCHANGED vars
    BY <1>1, <1>8 DEF vars
  <1> QED
    BY <1>1, <1>3, <1>4, <1>5, <1>6, <1>7, <1>8 DEF Next, System, Finish

\* Only its own field of a task changes its copy.
LEMMA CopyStays ==
    ASSUME NEW r \in Tasks
    PROVE  /\ \A w, k : [r EXCEPT !.writer = w, !.reader = k].copy = r.copy
           /\ \A w : [r EXCEPT !.writer = w].copy = r.copy
           /\ \A k : [r EXCEPT !.reader = k].copy = r.copy
           /\ \A k, s : [r EXCEPT !.reader = k, !.sink = s].copy = r.copy
           /\ \A k, b : [r EXCEPT !.reader = k, !.buffer = b].copy = r.copy
           /\ \A b : [r EXCEPT !.buffer = b].copy = r.copy
           /\ \A k, c : [r EXCEPT !.read = c, !.reader = k].copy = r.copy
           /\ \A w, c : [r EXCEPT !.next = c, !.writer = w].copy = r.copy
           /\ \A s : [r EXCEPT !.sink = s].copy = r.copy
           /\ \A k, d : [r EXCEPT !.reader = k, !.copy = d].copy = d
  BY DEF Tasks

LEMMA SetCopies ==
    ASSUME Typed, NEW t \in Sends, NEW r, SetTask(t, r), Copied(task[t].copy, r.copy)
    PROVE  \A u \in Sends : Copied(task[u].copy, task'[u].copy)
  <1>1. NoTask.copy = {}
    BY DEF NoTask
  <1>2. \/ task' = [task EXCEPT ![t] = r]
        \/ task' = [task EXCEPT ![t] = NoTask]
    BY DEF SetTask
  <1>3. task \in [Sends -> Tasks]
    BY DEF Typed
  <1> QED
    BY <1>1, <1>2, <1>3 DEF Copied

LEMMA WriterCopies ==
    ASSUME Typed, NEW t \in Sends, Writer(t)
    PROVE  \A u \in Sends : Copied(task[u].copy, task'[u].copy)
  <1>a. task[t] \in Tasks
    BY DEF Typed
  <1>1. ASSUME NEW w, NEW d,
               SetTask(t, [task[t] EXCEPT !.writer = w, !.reader = d])
        PROVE  \A u \in Sends : Copied(task[u].copy, task'[u].copy)
    <2>1. [task[t] EXCEPT !.writer = w, !.reader = d].copy = task[t].copy
      BY <1>a, CopyStays
    <2> QED
      BY <1>1, <2>1, SetCopies DEF Copied
  <1>2. ASSUME NEW w, SetTask(t, [task[t] EXCEPT !.writer = w])
        PROVE  \A u \in Sends : Copied(task[u].copy, task'[u].copy)
    <2>1. [task[t] EXCEPT !.writer = w].copy = task[t].copy
      BY <1>a, CopyStays
    <2> QED
      BY <1>2, <2>1, SetCopies DEF Copied
  <1>3. CASE WriterStart(t)
    <2>1. CASE task[t].next > N
      BY <1>1, <1>3, <2>1 DEF WriterStart
    <2>2. CASE ~(task[t].next > N)
      BY <1>2, <1>3, <2>2 DEF WriterStart
    <2> QED
      BY <2>1, <2>2
  <1>4. CASE WriterTells(t)
    BY <1>2, <1>4 DEF WriterTells
  <1>5. CASE WriterFail(t)
    <2> DEFINE r == [task[t] EXCEPT !.writer = "failed",
                                    !.reader = IF @ = "no stream" THEN "ended" ELSE @]
    <2>1. r.copy = task[t].copy
      BY <1>a, CopyStays
    <2>2. SetTask(t, r)
      BY <1>5 DEF WriterFail
    <2> HIDE DEF r
    <2> QED
      BY <2>1, <2>2, SetCopies DEF Copied
  <1>6. CASE WriterWrite(t)
    <2> DEFINE c == task[t].next
               opened == IF task[t].reader = "no stream"
                         THEN [task[t] EXCEPT !.reader = "incoming", !.read = c] ELSE task[t]
               r == [opened EXCEPT !.next = c + 1,
                                   !.writer = IF LastOfRange(c) THEN "ended" ELSE "writing"]
    <2>1. SetTask(t, r)
      BY <1>6 DEF WriterWrite
    <2>2. r.copy = task[t].copy
      BY <1>a, CopyStays
    <2> HIDE DEF r
    <2> QED
      BY <2>1, <2>2, SetCopies DEF Copied
  <1> QED
    BY <1>3, <1>4, <1>5, <1>6 DEF Writer

LEMMA ReaderCopies ==
    ASSUME Typed, NEW t \in Sends, Reader(t) \/ BufferLands(t)
    PROVE  \A u \in Sends : Copied(task[u].copy, task'[u].copy)
  <1>a. task \in [Sends -> Tasks] /\ task[t] \in Tasks
    BY DEF Typed
  <1>1. ASSUME NEW k, Go(t, k) PROVE \A u \in Sends : Copied(task[u].copy, task'[u].copy)
    <2>1. [task[t] EXCEPT !.reader = k].copy = task[t].copy
      BY <1>a, CopyStays
    <2> QED
      BY <1>1, <2>1, SetCopies DEF Go, Copied
  <1>2. CASE \/ ReaderCheck(t) \/ ReaderCutOff(t) \/ ReaderFlush(t) \/ ReaderNoPart(t)
             \/ ReaderComplete(t)
    BY <1>1, <1>2 DEF ReaderCheck, ReaderCutOff, ReaderFlush, ReaderNoPart, ReaderComplete
  <1>3. CASE ReaderOpen(t) \/ ReaderRead(t) \/ BufferLands(t)
    <2>1. /\ [task[t] EXCEPT !.reader = "check", !.sink = "part"].copy = task[t].copy
          /\ [task[t] EXCEPT !.reader = "record", !.buffer = task[t].read].copy = task[t].copy
          /\ [task[t] EXCEPT !.buffer = 0].copy = task[t].copy
      BY <1>a, CopyStays
    <2>2. \/ SetTask(t, [task[t] EXCEPT !.reader = "check", !.sink = "part"])
          \/ SetTask(t, [task[t] EXCEPT !.reader = "record", !.buffer = task[t].read])
          \/ SetTask(t, [task[t] EXCEPT !.buffer = 0])
      BY <1>3 DEF ReaderOpen, ReaderRead, BufferLands
    <2> QED
      BY <2>1, <2>2, SetCopies DEF Copied
  <1>4. CASE ReaderRecord(t)
    <2> DEFINE c == task[t].read
               r == [task[t] EXCEPT !.read = c + 1,
                                    !.reader = IF c = N THEN "flush" ELSE "check"]
    <2>1. SetTask(t, r)
      BY <1>4 DEF ReaderRecord
    <2>2. r.copy = task[t].copy
      BY <1>a, CopyStays
    <2> HIDE DEF r
    <2> QED
      BY <2>1, <2>2, SetCopies DEF Copied
  <1>5. CASE ReaderHash(t)
    <2> DEFINE d == manifest["receiver"].done
               r == [task[t] EXCEPT !.reader = "save", !.copy = d]
    <2>1. r.copy = d
      BY <1>a, CopyStays
    <2>2. SetTask(t, r) \/ \E k \in {"remove", "ended"} : Go(t, k)
      BY <1>5 DEF ReaderHash
    <2> HIDE DEF r
    <2> QED
      BY <1>1, <2>1, <2>2, SetCopies DEF Copied
  <1>6. CASE ReaderSave(t)
    <2> DEFINE r == [task[t] EXCEPT !.reader = "ended", !.copy = {}]
    <2>1. r.copy = {}
      BY <1>a, CopyStays
    <2>2. SetTask(t, r)
      BY <1>6 DEF ReaderSave
    <2> HIDE DEF r
    <2> QED
      BY <2>1, <2>2, SetCopies DEF Copied
  <1>7. ASSUME NEW f, NEW k, task' = [Reopened(f) EXCEPT ![t].reader = k]
        PROVE  \A u \in Sends : Copied(task[u].copy, task'[u].copy)
    <2> SUFFICES ASSUME NEW u \in Sends PROVE task'[u].copy = task[u].copy
      BY DEF Copied
    <2> DEFINE r == Reopened(f)[u]
    <2>1. r = [task[u] EXCEPT !.sink = f[@]]
      BY DEF Reopened
    <2>2. r.copy = task[u].copy /\ [r EXCEPT !.reader = k].copy = r.copy
      BY <1>a, <2>1, CopyStays
    <2>3. task'[u] = r \/ task'[u] = [r EXCEPT !.reader = k]
      BY <1>7 DEF Reopened
    <2> QED
      BY <2>2, <2>3
  <1>8. CASE ReaderRemove(t) \/ ReaderRename(t)
    BY <1>7, <1>8 DEF ReaderRemove, ReaderRename
  <1> QED
    BY <1>2, <1>3, <1>4, <1>5, <1>6, <1>8 DEF Reader

LEMMA AcceptCopies ==
    ASSUME Typed, NEW t \in Sends, HandleAccept(t)
    PROVE  \A u \in Sends : Copied(task[u].copy, task'[u].copy)
  <1>1. PICK c \in 1 .. N + 1 :
           task' = [task EXCEPT ![t] = [NoTask EXCEPT !.writer = "spawned", !.next = c,
                                                      !.reader = "no stream"]]
    BY DEF HandleAccept
  <1> DEFINE r == [NoTask EXCEPT !.writer = "spawned", !.next = c, !.reader = "no stream"]
  <1>2. r.copy = {}
    BY DEF NoTask
  <1>3. task' = [task EXCEPT ![t] = r] /\ task \in [Sends -> Tasks]
    BY <1>1 DEF Typed
  <1> HIDE DEF r
  <1> QED
    BY <1>2, <1>3 DEF Copied

LEMMA TaskCopies ==
    ASSUME Typed, [Next]_vars, ~LinkDown
    PROVE  \A u \in Sends : Copied(task[u].copy, task'[u].copy)
  <1>1. CASE UNCHANGED task
    BY <1>1 DEF Copied
  <1>3. ASSUME NEW p \in Peers, User(p) \/ Finish(p) PROVE UNCHANGED task
    BY <1>3
    DEF User, OfferFile, AcceptOffer, AcceptFails, RejectOffer, Pause, Resume, Cancel,
        Finish, LoopSaves, CancelTells, PauseStops
  <1>4. ASSUME NEW p \in Peers, Handle(p)
        PROVE  \A u \in Sends : Copied(task[u].copy, task'[u].copy)
    BY <1>1, <1>4, AcceptCopies
    DEF Handle, HandleOffer, HandleAck, HandleCancel, HandleComplete
  <1>5. ASSUME NEW t \in Sends, Writer(t) \/ Reader(t) \/ BufferLands(t)
        PROVE  \A u \in Sends : Copied(task[u].copy, task'[u].copy)
    BY <1>5, WriterCopies, ReaderCopies
  <1>6. CASE UNCHANGED vars
    BY <1>1, <1>6 DEF vars
  <1> QED
    BY <1>1, <1>3, <1>4, <1>5, <1>6 DEF Next, System

\* A step that neither loses the link nor lets the record lapse keeps the copies
\* within it.
LEMMA CopiesStep ==
    ASSUME RefineInv, Refines, ~outdated', [Next]_vars, ~LinkDown
    PROVE  CopiesOK'
  <1>1. ~outdated /\ sidecar \subseteq sidecar' /\ CopiesOK /\ Typed
    BY DEF Refines, RefineInv, DeliveryInv
  <1>2. manifest["receiver"].done \subseteq sidecar
    BY <1>1, NoneShape DEF RefineInv, RecordInv, ManifestsOK
  <1>3. \A old, new : old \subseteq sidecar /\ Copied(old, new) => new \subseteq sidecar'
    BY <1>1, <1>2 DEF Copied
  <1>4. saving'["receiver"].copy \subseteq sidecar'
    BY <1>1, <1>3, LoopCopies DEF CopiesOK
  <1>5. \A u \in Sends : task'[u].copy \subseteq sidecar'
    BY <1>1, <1>3, TaskCopies DEF CopiesOK
  <1> QED
    BY <1>4, <1>5 DEF CopiesOK

\* The transfer delivers the file as FileDelivery promises: its record only grows
\* while the link lasts and has not lapsed, a lost link adds nothing to it, and the
\* file leaves the path only while the sender does not report it.
THEOREM TransferImplementsDelivery == Spec => ImplementsDelivery
  <1>1. Init => Promise!Init
    <2> SUFFICES ASSUME Init PROVE Promise!Init
      OBVIOUS
    <2>1. manifest["sender"] = None /\ None.status = "None" /\ None.done = {}
      BY DEF Init, None, Manifest, Peers
    <2> QED
      BY <2>1 DEF Init, Promise!Init
  <1>2. Init => CopiesOK
    BY DEF Init, CopiesOK, Idle, NoTask, Peers
  <1>3. RefineInv /\ RecordInv' /\ DeliveryInv' /\ [Next]_vars
           => RefineInv' /\ [Promise!Next]_(Promise!vars)
    <2> SUFFICES ASSUME RefineInv, RecordInv', DeliveryInv', [Next]_vars
                 PROVE  RefineInv' /\ [Promise!Next]_(Promise!vars)
      OBVIOUS
    <2>1. CASE LinkDown
      BY <2>1, LinkDownRefines DEF RefineInv, DeliveryInv
    <2>2. CASE ~LinkDown
      <3>1. Refines
        BY <2>2, StepRefines DEF RefineInv
      <3>2. outdated' \/ CopiesOK'
        BY <2>2, <3>1, CopiesStep
      <3> QED
        BY <3>1, <3>2 DEF Refines, RefineInv
    <2> QED
      BY <2>1, <2>2
  <1>4. RecordInv /\ DeliveryInv /\ Init => RefineInv
    BY <1>2 DEF RefineInv
  <1> QED
    BY <1>1, <1>3, <1>4, RecordInvariant, DeliveryInvariant,
       PTL DEF Spec, ImplementsDelivery, Promise!Spec
=============================================================================
