------------------------ MODULE ConnectionWindowProofs ------------------------
(***************************************************************************)
(* Proofs that a window of the client does not fool its user: one that     *)
(* lets its user send has a link in use (DirectIsInUse), and one that has  *)
(* outlived its signaling keeps its session only for the link              *)
(* (KeptForItsLink); for any number of links and of troubles.              *)
(*                                                                         *)
(* The window believes the last event of its channel that says something   *)
(* of the matter, so both are about what is still to be read.  When the    *)
(* link of a Direct window has ended, and whenever a link is announced     *)
(* that has ended already, its loss is in the channel, behind every        *)
(* announcement of a link.  When the dispatch loop has ended and the       *)
(* window shows what it may not keep, or is still to read that the peer    *)
(* has left, the end of the signaling is in the channel, behind every such *)
(* word.  Reading keeps both: what is read last is the loss, or the end.   *)
(***************************************************************************)
EXTENDS ConnectionWindow, SequenceTheorems, TLAPS

\* Every x among the events of q is undone by a later y; and if b, there is a y.
Undone(q, x, y, b) ==
    /\ \A i \in 1 .. Len(q) : q[i] = x => \E j \in 1 .. Len(q) : j > i /\ q[j] = y
    /\ b => \E j \in 1 .. Len(q) : q[j] = y

Contains(q, x) == \E i \in 1 .. Len(q) : q[i] = x

\* The states that are no promise of a peer who is to come.
Keeps(w) == \/ state[w] \in {"Direct", "DirectFailed"}
            \/ state[w] = "Paired" /\ refused[w]

Listening(w) == /\ handle[w] => listens[w]
                /\ ~listens[w] => events[w] = <<>>
                /\ loop[w] = "none" => ~listens[w]

LossIsTold(w) == handle[w] /\ ~InUse(w)
                    => Undone(events[w], "established", "lost", state[w] = "Direct")

EndIsTold(w) == handle[w] /\ loop[w] = "ended"
                    => Undone(events[w], "left", "closed", ~Keeps(w))

Informed(w) == Listening(w) /\ LossIsTold(w) /\ EndIsTold(w)

WindowInv == TypeOK /\ \A w \in Window : Informed(w)

-----------------------------------------------------------------------------
(* Queues of events                                                        *)

LEMMA UndoneAdds ==
    ASSUME NEW q \in Seq(Event), NEW es \in Seq(Event), NEW x, NEW y, NEW b,
           ~Contains(es, x), Undone(q, x, y, b) \/ Contains(es, y)
    PROVE  Undone(q \o es, x, y, b)
  <1> DEFINE a == q \o es
  <1>1. /\ Len(q) \in Nat /\ Len(es) \in Nat /\ Len(a) = Len(q) + Len(es)
        /\ \A i \in 1 .. Len(q) : a[i] = q[i]
        /\ \A i \in 1 .. Len(es) : a[Len(q) + i] = es[i]
    OBVIOUS
  <1> HIDE DEF a
  <1>2. ASSUME NEW i \in 1 .. Len(a)
        PROVE  i \in 1 .. Len(q) \/ \E k \in 1 .. Len(es) : i = Len(q) + k /\ a[i] = es[k]
    <2>1. CASE i > Len(q)
      <3>1. i - Len(q) \in 1 .. Len(es) /\ i = Len(q) + (i - Len(q))
        BY <1>1, <2>1
      <3> QED
        BY <1>1, <3>1
    <2>2. CASE ~ (i > Len(q))
      BY <1>1, <2>2
    <2> QED
      BY <2>1, <2>2
  <1>3. \A k \in 1 .. Len(es) : Len(q) + k \in 1 .. Len(a)
    BY <1>1
  <1>4. \A i \in 1 .. Len(a) : a[i] = x => i \in 1 .. Len(q) /\ q[i] = x
    BY <1>1, <1>2 DEF Contains
  <1>5. CASE Contains(es, y)
    <2>1. PICK k \in 1 .. Len(es) : es[k] = y
      BY <1>5 DEF Contains
    <2>2. Len(q) + k \in 1 .. Len(a) /\ a[Len(q) + k] = y /\ \A i \in 1 .. Len(q) : Len(q) + k > i
      BY <1>1, <1>3, <2>1
    <2> QED
      BY <1>4, <2>2 DEF Undone, a
  <1>6. CASE Undone(q, x, y, b)
    <2>1. \A j \in 1 .. Len(q) : j \in 1 .. Len(a)
      BY <1>1
    <2> QED
      BY <1>1, <1>4, <1>6, <2>1 DEF Undone, a
  <1> QED
    BY <1>5, <1>6

\* Taking the first event and believing it.
LEMMA UndoneTail ==
    ASSUME NEW q \in Seq(Event), q # <<>>, NEW x, NEW y, x # y, NEW b, NEW c,
           Undone(q, x, y, b), c => Head(q) = x \/ (b /\ Head(q) # y)
    PROVE  Undone(Tail(q), x, y, c)
  <1> DEFINE a == Tail(q)
  <1>1. /\ Len(q) \in Nat /\ Len(q) > 0 /\ Len(a) = Len(q) - 1
        /\ \A i \in 1 .. Len(a) : a[i] = q[i + 1]
        /\ Head(q) = q[1]
    OBVIOUS
  <1> HIDE DEF a
  <1>2. ASSUME NEW i \in 1 .. Len(q), NEW j \in 1 .. Len(q), j > i, q[j] = y
        PROVE  \E k \in 1 .. Len(a) : k > i - 1 /\ a[k] = y
    <2>1. j - 1 \in 1 .. Len(a) /\ a[j - 1] = q[j] /\ j - 1 > i - 1
      BY <1>1, <1>2
    <2> QED
      BY <1>2, <2>1
  <1>3. ASSUME NEW i \in 1 .. Len(a), a[i] = x
        PROVE  \E k \in 1 .. Len(a) : k > i /\ a[k] = y
    <2>1. i + 1 \in 1 .. Len(q) /\ q[i + 1] = x /\ (i + 1) - 1 = i
      BY <1>1, <1>3
    <2>2. \E j \in 1 .. Len(q) : j > i + 1 /\ q[j] = y
      BY <2>1 DEF Undone
    <2> QED
      BY <1>2, <2>1, <2>2
  <1>4. ASSUME c PROVE \E k \in 1 .. Len(a) : a[k] = y
    <2>1. \E j \in 1 .. Len(q) : j > 1 /\ q[j] = y
      BY <1>1, <1>4 DEF Undone
    <2>2. 1 \in 1 .. Len(q)
      BY <1>1
    <2> QED
      BY <1>2, <2>1, <2>2
  <1> QED
    BY <1>3, <1>4 DEF Undone, a

\* Nothing is left to be undone of a window that has read everything.
LEMMA UndoneEmpty ==
    ASSUME NEW x, NEW y, NEW b, Undone(<<>>, x, y, b)
    PROVE  ~b
  BY DEF Undone

LEMMA OneEvent ==
    ASSUME NEW e \in Event
    PROVE  <<e>> \in Seq(Event) /\ \A x : Contains(<<e>>, x) <=> x = e
  <1>1. <<e>> \in Seq(Event) /\ Len(<<e>>) = 1 /\ <<e>>[1] = e
    OBVIOUS
  <1> QED
    BY <1>1 DEF Contains

\* What a session tells when its link is lost.
LEMMA LossEvents ==
    ASSUME NEW w \in Window
    PROVE  /\ Lost(w) \in Seq(Event) /\ Contains(Lost(w), "lost")
           /\ ~Contains(Lost(w), "established") /\ ~Contains(Lost(w), "left")
  <1>1. CASE Lost(w) = <<"lost">>
    BY <1>1, OneEvent DEF Event
  <1>2. CASE Lost(w) = <<"lost", "desktop-idle">>
    <2> DEFINE q == <<"lost", "desktop-idle">>
    <2>1. q \in Seq(Event) /\ Len(q) = 2 /\ q[1] = "lost" /\ q[2] = "desktop-idle"
      BY DEF Event
    <2> HIDE DEF q
    <2>2. \A i \in 1 .. Len(q) : i = 1 \/ i = 2
      BY <2>1
    <2>3. Contains(q, "lost") /\ ~Contains(q, "established") /\ ~Contains(q, "left")
      BY <2>1, <2>2 DEF Contains
    <2>4. Lost(w) = q
      BY <1>2 DEF q
    <2> QED
      BY <2>1, <2>3, <2>4
  <1> QED
    BY <1>1, <1>2 DEF Lost

-----------------------------------------------------------------------------
(* Types                                                                   *)

Envelopes == {"ready", "joined", "left", "signal"}
WindowTypes == /\ state \in [Window -> State]
               /\ handle \in [Window -> BOOLEAN]
               /\ listens \in [Window -> BOOLEAN]
               /\ worker \in [Window -> BOOLEAN]
               /\ closing \in [Window -> BOOLEAN]
               /\ refused \in [Window -> BOOLEAN]
EventTypes == events \in [Window -> Seq(Event)]
SignalTypes == /\ socket \in [Window -> {"none", "open", "leaving", "closed"}]
               /\ inbox \in [Window -> Seq(Envelopes)]
               /\ loop \in [Window -> {"none", "runs", "ended"}]
               /\ sent \in [Window -> BOOLEAN]
               /\ got \in [Window -> BOOLEAN]
               /\ tries \in [Window -> Nat]
LinkTypes == links \in Seq(Link) /\ Len(links) <= MaxLinks
TroubleTypes == troubles \in 0 .. MaxTroubles

LEMMA TypeParts ==
    TypeOK <=> WindowTypes /\ EventTypes /\ SignalTypes /\ LinkTypes /\ TroubleTypes
  BY DEF TypeOK, WindowTypes, EventTypes, SignalTypes, LinkTypes, TroubleTypes, Envelopes

LEMMA PartsPrimed ==
    ASSUME WindowTypes', EventTypes', SignalTypes', LinkTypes', TroubleTypes'
    PROVE  TypeOK'
  BY DEF TypeOK, WindowTypes, EventTypes, SignalTypes, LinkTypes, TroubleTypes, Envelopes

LEMMA WindowKept == WindowTypes /\ UNCHANGED window => WindowTypes'
  BY DEF WindowTypes, window
LEMMA EventsKept == EventTypes /\ UNCHANGED events => EventTypes'
  BY DEF EventTypes
LEMMA SignalKept == SignalTypes /\ UNCHANGED signaling => SignalTypes'
  BY DEF SignalTypes, signaling
LEMMA LinksKept == LinkTypes /\ UNCHANGED links => LinkTypes'
  BY DEF LinkTypes
LEMMA TroublesKept == TroubleTypes /\ UNCHANGED troubles => TroubleTypes'
  BY DEF TroubleTypes

LEMMA TroubleStep ==
    ASSUME TroubleTypes, Trouble
    PROVE  TroubleTypes'
  BY BoundsAssumption DEF TroubleTypes, Trouble

\* What is told reaches the channel of one window.
LEMMA TellStep ==
    ASSUME EventTypes, NEW w \in Window, NEW es \in Seq(Event), Tell(w, es)
    PROVE  /\ EventTypes'
           /\ events'[w] = IF listens[w] THEN events[w] \o es ELSE events[w]
           /\ \A v \in Window : v # w => events'[v] = events[v]
  <1>1. events[w] \o es \in Seq(Event)
    BY DEF EventTypes
  <1> QED
    BY <1>1 DEF Tell, EventTypes

LEMMA PeerOf == \A w \in Window : Peer(w) \in Window /\ Peer(w) # w
  BY DEF Peer, Window

LEMMA PassedTypes ==
    ASSUME NEW box \in [Window -> Seq(Envelopes)], NEW w \in Window, NEW m \in Envelopes
    PROVE  Passed(box, w, m) \in [Window -> Seq(Envelopes)]
  <1>1. Append(box[w], m) \in Seq(Envelopes)
    OBVIOUS
  <1> QED
    BY <1>1 DEF Passed

LEMMA BeginTypes ==
    ASSUME SignalTypes, NEW w \in Window, NEW both \in BOOLEAN, Begin(w, both)
    PROVE  tries' \in [Window -> Nat]
  BY DEF SignalTypes, Begin

LEMMA AnnounceTypes ==
    ASSUME SignalTypes, NEW w \in Window, NEW box \in [Window -> Seq(Envelopes)],
           NEW known \in BOOLEAN, Announce(w, box, known)
    PROVE  /\ inbox' \in [Window -> Seq(Envelopes)]
           /\ sent' \in [Window -> BOOLEAN] /\ got' \in [Window -> BOOLEAN]
           /\ tries' \in [Window -> Nat]
  <1>1. inbox' \in [Window -> Seq(Envelopes)]
    BY PassedTypes, PeerOf DEF Announce, Envelopes
  <1>2. tries' \in [Window -> Nat]
    BY BeginTypes DEF Announce
  <1> QED
    BY <1>1, <1>2 DEF Announce, SignalTypes

LEMMA LeavingTypes ==
    ASSUME SignalTypes, NEW w \in Window, NEW arrived \in Seq(Envelopes), Leaving(w, arrived),
           UNCHANGED <<loop, sent, got, tries>>
    PROVE  SignalTypes'
  <1>1. [inbox EXCEPT ![w] = arrived] \in [Window -> Seq(Envelopes)]
    BY DEF SignalTypes
  <1>2. inbox' \in [Window -> Seq(Envelopes)]
    BY <1>1, PassedTypes, PeerOf DEF Leaving, Envelopes
  <1>3. socket' \in [Window -> {"none", "open", "leaving", "closed"}]
    BY DEF Leaving, SignalTypes
  <1> QED
    BY <1>2, <1>3 DEF SignalTypes

\* One end of a link goes on to x; the connection may be closed with it.
EndSet(w, l, x) ==
    \/ links' = [links EXCEPT ![l].end[w] = x]
    \/ links' = [links EXCEPT ![l].end[w] = x, ![l].open = FALSE]

LEMMA EndStep ==
    ASSUME LinkTypes, NEW w \in Window, NEW l \in Ids,
           NEW x \in {"making", "queued", "up", "gone"}, EndSet(w, l, x)
    PROVE  /\ LinkTypes' /\ Ids' = Ids
           /\ \A k \in Ids, v \in Window :
                links'[k].end[v] = IF k = l /\ v = w THEN x ELSE links[k].end[v]
  <1>1. PICK r \in Link : /\ links' = [links EXCEPT ![l] = r]
                          /\ r.end = [links[l].end EXCEPT ![w] = x]
    <2>1. links[l] \in Link
      BY DEF LinkTypes, Ids
    <2> DEFINE r1 == [links[l] EXCEPT !.end[w] = x]
               r2 == [links[l] EXCEPT !.end[w] = x, !.open = FALSE]
    <2>2. /\ r1 \in Link /\ r1.end = [links[l].end EXCEPT ![w] = x]
          /\ r2 \in Link /\ r2.end = [links[l].end EXCEPT ![w] = x]
      BY <2>1 DEF Link
    <2>3. links' = [links EXCEPT ![l] = r1] \/ links' = [links EXCEPT ![l] = r2]
      BY <2>1 DEF EndSet
    <2> QED
      BY <2>2, <2>3
  <1>2. /\ links' \in Seq(Link) /\ Len(links') = Len(links)
        /\ \A k \in Ids : links'[k] = IF k = l THEN r ELSE links[k]
    BY <1>1, ExceptSeq DEF LinkTypes, Ids
  <1>3. \A k \in Ids : links[k] \in Link
    BY DEF LinkTypes, Ids
  <1> QED
    BY <1>1, <1>2, <1>3 DEF LinkTypes, Ids, Link

-----------------------------------------------------------------------------
(* What a window is told                                                   *)

LEMMA InUseKept ==
    ASSUME NEW v \in Window, UNCHANGED links
    PROVE  InUse(v)' <=> InUse(v)
  BY DEF InUse, Ids

\* Nothing of window v changes, and its link does not end.
LEMMA QuietKeeps ==
    ASSUME WindowInv, NEW v \in Window,
           state'[v] = state[v], handle'[v] = handle[v], listens'[v] = listens[v],
           refused'[v] = refused[v], events'[v] = events[v], loop'[v] = loop[v],
           InUse(v) => InUse(v)'
    PROVE  Informed(v)'
  BY DEF WindowInv, Informed, Listening, LossIsTold, EndIsTold, Undone, Keeps

\* Window v is told es: a link only if it is in use, the loss of its link, and
\* the end of the dispatch loop.
LEMMA HearsKeeps ==
    ASSUME WindowInv, NEW v \in Window, NEW es \in Seq(Event),
           state'[v] = state[v], handle'[v] = handle[v], listens'[v] = listens[v],
           refused'[v] = refused[v],
           events'[v] = IF listens[v] THEN events[v] \o es ELSE events[v],
           Contains(es, "established") => InUse(v)',
           InUse(v) => InUse(v)' \/ Contains(es, "lost"),
           loop'[v] = "none" => loop[v] = "none",
           loop'[v] = "ended" => /\ ~Contains(es, "left")
                                 /\ loop[v] = "ended" \/ Contains(es, "closed")
    PROVE  Informed(v)'
  <1>a. Informed(v)
    BY DEF WindowInv
  <1>b. events[v] \in Seq(Event)
    BY DEF WindowInv, TypeOK
  <1>1. Listening(v)'
    BY <1>a DEF Informed, Listening
  <1>2. LossIsTold(v)'
    <2> SUFFICES ASSUME handle[v], ~InUse(v)'
                 PROVE  Undone(events'[v], "established", "lost", state[v] = "Direct")
      BY DEF LossIsTold, Undone
    <2>1. events'[v] = events[v] \o es
      BY <1>a DEF Informed, Listening
    <2>2. \/ Undone(events[v], "established", "lost", state[v] = "Direct")
          \/ Contains(es, "lost")
      BY <1>a DEF Informed, LossIsTold
    <2> QED
      BY <1>b, <2>1, <2>2, UndoneAdds
  <1>3. EndIsTold(v)'
    <2> SUFFICES ASSUME handle[v], loop'[v] = "ended"
                 PROVE  Undone(events'[v], "left", "closed", ~Keeps(v))
      BY DEF EndIsTold, Undone, Keeps
    <2>1. events'[v] = events[v] \o es
      BY <1>a DEF Informed, Listening
    <2>2. Undone(events[v], "left", "closed", ~Keeps(v)) \/ Contains(es, "closed")
      BY <1>a DEF Informed, EndIsTold
    <2> QED
      BY <1>b, <2>1, <2>2, UndoneAdds
  <1> QED
    BY <1>1, <1>2, <1>3 DEF Informed

\* What happens to window w is nothing to the other one.
LEMMA OtherKeeps ==
    ASSUME WindowInv, NEW w \in Window, NEW v \in Window, v # w,
           state'[v] = state[v], handle'[v] = handle[v], listens'[v] = listens[v],
           refused'[v] = refused[v], loop'[v] = loop[v], NEW es \in Seq(Event),
           Tell(w, es) \/ UNCHANGED events, InUse(v) => InUse(v)'
    PROVE  Informed(v)'
  <1>1. events'[v] = events[v]
    BY TellStep, TypeParts DEF WindowInv
  <1> QED
    BY <1>1, QuietKeeps

\* A step of w's session that tells it e and leaves its links.
LEMMA SaysKeeps ==
    ASSUME WindowInv, NEW w \in Window, NEW e \in Event \ {"established", "left"}, Tell(w, <<e>>),
           UNCHANGED <<window, loop>>, \A v \in Window : InUse(v) => InUse(v)'
    PROVE  EventTypes' /\ \A v \in Window : Informed(v)'
  <1>1. /\ <<e>> \in Seq(Event) /\ ~Contains(<<e>>, "established")
        /\ ~Contains(<<e>>, "left")
    BY OneEvent
  <1>2. EventTypes' /\ events'[w] = IF listens[w] THEN events[w] \o <<e>> ELSE events[w]
    BY <1>1, TellStep, TypeParts DEF WindowInv
  <1>3. Informed(w)'
    BY <1>1, <1>2, HearsKeeps DEF window
  <1>4. ASSUME NEW v \in Window, v # w PROVE Informed(v)'
    BY <1>1, <1>4, OtherKeeps DEF window
  <1> QED
    BY <1>2, <1>3, <1>4

\* A step of w's session that tells nothing.
LEMMA SilentKeeps ==
    ASSUME WindowInv, UNCHANGED <<state, handle, listens, refused, events, loop>>,
           \A v \in Window : InUse(v) => InUse(v)'
    PROVE  \A v \in Window : Informed(v)'
  BY QuietKeeps

-----------------------------------------------------------------------------
(* The window                                                              *)

LEMMA StartSessionKeeps ==
    ASSUME WindowInv, NEW w \in Window, StartSession(w)
    PROVE  WindowInv'
  <1>a. TypeOK /\ WindowTypes /\ EventTypes /\ SignalTypes /\ LinkTypes /\ TroubleTypes
    BY TypeParts DEF WindowInv
  <1>1. WindowTypes'
    BY <1>a DEF StartSession, WindowTypes, State
  <1>2. inbox' \in [Window -> Seq(Envelopes)]
    <2>1. <<"ready">> \in Seq(Envelopes) /\ <<"ready", "joined">> \in Seq(Envelopes)
      BY DEF Envelopes
    <2>2. /\ [inbox EXCEPT ![w] = <<"ready">>] \in [Window -> Seq(Envelopes)]
          /\ [inbox EXCEPT ![w] = <<"ready", "joined">>] \in [Window -> Seq(Envelopes)]
      BY <1>a, <2>1 DEF SignalTypes
    <2>3. Passed([inbox EXCEPT ![w] = <<"ready", "joined">>], "host", "joined")
             \in [Window -> Seq(Envelopes)]
      BY <2>2, PassedTypes DEF Window, Envelopes
    <2> QED
      BY <1>a, <2>2, <2>3 DEF StartSession, SignalTypes
  <1>3. SignalTypes'
    <2>1. socket' \in [Window -> {"none", "open", "leaving", "closed"}]
      BY <1>a DEF StartSession, SignalTypes
    <2>2. loop' \in [Window -> {"none", "runs", "ended"}]
      BY <1>a DEF StartSession, SignalTypes
    <2> QED
      BY <1>a, <1>2, <2>1, <2>2 DEF StartSession, SignalTypes
  <1>4. TypeOK'
    BY <1>a, <1>1, <1>3, EventsKept, LinksKept, TroublesKept, PartsPrimed DEF StartSession
  <1>5. Informed(w)'
    <2>1. events'[w] = <<>>
      BY DEF WindowInv, Informed, Listening, StartSession
    <2>2. handle'[w] /\ listens'[w] /\ state'[w] = "Connecting" /\ loop'[w] = "runs"
      BY <1>a DEF StartSession, WindowTypes, SignalTypes
    <2> QED
      BY <2>1, <2>2 DEF Informed, Listening, LossIsTold, EndIsTold, Undone
  <1>6. ASSUME NEW v \in Window, v # w PROVE Informed(v)'
    BY <1>a, <1>6, QuietKeeps, InUseKept DEF StartSession, WindowTypes, SignalTypes
  <1> QED
    BY <1>4, <1>5, <1>6 DEF WindowInv

LEMMA DisconnectKeeps ==
    ASSUME WindowInv, NEW w \in Window, Disconnect(w)
    PROVE  WindowInv'
  <1>a. TypeOK /\ WindowTypes /\ EventTypes /\ SignalTypes /\ LinkTypes /\ TroubleTypes
    BY TypeParts DEF WindowInv
  <1>1. WindowTypes'
    BY <1>a DEF Disconnect, CaptureStopped, WindowTypes, State
  <1>2. EventTypes'
    BY <1>a DEF Disconnect, EventTypes
  <1>3. TypeOK'
    BY <1>a, <1>1, <1>2, SignalKept, LinksKept, TroublesKept, PartsPrimed DEF Disconnect
  <1>4. Informed(w)'
    <2>1. ~handle'[w] /\ ~listens'[w] /\ events'[w] = <<>>
      BY <1>a DEF Disconnect, WindowTypes, EventTypes
    <2> QED
      BY <2>1 DEF Informed, Listening, LossIsTold, EndIsTold
  <1>5. ASSUME NEW v \in Window, v # w PROVE Informed(v)'
    BY <1>a, <1>5, QuietKeeps, InUseKept
    DEF Disconnect, WindowTypes, EventTypes, signaling
  <1> QED
    BY <1>3, <1>4, <1>5 DEF WindowInv

LEMMA CloseSessionKeeps ==
    ASSUME WindowInv, NEW w \in Window, CloseSession(w)
    PROVE  WindowInv'
  <1>a. TypeOK /\ WindowTypes /\ EventTypes /\ SignalTypes /\ LinkTypes /\ TroubleTypes
    BY TypeParts DEF WindowInv
  <1>1. WindowTypes' /\ SignalTypes'
    BY <1>a DEF CloseSession, WindowTypes, SignalTypes
  <1>2. TypeOK'
    BY <1>a, <1>1, EventsKept, LinksKept, TroublesKept, PartsPrimed DEF CloseSession
  <1> QED
    BY <1>2, SilentKeeps, InUseKept DEF CloseSession, WindowInv

\* A retry without a dispatch loop is shown to be refused.
LEMMA RetryDirectKeeps ==
    ASSUME WindowInv, NEW w \in Window, RetryDirect(w)
    PROVE  WindowInv'
  <1>a. TypeOK /\ WindowTypes /\ EventTypes /\ SignalTypes /\ LinkTypes /\ TroubleTypes
    BY TypeParts DEF WindowInv
  <1>1. WindowTypes'
    BY <1>a DEF RetryDirect, WindowTypes, State
  <1>2. SignalTypes'
    <2>1. CASE Announce(w, inbox, FALSE)
      <3>1. /\ inbox' \in [Window -> Seq(Envelopes)]
            /\ sent' \in [Window -> BOOLEAN] /\ got' \in [Window -> BOOLEAN]
            /\ tries' \in [Window -> Nat]
        BY <1>a, <2>1, AnnounceTypes DEF SignalTypes
      <3> QED
        BY <1>a, <3>1 DEF RetryDirect, SignalTypes
    <2>2. CASE UNCHANGED <<inbox, sent, got, tries>>
      BY <1>a, <2>2 DEF RetryDirect, SignalTypes
    <2> QED
      BY <2>1, <2>2 DEF RetryDirect
  <1>3. TypeOK'
    <2>1. TroubleTypes'
      BY <1>a, TroubleStep, TroublesKept DEF RetryDirect
    <2> QED
      BY <1>a, <1>1, <1>2, <2>1, EventsKept, LinksKept, PartsPrimed DEF RetryDirect
  <1>4. Informed(w)'
    <2>1. /\ state[w] = "DirectFailed" /\ state'[w] = "Paired"
          /\ events' = events /\ loop' = loop /\ handle' = handle /\ listens' = listens
          /\ loop[w] = "ended" => refused'[w]
      BY <1>a DEF RetryDirect, WindowTypes
    <2>2. Listening(w) /\ LossIsTold(w) /\ EndIsTold(w)
      BY DEF WindowInv, Informed
    <2>3. Listening(w)'
      BY <2>1, <2>2 DEF Listening
    <2>4. LossIsTold(w)'
      <3>1. InUse(w)' <=> InUse(w)
        BY InUseKept DEF RetryDirect
      <3> QED
        BY <2>1, <2>2, <3>1 DEF LossIsTold, Undone
    <2>5. EndIsTold(w)'
      BY <2>1, <2>2 DEF EndIsTold, Undone, Keeps
    <2> QED
      BY <2>3, <2>4, <2>5 DEF Informed
  <1>5. ASSUME NEW v \in Window, v # w PROVE Informed(v)'
    BY <1>a, <1>5, QuietKeeps, InUseKept DEF RetryDirect, WindowTypes
  <1> QED
    BY <1>3, <1>4, <1>5 DEF WindowInv

\* What the window makes of an event: an established link is Direct, its loss is
\* not, and a window that does not keep its session comes by no event but the
\* word that the peer has left.
LEMMA AfterEvents ==
    ASSUME WindowTypes, NEW w \in Window, NEW e \in Event
    PROVE  /\ After(w, e) \in State
           /\ After(w, e) = "Direct" => e = "established" \/ (state[w] = "Direct" /\ e # "lost")
           /\ e # "left" /\ Keeps(w)
                 => \/ After(w, e) \in {"Direct", "DirectFailed"}
                    \/ After(w, e) = "Paired" /\ refused[w]
                    \/ Drops(w, e)
           /\ e = "closed" /\ ~Keeps(w) => Drops(w, e)
  <1>1. state[w] \in State /\ refused[w] \in BOOLEAN /\ handle[w] \in BOOLEAN
    BY DEF WindowTypes
  <1>2. PeerActive(w) = state[w]
        \/ (PeerActive(w) = "Paired" /\ state[w] \in {"Connecting", "Connected"})
    BY DEF PeerActive
  <1>3. CASE e = "connected"
    BY <1>1, <1>3 DEF After, Keeps, State
  <1>4. CASE e \in {"peer", "message"}
    <2>1. After(w, e) = PeerActive(w)
      BY <1>4 DEF After
    <2> QED
      BY <1>1, <1>2, <1>4, <2>1 DEF Keeps, State
  <1>5. CASE e = "established"
    BY <1>1, <1>5 DEF After, State
  <1>6. CASE e \in {"failed", "lost"}
    BY <1>1, <1>6 DEF After, State
  <1>7. CASE e = "left"
    BY <1>1, <1>7 DEF After, State
  <1>8. CASE e = "closed"
    BY <1>1, <1>8 DEF After, State, Drops, Keeps
  <1>9. CASE e = "desktop-idle"
    BY <1>1, <1>9 DEF After, Keeps
  <1> QED
    BY <1>3, <1>4, <1>5, <1>6, <1>7, <1>8, <1>9 DEF Event

LEMMA PollKeeps ==
    ASSUME WindowInv, NEW w \in Window, Poll(w)
    PROVE  WindowInv'
  <1>a. TypeOK /\ WindowTypes /\ EventTypes /\ SignalTypes /\ LinkTypes /\ TroubleTypes
    BY TypeParts DEF WindowInv
  <1> DEFINE e == Head(events[w])
  <1>b. events[w] \in Seq(Event) /\ events[w] # <<>> /\ e \in Event
    BY <1>a DEF Poll, EventTypes
  <1>c. /\ state' = [state EXCEPT ![w] = After(w, e)]
        /\ handle' = [handle EXCEPT ![w] = @ /\ ~Drops(w, e)]
        /\ worker' = [worker EXCEPT ![w] = @ /\ e # "desktop-idle"]
        /\ events' = [events EXCEPT ![w] = Tail(@)]
        /\ UNCHANGED <<listens, closing, refused, signaling, links, troubles>>
    BY DEF Poll
  <1> HIDE DEF e
  <1>1. WindowTypes'
    <2>1. state' \in [Window -> State]
      BY <1>a, <1>b, <1>c, AfterEvents DEF WindowTypes
    <2>2. handle' \in [Window -> BOOLEAN] /\ worker' \in [Window -> BOOLEAN]
      BY <1>a, <1>c DEF WindowTypes
    <2> QED
      BY <1>a, <1>c, <2>1, <2>2 DEF WindowTypes
  <1>2. EventTypes'
    BY <1>a, <1>b, <1>c DEF EventTypes
  <1>3. TypeOK'
    BY <1>a, <1>c, <1>1, <1>2, SignalKept, LinksKept, TroublesKept, PartsPrimed
  <1>4. Informed(w)'
    <2>1. /\ state'[w] = After(w, e) /\ events'[w] = Tail(events[w])
          /\ handle'[w] => handle[w] /\ ~Drops(w, e)
          /\ listens' = listens /\ refused' = refused /\ loop' = loop
      BY <1>a, <1>c DEF WindowTypes, EventTypes, signaling
    <2>2. Listening(w) /\ LossIsTold(w) /\ EndIsTold(w)
      BY DEF WindowInv, Informed
    <2>3. Listening(w)'
      BY <1>b, <2>1, <2>2 DEF Listening
    <2>4. LossIsTold(w)'
      <3>a. (InUse(w)' <=> InUse(w)) /\ state'[w] = After(w, e)
        BY <1>c, <2>1, InUseKept
      <3> SUFFICES ASSUME handle[w], ~InUse(w)
                   PROVE  Undone(Tail(events[w]), "established", "lost", After(w, e) = "Direct")
        BY <2>1, <3>a DEF LossIsTold, Undone
      <3>1. Undone(events[w], "established", "lost", state[w] = "Direct")
        BY <2>2 DEF LossIsTold
      <3>2. After(w, e) = "Direct" => e = "established" \/ (state[w] = "Direct" /\ e # "lost")
        BY <1>a, <1>b, AfterEvents
      <3> QED
        BY <1>b, <3>1, <3>2, UndoneTail DEF e
    <2>5. EndIsTold(w)'
      <3> SUFFICES ASSUME handle[w], ~Drops(w, e), loop[w] = "ended"
                   PROVE  Undone(Tail(events[w]), "left", "closed", ~Keeps(w)')
        BY <2>1 DEF EndIsTold, Undone
      <3>1. Undone(events[w], "left", "closed", ~Keeps(w))
        BY <2>2 DEF EndIsTold
      <3>2. ~Keeps(w)' => e = "left" \/ (~Keeps(w) /\ e # "closed")
        BY <1>a, <1>b, <2>1, AfterEvents DEF Keeps
      <3> QED
        BY <1>b, <3>1, <3>2, UndoneTail DEF e
    <2> QED
      BY <2>3, <2>4, <2>5 DEF Informed
  <1>5. ASSUME NEW v \in Window, v # w PROVE Informed(v)'
    BY <1>a, <1>c, <1>5, QuietKeeps, InUseKept DEF WindowTypes, EventTypes, signaling
  <1> QED
    BY <1>3, <1>4, <1>5 DEF WindowInv

-----------------------------------------------------------------------------
(* The signaling                                                           *)

LEMMA SocketEndsKeeps ==
    ASSUME WindowInv, NEW w \in Window, SocketEnds(w)
    PROVE  WindowInv'
  <1>a. TypeOK /\ WindowTypes /\ EventTypes /\ SignalTypes /\ LinkTypes /\ TroubleTypes
    BY TypeParts DEF WindowInv
  <1>1. SignalTypes'
    <2>1. inbox[w] \in Seq(Envelopes)
      BY <1>a DEF SignalTypes
    <2> QED
      BY <1>a, <2>1, LeavingTypes DEF SocketEnds
  <1>2. TypeOK'
    BY <1>a, <1>1, WindowKept, EventsKept, LinksKept, TroublesKept, PartsPrimed DEF SocketEnds
  <1> QED
    BY <1>2, SilentKeeps, InUseKept DEF SocketEnds, WindowInv, window

LEMMA ReclaimKeeps ==
    ASSUME WindowInv, NEW w \in Window, Reclaim(w)
    PROVE  WindowInv'
  <1>a. TypeOK /\ WindowTypes /\ EventTypes /\ SignalTypes /\ LinkTypes /\ TroubleTypes
    BY TypeParts DEF WindowInv
  <1>1. SignalTypes'
    <2>1. PICK k \in 0 .. Len(inbox[w]) : Leaving(w, SubSeq(inbox[w], 1, k))
      BY DEF Reclaim
    <2>2. SubSeq(inbox[w], 1, k) \in Seq(Envelopes)
      <3> DEFINE q == inbox[w]
      <3>1. q \in Seq(Envelopes)
        BY <1>a DEF SignalTypes
      <3> HIDE DEF q
      <3>2. Len(q) \in Nat /\ \A i \in 1 .. Len(q) : q[i] \in Envelopes
        BY <3>1
      <3>3. k \in 0 .. Len(q)
        BY DEF q
      <3>4. SubSeq(q, 1, k) \in Seq(Envelopes)
        <4>1. 1 \in Int /\ k \in Int /\ \A i \in 1 .. k : q[i] \in Envelopes
          BY <3>2, <3>3
        <4> QED
          BY <4>1, SubSeqProperties
      <3> QED
        BY <3>4 DEF q
    <2> QED
      BY <1>a, <2>1, <2>2, LeavingTypes DEF Reclaim
  <1>2. TypeOK'
    BY <1>a, <1>1, WindowKept, EventsKept, LinksKept, TroubleStep, PartsPrimed DEF Reclaim
  <1> QED
    BY <1>2, SilentKeeps, InUseKept DEF Reclaim, WindowInv, window

LEMMA ToldEvents ==
    \A m \in Envelopes : Told[m] \in Event /\ Told[m] # "established"
  BY DEF Envelopes, Told, Event

LEMMA DispatchKeeps ==
    ASSUME WindowInv, NEW w \in Window, Dispatch(w)
    PROVE  WindowInv'
  <1>a. TypeOK /\ WindowTypes /\ EventTypes /\ SignalTypes /\ LinkTypes /\ TroubleTypes
    BY TypeParts DEF WindowInv
  <1> DEFINE m == Head(inbox[w])
             rest == [inbox EXCEPT ![w] = Tail(@)]
  <1>b. m \in Envelopes /\ Told[m] \in Event /\ Told[m] # "established"
    BY <1>a, ToldEvents DEF Dispatch, SignalTypes
  <1>c. rest \in [Window -> Seq(Envelopes)]
    <2>1. Tail(inbox[w]) \in Seq(Envelopes)
      BY <1>a DEF Dispatch, SignalTypes
    <2> QED
      BY <1>a, <2>1 DEF SignalTypes
  <1>d. /\ loop[w] = "runs" /\ Tell(w, <<Told[m]>>)
        /\ UNCHANGED <<window, socket, loop, links, troubles>>
    BY DEF Dispatch
  <1>e. \/ Announce(w, rest, got[w])
        \/ /\ inbox' = rest
           /\ sent' = [sent EXCEPT ![w] = @ /\ m # "left"]
           /\ got' = [got EXCEPT ![w] = (@ \/ m = "signal") /\ m # "left"]
           /\ Begin(w, m = "signal" /\ sent[w])
    BY DEF Dispatch
  <1> HIDE DEF m, rest
  <1>1. SignalTypes'
    <2>1. CASE Announce(w, rest, got[w])
      <3>1. got[w] \in BOOLEAN
        BY <1>a DEF SignalTypes
      <3> QED
        BY <1>a, <1>c, <1>d, <2>1, <3>1, AnnounceTypes DEF SignalTypes
    <2>2. CASE /\ inbox' = rest
               /\ sent' = [sent EXCEPT ![w] = @ /\ m # "left"]
               /\ got' = [got EXCEPT ![w] = (@ \/ m = "signal") /\ m # "left"]
               /\ Begin(w, m = "signal" /\ sent[w])
      <3>1. tries' \in [Window -> Nat]
        BY <1>a, <2>2, BeginTypes
      <3>2. sent' \in [Window -> BOOLEAN] /\ got' \in [Window -> BOOLEAN]
        BY <1>a, <2>2 DEF SignalTypes
      <3> QED
        BY <1>a, <1>c, <1>d, <2>2, <3>1, <3>2 DEF SignalTypes
    <2> QED
      BY <1>e, <2>1, <2>2
  <1>2. <<Told[m]>> \in Seq(Event) /\ ~Contains(<<Told[m]>>, "established")
    BY <1>b, OneEvent
  <1>3. EventTypes' /\ events'[w] = IF listens[w] THEN events[w] \o <<Told[m]>> ELSE events[w]
    BY <1>a, <1>d, <1>2, TellStep
  <1>4. TypeOK'
    BY <1>a, <1>d, <1>1, <1>3, WindowKept, LinksKept, TroublesKept, PartsPrimed
  <1>5. Informed(w)'
    BY <1>d, <1>2, <1>3, HearsKeeps, InUseKept DEF window
  <1>6. ASSUME NEW v \in Window, v # w PROVE Informed(v)'
    BY <1>d, <1>2, <1>6, OtherKeeps, InUseKept DEF window
  <1> QED
    BY <1>4, <1>5, <1>6 DEF WindowInv

\* The end of the loop is told last.
LEMMA DispatchEndsKeeps ==
    ASSUME WindowInv, NEW w \in Window, DispatchEnds(w)
    PROVE  WindowInv'
  <1>a. TypeOK /\ WindowTypes /\ EventTypes /\ SignalTypes /\ LinkTypes /\ TroubleTypes
    BY TypeParts DEF WindowInv
  <1>1. SignalTypes'
    <2>1. inbox' \in [Window -> Seq(Envelopes)]
      BY <1>a DEF DispatchEnds, SignalTypes
    <2> QED
      BY <1>a, <2>1 DEF DispatchEnds, SignalTypes
  <1>2. /\ <<"closed">> \in Seq(Event) /\ Contains(<<"closed">>, "closed")
        /\ ~Contains(<<"closed">>, "established") /\ ~Contains(<<"closed">>, "left")
    BY OneEvent DEF Event
  <1>3. /\ EventTypes'
        /\ events'[w] = IF listens[w] THEN events[w] \o <<"closed">> ELSE events[w]
    BY <1>a, <1>2, TellStep DEF DispatchEnds
  <1>4. TypeOK'
    BY <1>a, <1>1, <1>3, WindowKept, LinksKept, TroublesKept, PartsPrimed DEF DispatchEnds
  <1>5. Informed(w)'
    <2>1. loop'[w] = "ended" /\ UNCHANGED <<window, links>>
      BY <1>a DEF DispatchEnds, SignalTypes
    <2> QED
      BY <1>2, <1>3, <2>1, HearsKeeps, InUseKept DEF window
  <1>6. ASSUME NEW v \in Window, v # w PROVE Informed(v)'
    <2>1. loop'[v] = loop[v] /\ Tell(w, <<"closed">>) /\ UNCHANGED <<window, links>>
      BY <1>a, <1>6 DEF DispatchEnds, SignalTypes
    <2> QED
      BY <1>2, <1>6, <2>1, OtherKeeps, InUseKept DEF window
  <1> QED
    BY <1>4, <1>5, <1>6 DEF WindowInv

-----------------------------------------------------------------------------
(* The direct link                                                         *)

LEMMA TryFailsKeeps ==
    ASSUME WindowInv, NEW w \in Window, TryFails(w)
    PROVE  WindowInv'
  <1>a. TypeOK /\ WindowTypes /\ EventTypes /\ SignalTypes /\ LinkTypes /\ TroubleTypes
    BY TypeParts DEF WindowInv
  <1>1. SignalTypes'
    BY <1>a DEF TryFails, SignalTypes
  <1>2. EventTypes' /\ \A v \in Window : Informed(v)'
    BY SaysKeeps, InUseKept DEF TryFails, Event
  <1>3. TypeOK'
    BY <1>a, <1>1, <1>2, WindowKept, LinksKept, TroublesKept, PartsPrimed DEF TryFails
  <1> QED
    BY <1>2, <1>3 DEF WindowInv

LEMMA ConnectKeeps ==
    ASSUME WindowInv, Connect
    PROVE  WindowInv'
  <1>a. TypeOK /\ WindowTypes /\ EventTypes /\ SignalTypes /\ LinkTypes /\ TroubleTypes
    BY TypeParts DEF WindowInv
  <1>1. SignalTypes'
    BY <1>a DEF Connect, BothTry, SignalTypes
  <1> DEFINE r == [open |-> TRUE, end |-> Everywhere("making")]
  <1>2. r \in Link
    BY DEF Link, Everywhere
  <1>3. links' = Append(links, r) /\ Len(links) < MaxLinks
    BY DEF Connect
  <1> HIDE DEF r
  <1>4. LinkTypes' /\ \A l \in Ids : l \in Ids' /\ links'[l] = links[l]
    <2>1. /\ Append(links, r) \in Seq(Link) /\ Len(Append(links, r)) = Len(links) + 1
          /\ \A l \in 1 .. Len(links) : Append(links, r)[l] = links[l]
      BY <1>a, <1>2 DEF LinkTypes
    <2>2. MaxLinks \in Nat /\ Len(links) \in Nat
      BY <1>a, BoundsAssumption DEF LinkTypes
    <2>3. Len(links') <= MaxLinks
      BY <1>3, <2>1, <2>2
    <2> QED
      BY <1>3, <2>1, <2>2, <2>3 DEF LinkTypes, Ids
  <1>5. \A v \in Window : InUse(v) => InUse(v)'
    BY <1>4 DEF InUse
  <1>6. TypeOK'
    BY <1>a, <1>1, <1>4, WindowKept, EventsKept, TroublesKept, PartsPrimed DEF Connect
  <1> QED
    BY <1>5, <1>6, SilentKeeps DEF Connect, WindowInv, window

\* An end that was not in use goes on: no window loses its link.
LEMMA EndKeepsUse ==
    ASSUME LinkTypes, NEW w \in Window, NEW l \in Ids, NEW x \in {"making", "queued", "up", "gone"},
           EndSet(w, l, x), links[l].end[w] # "up"
    PROVE  \A v \in Window : InUse(v) => InUse(v)'
  BY EndStep DEF InUse

LEMMA GiveUpKeeps ==
    ASSUME WindowInv, NEW w \in Window, NEW l \in Ids, GiveUp(w, l)
    PROVE  WindowInv'
  <1>a. TypeOK /\ WindowTypes /\ EventTypes /\ SignalTypes /\ LinkTypes /\ TroubleTypes
    BY TypeParts DEF WindowInv
  <1>1. EndSet(w, l, "gone") /\ links[l].end[w] # "up"
    BY DEF GiveUp, EndSet
  <1>2. LinkTypes' /\ \A v \in Window : InUse(v) => InUse(v)'
    BY <1>a, <1>1, EndStep, EndKeepsUse
  <1>3. EventTypes' /\ \A v \in Window : Informed(v)'
    BY <1>2, SaysKeeps DEF GiveUp, Event, signaling
  <1>4. TypeOK'
    BY <1>a, <1>2, <1>3, WindowKept, SignalKept, TroublesKept, PartsPrimed DEF GiveUp
  <1> QED
    BY <1>3, <1>4 DEF WindowInv

LEMMA QueueKeeps ==
    ASSUME WindowInv, NEW w \in Window, NEW l \in Ids, Queue(w, l)
    PROVE  WindowInv'
  <1>a. TypeOK /\ WindowTypes /\ EventTypes /\ SignalTypes /\ LinkTypes /\ TroubleTypes
    BY TypeParts DEF WindowInv
  <1>1. EndSet(w, l, "queued") /\ links[l].end[w] # "up"
    BY DEF Queue, EndSet
  <1>2. LinkTypes' /\ \A v \in Window : InUse(v) => InUse(v)'
    BY <1>a, <1>1, EndStep, EndKeepsUse
  <1>3. TypeOK'
    BY <1>a, <1>2, WindowKept, EventsKept, SignalKept, TroublesKept, PartsPrimed DEF Queue
  <1> QED
    BY <1>2, <1>3, SilentKeeps DEF Queue, WindowInv, window, signaling

\* A link is announced when it is taken into use.
LEMMA TakeLinkKeeps ==
    ASSUME WindowInv, NEW w \in Window, NEW l \in Ids, TakeLink(w, l)
    PROVE  WindowInv'
  <1>a. TypeOK /\ WindowTypes /\ EventTypes /\ SignalTypes /\ LinkTypes /\ TroubleTypes
    BY TypeParts DEF WindowInv
  <1>1. EndSet(w, l, "up") /\ links[l].end[w] # "up"
    BY DEF TakeLink, EndSet
  <1>2. LinkTypes' /\ \A v \in Window : InUse(v) => InUse(v)'
    BY <1>a, <1>1, EndStep, EndKeepsUse
  <1>3. InUse(w)'
    BY <1>a, <1>1, EndStep DEF InUse
  <1>4. <<"established">> \in Seq(Event) /\ ~Contains(<<"established">>, "left")
    BY OneEvent DEF Event
  <1>5. /\ EventTypes'
        /\ events'[w] = IF listens[w] THEN events[w] \o <<"established">> ELSE events[w]
    BY <1>a, <1>4, TellStep DEF TakeLink
  <1>6. Informed(w)'
    BY <1>3, <1>4, <1>5, HearsKeeps DEF TakeLink, window, signaling
  <1>7. ASSUME NEW v \in Window, v # w PROVE Informed(v)'
    BY <1>2, <1>4, <1>7, OtherKeeps DEF TakeLink, window, signaling
  <1>8. TypeOK'
    BY <1>a, <1>2, <1>5, WindowKept, SignalKept, TroublesKept, PartsPrimed DEF TakeLink
  <1> QED
    BY <1>6, <1>7, <1>8 DEF WindowInv

\* The end of the other window stays as it is.
LEMMA OtherEnd ==
    ASSUME LinkTypes, NEW w \in Window, NEW l \in Ids, EndSet(w, l, "gone"),
           NEW v \in Window, v # w
    PROVE  InUse(v) => InUse(v)'
  BY EndStep DEF InUse

\* A link that nobody can use any more ends unsaid: the window has no handle.
LEMMA NoCommandsKeeps ==
    ASSUME WindowInv, NEW w \in Window, NEW l \in Ids, NoCommands(w, l)
    PROVE  WindowInv'
  <1>a. TypeOK /\ WindowTypes /\ EventTypes /\ SignalTypes /\ LinkTypes /\ TroubleTypes
    BY TypeParts DEF WindowInv
  <1>1. EndSet(w, l, "gone")
    BY DEF NoCommands, EndSet
  <1>2. LinkTypes'
    BY <1>a, <1>1, EndStep
  <1>3. TypeOK'
    BY <1>a, <1>2, WindowKept, EventsKept, SignalKept, TroublesKept, PartsPrimed DEF NoCommands
  <1>4. Informed(w)'
    <2>1. ~handle[w] /\ UNCHANGED <<window, events, loop>>
      BY DEF NoCommands, Held, signaling
    <2> QED
      BY <2>1 DEF WindowInv, Informed, Listening, LossIsTold, EndIsTold, window
  <1>5. ASSUME NEW v \in Window, v # w PROVE Informed(v)'
    <2>1. InUse(v) => InUse(v)'
      BY <1>a, <1>1, <1>5, OtherEnd
    <2> QED
      BY <2>1, QuietKeeps DEF NoCommands, window, signaling
  <1> QED
    BY <1>3, <1>4, <1>5 DEF WindowInv

LEMMA LinkLostKeeps ==
    ASSUME WindowInv, NEW w \in Window, NEW l \in Ids, LinkLost(w, l)
    PROVE  WindowInv'
  <1>a. TypeOK /\ WindowTypes /\ EventTypes /\ SignalTypes /\ LinkTypes /\ TroubleTypes
    BY TypeParts DEF WindowInv
  <1>1. EndSet(w, l, "gone")
    BY DEF LinkLost, EndSet
  <1>2. LinkTypes'
    BY <1>a, <1>1, EndStep
  <1>3. PICK es \in Seq(Event) : /\ es = Lost(w) /\ Contains(es, "lost")
                                 /\ ~Contains(es, "established") /\ ~Contains(es, "left")
    BY LossEvents
  <1>4. EventTypes' /\ events'[w] = IF listens[w] THEN events[w] \o es ELSE events[w]
    BY <1>a, <1>3, TellStep DEF LinkLost
  <1>5. Informed(w)'
    BY <1>3, <1>4, HearsKeeps DEF LinkLost, window, signaling
  <1>6. ASSUME NEW v \in Window, v # w PROVE Informed(v)'
    <2>1. InUse(v) => InUse(v)'
      BY <1>a, <1>1, <1>6, OtherEnd
    <2> QED
      BY <1>3, <1>6, <2>1, OtherKeeps DEF LinkLost, window, signaling
  <1>7. TypeOK'
    BY <1>a, <1>2, <1>4, WindowKept, SignalKept, TroublesKept, PartsPrimed DEF LinkLost
  <1> QED
    BY <1>5, <1>6, <1>7 DEF WindowInv

\* A connection that breaks takes no end out of use: that is for the ends to see.
LEMMA BreakKeeps ==
    ASSUME WindowInv, NEW l \in Ids, Break(l)
    PROVE  WindowInv'
  <1>a. TypeOK /\ WindowTypes /\ EventTypes /\ SignalTypes /\ LinkTypes /\ TroubleTypes
    BY TypeParts DEF WindowInv
  <1> DEFINE r == [links[l] EXCEPT !.open = FALSE]
  <1>1. r \in Link /\ r.end = links[l].end
    <2>1. links[l] \in Link
      BY <1>a DEF LinkTypes, Ids
    <2> DEFINE ends == [Window -> {"making", "queued", "up", "gone"}]
    <2> HIDE DEF ends
    <2>2. \A x \in [open : BOOLEAN, end : ends] :
              /\ [x EXCEPT !.open = FALSE] \in [open : BOOLEAN, end : ends]
              /\ [x EXCEPT !.open = FALSE].end = x.end
      OBVIOUS
    <2> QED
      BY <2>1, <2>2 DEF Link, ends
  <1>2. links' = [links EXCEPT ![l] = r]
    BY DEF Break
  <1> HIDE DEF r
  <1>3. /\ links' \in Seq(Link) /\ Len(links') = Len(links)
        /\ \A k \in Ids : links'[k] = IF k = l THEN r ELSE links[k]
    BY <1>a, <1>1, <1>2, ExceptSeq DEF LinkTypes, Ids
  <1>4. LinkTypes' /\ \A v \in Window : InUse(v) => InUse(v)'
    BY <1>a, <1>1, <1>3 DEF LinkTypes, InUse, Ids
  <1>5. TypeOK'
    BY <1>a, <1>4, WindowKept, EventsKept, SignalKept, TroubleStep, PartsPrimed DEF Break
  <1> QED
    BY <1>4, <1>5, SilentKeeps DEF Break, WindowInv, window, signaling

-----------------------------------------------------------------------------
(* The use of a link                                                       *)

LEMMA MessageKeeps ==
    ASSUME WindowInv, NEW w \in Window, Message(w)
    PROVE  WindowInv'
  <1>a. TypeOK /\ WindowTypes /\ EventTypes /\ SignalTypes /\ LinkTypes /\ TroubleTypes
    BY TypeParts DEF WindowInv
  <1>1. EventTypes' /\ \A v \in Window : Informed(v)'
    BY SaysKeeps, InUseKept DEF Message, Event, signaling
  <1>2. TypeOK'
    BY <1>a, <1>1, WindowKept, SignalKept, LinksKept, TroublesKept, PartsPrimed DEF Message
  <1> QED
    BY <1>1, <1>2 DEF WindowInv

LEMMA StopSharingKeeps ==
    ASSUME WindowInv, NEW w \in Window, StopSharing(w)
    PROVE  WindowInv'
  <1>a. TypeOK /\ WindowTypes /\ EventTypes /\ SignalTypes /\ LinkTypes /\ TroubleTypes
    BY TypeParts DEF WindowInv
  <1>1. EventTypes' /\ \A v \in Window : Informed(v)'
    BY SaysKeeps, InUseKept DEF StopSharing, Event, signaling
  <1>2. TypeOK'
    BY <1>a, <1>1, WindowKept, SignalKept, LinksKept, TroublesKept, PartsPrimed DEF StopSharing
  <1> QED
    BY <1>1, <1>2 DEF WindowInv

LEMMA WorkerKeeps ==
    ASSUME WindowInv, NEW w \in Window, Share(w) \/ CaptureFails(w)
    PROVE  WindowInv'
  <1>a. TypeOK /\ WindowTypes /\ EventTypes /\ SignalTypes /\ LinkTypes /\ TroubleTypes
    BY TypeParts DEF WindowInv
  <1>1. WindowTypes'
    BY <1>a DEF Share, CaptureFails, WindowTypes
  <1>2. TypeOK'
    BY <1>a, <1>1, EventsKept, SignalKept, LinksKept, TroublesKept, PartsPrimed
    DEF Share, CaptureFails
  <1> QED
    BY <1>2, SilentKeeps, InUseKept DEF Share, CaptureFails, WindowInv, signaling

-----------------------------------------------------------------------------
(* The theorems                                                            *)

LEMMA InitWindow == Init => WindowInv
  <1> SUFFICES ASSUME Init PROVE WindowInv
    OBVIOUS
  <1>1. WindowTypes
    BY DEF Init, Everywhere, WindowTypes, State
  <1>2. EventTypes
    <2>1. <<>> \in Seq(Event)
      OBVIOUS
    <2> QED
      BY <2>1 DEF Init, Everywhere, EventTypes
  <1>3. SignalTypes
    <2>1. <<>> \in Seq(Envelopes)
      OBVIOUS
    <2> QED
      BY <2>1 DEF Init, Everywhere, SignalTypes
  <1>4. LinkTypes /\ TroubleTypes
    BY BoundsAssumption DEF Init, LinkTypes, TroubleTypes
  <1>5. ASSUME NEW w \in Window PROVE Informed(w)
    BY DEF Init, Everywhere, Informed, Listening, LossIsTold, EndIsTold
  <1> QED
    BY <1>1, <1>2, <1>3, <1>4, <1>5, TypeParts DEF WindowInv

\* The inductive invariant: a loss and an end that the window does not know are
\* in its channel, behind what they undo.
THEOREM WindowInvariant == Spec => []WindowInv
  <1>1. WindowInv /\ [Next]_vars => WindowInv'
    <2> SUFFICES ASSUME WindowInv, [Next]_vars PROVE WindowInv'
      OBVIOUS
    <2>1. CASE UNCHANGED vars
      <3>1. TypeOK'
        BY <2>1, TypeParts, WindowKept, EventsKept, SignalKept, LinksKept, TroublesKept,
           PartsPrimed DEF vars, WindowInv
      <3> QED
        BY <2>1, <3>1, SilentKeeps, InUseKept DEF vars, window, signaling, WindowInv
    <2>2. ASSUME NEW w \in Window,
                 \/ StartSession(w) \/ Disconnect(w) \/ RetryDirect(w) \/ Poll(w)
                 \/ CloseSession(w) \/ SocketEnds(w) \/ Reclaim(w) \/ Dispatch(w)
                 \/ DispatchEnds(w) \/ TryFails(w) \/ Message(w) \/ Share(w)
                 \/ StopSharing(w) \/ CaptureFails(w)
          PROVE  WindowInv'
      BY <2>2, StartSessionKeeps, DisconnectKeeps, RetryDirectKeeps, PollKeeps,
         CloseSessionKeeps, SocketEndsKeeps, ReclaimKeeps, DispatchKeeps, DispatchEndsKeeps,
         TryFailsKeeps, MessageKeeps, StopSharingKeeps, WorkerKeeps
    <2>3. ASSUME NEW w \in Window, NEW l \in Ids, Ends(w, l) PROVE WindowInv'
      BY <2>3, GiveUpKeeps, QueueKeeps, TakeLinkKeeps, NoCommandsKeeps, LinkLostKeeps DEF Ends
    <2> QED
      BY <2>1, <2>2, <2>3, ConnectKeeps, BreakKeeps DEF Next
  <1> QED
    BY <1>1, InitWindow, PTL DEF Spec

\* The state of every window, session and link stays within its types.
THEOREM TypeCorrect == Spec => []TypeOK
  <1>1. WindowInv => TypeOK
    BY DEF WindowInv
  <1> QED
    BY <1>1, WindowInvariant, PTL

\* A window that has read what it was told, and lets its user send, has a link.
THEOREM SendsOverALink == Spec => []DirectIsInUse
  <1>1. WindowInv => DirectIsInUse
    BY UndoneEmpty DEF WindowInv, Informed, LossIsTold, DirectIsInUse, Settled, CanSend
  <1> QED
    BY <1>1, WindowInvariant, PTL

\* A window that has outlived its dispatch loop shows its link, or that it failed.
THEOREM NoVainWaiting == Spec => []KeptForItsLink
  <1>1. WindowInv => KeptForItsLink
    <2> SUFFICES ASSUME WindowInv, NEW w \in Window, Settled(w), handle[w], loop[w] = "ended"
                 PROVE  \/ state[w] = "Direct" /\ InUse(w)
                        \/ state[w] = "DirectFailed"
                        \/ state[w] = "Paired" /\ refused[w]
      BY DEF KeptForItsLink
    <2>1. Undone(<<>>, "left", "closed", ~Keeps(w))
      BY DEF WindowInv, Informed, EndIsTold, Settled
    <2>2. Keeps(w)
      BY <2>1, UndoneEmpty
    <2>3. ~InUse(w) => Undone(<<>>, "established", "lost", state[w] = "Direct")
      BY DEF WindowInv, Informed, LossIsTold, Settled
    <2>4. ~InUse(w) => state[w] # "Direct"
      BY <2>3, UndoneEmpty
    <2> QED
      BY <2>2, <2>4 DEF Keeps
  <1> QED
    BY <1>1, WindowInvariant, PTL
=============================================================================
