------------------------- MODULE DesktopFramesProofs --------------------------
(***************************************************************************)
(* What the viewer of a shared desktop sees is what was on the screen, and *)
(* the latest frame is accounted for, for every screen, any number of      *)
(* sessions and changes, and whatever is lost or overtaken.                *)
(*                                                                         *)
(* Three invariants: PictureInv follows every frame to the picture it was  *)
(* made of; LossInv follows the last frame of a session, which is on its   *)
(* way, shown or made good for; TypeInv counts frames and open streams.    *)
(***************************************************************************)
EXTENDS DesktopFrames, FiniteSetTheorems, TLAPS

\* What the window is told.
Events == [type: {"frame", "viewing"}, session: Sessions] \cup {Event("idle", 0)}
Decoders == [session: 0 .. MaxSessions, last: Nat, ready: BOOLEAN, canvas: Pictures]
Encoders == [id: Nat, previous: Pictures, key: BOOLEAN]

\* The tiles that the frame f carries are those of its picture, of which ps is
\* the record; the tiles it leaves out are those of the picture before it.
Faithful(f, ps) ==
    /\ f.session \in Sessions
    /\ f.id \in 1 .. Len(ps[f.session])
    /\ \A t \in Tiles :
          IF t \in DOMAIN f.patches
          THEN f.patches[t] = ps[f.session][f.id][t]
          ELSE /\ ~f.key /\ f.id > 1
               /\ ps[f.session][f.id][t] = ps[f.session][f.id - 1][t]

\* A stream carries such a frame.
Carries(x, ps) == /\ x = [frame |-> x.frame, open |-> x.open, read |-> x.read]
                  /\ Faithful(x.frame, ps)

\* The canvas is the picture of the frame applied last.
Painted(d, ps) == d.ready => /\ d.session \in Sessions
                             /\ d.last \in 1 .. Len(ps[d.session])
                             /\ d.canvas = ps[d.session][d.last]

\* The thread's encoder stands at the last picture of its session.
AtLast(w, e, ps) == w # 0 => /\ e.id = Len(ps[w])
                             /\ IF e.id = 0 THEN e.key ELSE e.previous = ps[w][e.id]

\* The record qs goes on from ps.
Continues(ps, qs) ==
    \A s \in Sessions : /\ Len(ps[s]) \in Nat /\ Len(qs[s]) \in Nat /\ Len(ps[s]) <= Len(qs[s])
                        /\ \A i \in 1 .. Len(ps[s]) : qs[s][i] = ps[s][i]

SharerTypes == /\ screen \in Pictures /\ fresh \in BOOLEAN /\ force \in BOOLEAN
               /\ encoder \in Encoders
               /\ pictures \in [Sessions -> Seq(Pictures)]
               /\ {begun, shared, starting, worker} \subseteq 0 .. MaxSessions
ViewerTypes == decoder \in Decoders /\ events \in Seq(Events)

\* A session whose thread has not started has no pictures yet, and the thread
\* that is left is of an earlier one.
NotYet == /\ shared <= begun /\ worker <= shared /\ starting \in {0, shared}
          /\ worker # 0 => worker # starting
          /\ \A s \in Sessions : s > shared \/ s = starting => pictures[s] = <<>>

Queued == queue = <<>> \/ (queue = <<Head(queue)>> /\ Faithful(Head(queue), pictures))
Carried == \A x \in streams : Carries(x, pictures)
Slotted == slot = NoFrame \/ Faithful(slot, pictures)

\* The inductive invariant: every frame on the way is faithful to its picture,
\* and the two ends of the way are at a picture.
SourceInv == SharerTypes /\ NotYet /\ AtLast(worker, encoder, pictures)
WayInv == Queued /\ Carried /\ Slotted
PictureInv == SourceInv /\ WayInv /\ ViewerTypes /\ Painted(decoder, pictures)

-----------------------------------------------------------------------------
(* Frames and pictures                                                     *)

\* The first states of the two ends.
LEMMA FirstStates ==
    /\ Blank \in Pictures
    /\ Encoder \in Encoders /\ Encoder.id = 0 /\ Encoder.key
    /\ \A s \in 0 .. MaxSessions : Decoder(s) \in Decoders /\ ~Decoder(s).ready
    /\ NoDecoder \in Decoders /\ ~NoDecoder.ready
    /\ \A k \in {"frame", "viewing"}, s \in Sessions : Event(k, s) \in Events
    /\ Event("idle", 0) \in Events
    /\ \A e \in Events : /\ e.session \in 0 .. MaxSessions
                         /\ e.type \in {"frame", "viewing", "idle"}
                         /\ e.type # "idle" => e.session \in Sessions
    /\ 0 \in 0 .. MaxSessions
<1>1. Blank \in Pictures /\ 0 \in 0 .. MaxSessions
  BY BoundsAssumption DEF Blank, Pictures
<1>2. \A s \in 0 .. MaxSessions : Decoder(s) \in Decoders /\ ~Decoder(s).ready
  BY <1>1 DEF Decoder, Decoders
<1>3. /\ \A k \in {"frame", "viewing"}, s \in Sessions : Event(k, s) \in Events
      /\ Event("idle", 0) \in Events
  BY DEF Event, Events
<1>4. \A e \in Events : /\ e.session \in 0 .. MaxSessions
                        /\ e.type \in {"frame", "viewing", "idle"}
                        /\ e.type # "idle" => e.session \in Sessions
  BY <1>1 DEF Event, Events, Sessions
<1> QED
  BY <1>1, <1>2, <1>3, <1>4 DEF Encoder, Encoders, NoDecoder

\* A picture more takes nothing from those before it.
LEMMA MorePictures ==
    ASSUME NEW ps \in [Sessions -> Seq(Pictures)], NEW w \in Sessions, NEW p \in Pictures,
           NEW qs, qs[w] = Append(ps[w], p), \A s \in Sessions \ {w} : qs[s] = ps[s]
    PROVE  /\ Append(ps[w], p) \in Seq(Pictures)
           /\ Len(qs[w]) = Len(ps[w]) + 1 /\ qs[w][Len(ps[w]) + 1] = p /\ Len(ps[w]) \in Nat
           /\ Continues(ps, qs)
<1>1. \A s \in Sessions : ps[s] \in Seq(Pictures)
  OBVIOUS
<1>2. /\ Append(ps[w], p) \in Seq(Pictures)
      /\ Len(Append(ps[w], p)) = Len(ps[w]) + 1 /\ Len(ps[w]) \in Nat
      /\ Append(ps[w], p)[Len(ps[w]) + 1] = p
      /\ \A i \in 1 .. Len(ps[w]) : Append(ps[w], p)[i] = ps[w][i]
  BY <1>1
<1>3. Continues(ps, qs)
  <2>1. ASSUME NEW s \in Sessions
        PROVE  /\ Len(ps[s]) \in Nat /\ Len(qs[s]) \in Nat /\ Len(ps[s]) <= Len(qs[s])
               /\ \A i \in 1 .. Len(ps[s]) : qs[s][i] = ps[s][i]
    <3>1. CASE s = w
      <4> DEFINE q == Append(ps[w], p)
      <4>1. qs[s] = q /\ ps[s] = ps[w]
        BY <3>1
      <4>2. /\ Len(ps[w]) \in Nat /\ Len(q) = Len(ps[w]) + 1
            /\ \A i \in 1 .. Len(ps[w]) : q[i] = ps[w][i]
        BY <1>2
      <4> HIDE DEF q
      <4> QED
        BY <4>1, <4>2
    <3>2. CASE s # w
      <4>1. qs[s] = ps[s] /\ ps[s] \in Seq(Pictures)
        BY <1>1, <3>2
      <4> QED
        BY <4>1
    <3> QED
      BY <3>1, <3>2
  <2> QED
    BY <2>1, Zenon DEF Continues
<1> QED
  BY <1>2, <1>3

\* Nor does it make an old frame unfaithful.
LEMMA FaithfulStays ==
    ASSUME NEW ps, NEW qs, Continues(ps, qs), NEW f, Faithful(f, ps)
    PROVE  Faithful(f, qs)
<1> DEFINE s == f.session
           i == f.id
<1>1. s \in Sessions /\ i \in 1 .. Len(ps[s])
  BY DEF Faithful
<1>2. /\ Len(ps[s]) \in Nat /\ Len(ps[s]) <= Len(qs[s]) /\ Len(qs[s]) \in Nat
      /\ \A k \in 1 .. Len(ps[s]) : qs[s][k] = ps[s][k]
  BY <1>1 DEF Continues
<1>3. i \in 1 .. Len(qs[s]) /\ qs[s][i] = ps[s][i]
  BY <1>1, <1>2
<1>4. i > 1 => qs[s][i - 1] = ps[s][i - 1]
  BY <1>1, <1>2
<1> QED
  BY <1>1, <1>3, <1>4 DEF Faithful

\* Nor an old canvas wrong.
LEMMA PaintedStays ==
    ASSUME NEW ps, NEW qs, Continues(ps, qs), NEW d, Painted(d, ps)
    PROVE  Painted(d, qs)
<1> DEFINE s == d.session
<1> SUFFICES ASSUME d.ready PROVE Painted(d, qs)
  BY DEF Painted
<1>1. s \in Sessions /\ d.last \in 1 .. Len(ps[s]) /\ d.canvas = ps[s][d.last]
  BY DEF Painted
<1>2. /\ Len(ps[s]) \in Nat /\ Len(ps[s]) <= Len(qs[s]) /\ Len(qs[s]) \in Nat
      /\ \A k \in 1 .. Len(ps[s]) : qs[s][k] = ps[s][k]
  BY <1>1 DEF Continues
<1> QED
  BY <1>1, <1>2 DEF Painted

\* The frame that the encoder makes of the screen is faithful to it, once the
\* screen is recorded.
LEMMA EncodedIsFaithful ==
    ASSUME SharerTypes, NEW w \in Sessions, AtLast(w, encoder, pictures),
           NEW e \in Encoders, e.id = encoder.id, e.previous = encoder.previous,
           encoder.key => e.key,
           NEW qs, qs[w] = Append(pictures[w], screen),
           \A s \in Sessions \ {w} : qs[s] = pictures[s]
    PROVE  Faithful(Frame(w, e.id + 1, e.key, Patches(e)), qs)
<1> DEFINE f == Frame(w, e.id + 1, e.key, Patches(e))
           n == Len(pictures[w])
<1>1. pictures \in [Sessions -> Seq(Pictures)] /\ screen \in Pictures
  BY DEF SharerTypes
<1>2. /\ Len(qs[w]) = n + 1 /\ qs[w][n + 1] = screen /\ n \in Nat
      /\ \A i \in 1 .. n : qs[w][i] = pictures[w][i]
  BY <1>1, MorePictures DEF Continues
<1>3. w # 0 /\ e.id = n
  BY BoundsAssumption DEF AtLast, Sessions
<1>4. /\ f.session = w /\ f.id = e.id + 1 /\ f.key = e.key
      /\ DOMAIN f.patches = {u \in Tiles : e.key \/ screen[u] # e.previous[u]}
      /\ \A t \in DOMAIN f.patches : f.patches[t] = screen[t]
  BY DEF Frame, Patches
<1> HIDE DEF f, n
<1>5. n = 0 => e.key
  BY <1>3 DEF AtLast
<1>6. n # 0 => e.previous = qs[w][n] /\ n + 1 > 1 /\ (n + 1) - 1 = n
  BY <1>2, <1>3 DEF AtLast
<1>7. ASSUME NEW t \in Tiles, t \notin DOMAIN f.patches
      PROVE  ~f.key /\ f.id > 1 /\ qs[w][f.id][t] = qs[w][f.id - 1][t]
  <2>1. ~e.key /\ screen[t] = e.previous[t]
    BY <1>4, <1>7
  <2>2. n # 0
    BY <1>5, <2>1
  <2> QED
    BY <1>2, <1>3, <1>4, <1>6, <2>1, <2>2
<1>8. f.id \in 1 .. Len(qs[w]) /\ qs[w][f.id] = screen
  BY <1>2, <1>3, <1>4
<1>9. Faithful(f, qs)
  BY <1>4, <1>7, <1>8 DEF Faithful
<1> QED
  BY <1>9 DEF f

\* A faithful frame that the decoder accepts paints its picture.
LEMMA AppliedIsPainted ==
    ASSUME NEW ps \in [Sessions -> Seq(Pictures)], NEW d \in Decoders, Painted(d, ps),
           NEW f, Faithful(f, ps), Accepts(d, f)
    PROVE  Applied(d, f) \in Decoders /\ Painted(Applied(d, f), ps)
<1> DEFINE s == f.session
           c == [t \in Tiles |-> IF t \in DOMAIN f.patches THEN f.patches[t]
                                 ELSE IF f.key THEN FALSE ELSE d.canvas[t]]
<1>1. /\ s \in Sessions /\ d.session = s /\ f.id \in 1 .. Len(ps[s]) /\ Len(ps[s]) \in Nat
      /\ ps[s][f.id] \in [Tiles -> BOOLEAN]
  BY DEF Faithful, Accepts, Pictures
<1>2. ASSUME NEW t \in Tiles PROVE c[t] = ps[s][f.id][t]
  <2>1. CASE t \in DOMAIN f.patches
    BY <2>1 DEF Faithful
  <2>2. CASE t \notin DOMAIN f.patches
    <3>1. ~f.key /\ ps[s][f.id][t] = ps[s][f.id - 1][t]
      BY <2>2 DEF Faithful
    <3>2. d.ready /\ f.id = d.last + 1
      BY <3>1 DEF Accepts
    <3>3. d.canvas = ps[s][d.last] /\ d.last = f.id - 1
      BY <1>1, <3>2 DEF Painted, Decoders
    <3> QED
      BY <2>2, <3>1, <3>3
  <2> QED
    BY <2>1, <2>2
<1>3. c = ps[s][f.id]
  BY <1>1, <1>2
<1>4. Applied(d, f) = [d EXCEPT !.last = f.id, !.ready = TRUE, !.canvas = c]
  BY DEF Applied
<1> HIDE DEF c
<1>5. c \in Pictures /\ f.id \in Nat
  BY <1>1, <1>3 DEF Pictures
<1>6. Applied(d, f) \in Decoders
  BY <1>4, <1>5 DEF Decoders
<1>7. LET a == Applied(d, f) IN a.session = s /\ a.last = f.id /\ a.canvas = c
  BY <1>1, <1>4 DEF Decoders
<1> QED
  BY <1>1, <1>3, <1>6, <1>7 DEF Painted

-----------------------------------------------------------------------------
(* The steps                                                               *)

\* The parts of the invariant are about these variables only.
LEMMA Untouched ==
    /\ SourceInv /\ UNCHANGED <<source, sessions>> => SourceInv'
    /\ WayInv /\ UNCHANGED <<queue, streams, slot, pictures>> => WayInv'
    /\ ViewerTypes /\ UNCHANGED <<decoder, events>> => ViewerTypes'
    /\ Painted(decoder, pictures) /\ UNCHANGED <<decoder, pictures>>
          => Painted(decoder, pictures)'
  BY DEF source, sessions, SourceInv, SharerTypes, NotYet, WayInv, Queued, Carried, Slotted,
         ViewerTypes

\* The sharer's window, its thread and its sessions, without a frame.
LEMMA SharerSteps ==
    ASSUME PictureInv,
           \/ HandleAnswer \/ StartCapture \/ StopSharing \/ StopWorker \/ CaptureFails
           \/ ForceKeyframe \/ \E t \in Tiles : Change(t)
    PROVE  PictureInv'
<1>1. SharerTypes /\ NotYet /\ AtLast(worker, encoder, pictures) /\ WayInv /\ ViewerTypes
      /\ Painted(decoder, pictures)
  BY DEF PictureInv, SourceInv
<1>2. UNCHANGED <<queue, streams, slot, pictures, decoder, events, begun>>
  BY DEF HandleAnswer, StartCapture, StopSharing, StopWorker, CaptureFails, ForceKeyframe, Change,
         link, viewer, sessions, source
<1>3. WayInv' /\ ViewerTypes' /\ Painted(decoder, pictures)'
  BY <1>1, <1>2, Untouched
<1>4. {begun, shared, starting, worker} \subseteq Nat /\ 0 \in 0 .. MaxSessions
  BY <1>1, FirstStates DEF SharerTypes
<1>5. CASE HandleAnswer
  <2>1. /\ shared < begun /\ shared' = begun /\ starting' = begun
        /\ UNCHANGED <<screen, fresh, worker, encoder, force, pictures, begun>>
    BY <1>5 DEF HandleAnswer
  <2>2. NotYet'
    BY <1>1, <1>4, <2>1 DEF NotYet, Sessions
  <2> QED
    BY <1>1, <1>3, <2>1, <2>2 DEF PictureInv, SourceInv, SharerTypes
<1>6. CASE StartCapture
  <2>1. /\ starting # 0 /\ worker' = starting /\ starting' = 0 /\ encoder' = Encoder
        /\ fresh' \in BOOLEAN /\ force' \in BOOLEAN
        /\ UNCHANGED <<screen, shared, pictures, begun>>
    BY <1>6 DEF StartCapture, sessions
  <2>2. starting \in Sessions /\ starting = shared /\ pictures[starting] = <<>>
    BY <1>1, <1>4, <2>1 DEF NotYet, Sessions, SharerTypes
  <2>3. NotYet'
    BY <1>1, <1>4, <2>1, <2>2 DEF NotYet, Sessions
  <2>4. AtLast(worker, encoder, pictures)'
    BY <2>1, <2>2, FirstStates DEF AtLast
  <2>5. SharerTypes'
    BY <1>1, <1>4, <2>1, FirstStates DEF SharerTypes
  <2> QED
    BY <1>3, <2>3, <2>4, <2>5 DEF PictureInv, SourceInv
<1>7. ASSUME NoThread, UNCHANGED <<screen, shared, starting, pictures>>
      PROVE  PictureInv'
  <2>1. worker' = 0 /\ encoder' = Encoder /\ fresh' = FALSE /\ force' = FALSE
    BY <1>7 DEF NoThread
  <2>2. NotYet' /\ AtLast(worker, encoder, pictures)'
    BY <1>1, <1>2, <1>4, <1>7, <2>1 DEF NotYet, AtLast
  <2>3. SharerTypes'
    BY <1>1, <1>2, <1>4, <1>7, <2>1, FirstStates DEF SharerTypes
  <2> QED
    BY <1>3, <2>2, <2>3 DEF PictureInv, SourceInv
<1>8. ASSUME UNCHANGED <<worker, shared, starting, pictures>>,
             encoder' \in Encoders, encoder'.id = encoder.id,
             encoder'.previous = encoder.previous, encoder.key => encoder'.key,
             screen' \in Pictures, fresh' \in BOOLEAN, force' \in BOOLEAN
      PROVE  PictureInv'
  <2>1. NotYet' /\ SharerTypes'
    BY <1>1, <1>2, <1>8 DEF NotYet, SharerTypes
  <2>2. AtLast(worker, encoder, pictures)'
    BY <1>1, <1>8 DEF AtLast
  <2> QED
    BY <1>3, <2>1, <2>2 DEF PictureInv, SourceInv
<1>9. CASE StopSharing
  BY <1>1, <1>8, <1>9 DEF StopSharing, sessions, SharerTypes
<1>10. CASE StopWorker
  BY <1>7, <1>10 DEF StopWorker, sessions
<1>11. CASE CaptureFails
  <2>1. UNCHANGED <<screen, shared, starting, pictures>>
    BY <1>11 DEF CaptureFails, sessions
  <2>2. CASE NoThread
    BY <1>7, <2>1, <2>2
  <2>3. CASE encoder' = [encoder EXCEPT !.key = TRUE] /\ force' = FALSE /\ fresh' = TRUE
             /\ UNCHANGED worker
    <3>1. encoder' \in Encoders /\ encoder'.id = encoder.id
          /\ encoder'.previous = encoder.previous /\ encoder'.key
      BY <1>1, <2>3 DEF SharerTypes, Encoders
    <3> QED
      BY <1>1, <1>8, <2>1, <2>3, <3>1 DEF SharerTypes
  <2> QED
    BY <1>11, <2>2, <2>3 DEF CaptureFails
<1>12. CASE ForceKeyframe
  BY <1>1, <1>8, <1>12 DEF ForceKeyframe, sessions, SharerTypes
<1>13. ASSUME NEW t \in Tiles, Change(t) PROVE PictureInv'
  <2>1. screen' = [screen EXCEPT ![t] = ~screen[t]] /\ fresh' = TRUE
        /\ UNCHANGED <<worker, shared, starting, pictures, encoder, force>>
    BY <1>13 DEF Change, sessions
  <2>2. screen' \in Pictures
    BY <1>1, <2>1 DEF SharerTypes, Pictures
  <2> QED
    BY <1>1, <1>8, <2>1, <2>2 DEF SharerTypes
<1> QED
  BY <1>5, <1>6, <1>9, <1>10, <1>11, <1>12, <1>13

\* A turn of the thread: the frame is given to the channel and becomes the base
\* of the next one, both or neither.
LEMMA CaptureKeeps ==
    ASSUME PictureInv, Capture
    PROVE  PictureInv'
<1> DEFINE e == [encoder EXCEPT !.key = encoder.key \/ force]
           f == Frame(worker, e.id + 1, e.key, Patches(e))
           given == fresh /\ DOMAIN f.patches # {}
<1>1. SharerTypes /\ NotYet /\ AtLast(worker, encoder, pictures) /\ WayInv /\ ViewerTypes
      /\ Painted(decoder, pictures)
  BY DEF PictureInv, SourceInv
<1>2. /\ e \in Encoders /\ e.id = encoder.id /\ e.previous = encoder.previous
      /\ encoder.key => e.key
  BY <1>1 DEF SharerTypes, Encoders
<1>3. /\ worker # 0 /\ force' = FALSE /\ fresh' = FALSE
      /\ UNCHANGED <<screen, starting, worker, begun, shared, streams, slot, decoder, events>>
  BY DEF Capture, viewer, sessions
<1>4. /\ queue' = IF given /\ queue = <<>> THEN <<f>> ELSE queue
      /\ IF given /\ queue = <<>>
         THEN /\ encoder' = [e EXCEPT !.id = e.id + 1, !.previous = screen, !.key = FALSE]
              /\ pictures' = [pictures EXCEPT ![worker] = Append(@, screen)]
         ELSE encoder' = e /\ UNCHANGED pictures
  BY Zenon DEF Capture, Commits
<1>5. worker \in Sessions
  BY <1>1, <1>3 DEF SharerTypes, Sessions
<1> HIDE DEF e
<1>6. CASE given /\ queue = <<>>
  <2>1. queue' = <<f>> /\ pictures' = [pictures EXCEPT ![worker] = Append(@, screen)]
        /\ encoder' = [e EXCEPT !.id = e.id + 1, !.previous = screen, !.key = FALSE]
    BY <1>4, <1>6
  <2>2. /\ pictures'[worker] = Append(pictures[worker], screen)
        /\ \A s \in Sessions \ {worker} : pictures'[s] = pictures[s]
    <3>1. pictures' = [pictures EXCEPT ![worker] = Append(@, screen)]
      BY <2>1
    <3> QED
      BY <1>1, <1>5, <3>1 DEF SharerTypes
  <2>3. /\ pictures' \in [Sessions -> Seq(Pictures)]
        /\ Len(pictures'[worker]) = Len(pictures[worker]) + 1
        /\ pictures'[worker][Len(pictures[worker]) + 1] = screen
        /\ Continues(pictures, pictures') /\ Faithful(f, pictures')
    <3>1. pictures \in [Sessions -> Seq(Pictures)] /\ screen \in Pictures
      BY <1>1 DEF SharerTypes
    <3>2. /\ Append(pictures[worker], screen) \in Seq(Pictures)
          /\ Len(pictures'[worker]) = Len(pictures[worker]) + 1
          /\ pictures'[worker][Len(pictures[worker]) + 1] = screen
      BY <1>5, <2>2, <3>1, MorePictures
    <3>6. Continues(pictures, pictures')
      BY <1>5, <2>2, <3>1, MorePictures, Zenon
    <3>3. pictures' = [pictures EXCEPT ![worker] = Append(@, screen)]
      BY <2>1
    <3>4. pictures' \in [Sessions -> Seq(Pictures)]
      BY <3>1, <3>2, <3>3
    <3>5. Faithful(f, pictures')
      BY <1>1, <1>2, <1>5, <2>2, EncodedIsFaithful
    <3> QED
      BY <3>2, <3>4, <3>5, <3>6
  <2> HIDE DEF f
  <2>4. /\ encoder' \in Encoders /\ encoder'.id = e.id + 1 /\ encoder'.previous = screen
        /\ e.id \in Nat
    <3>1. screen \in Pictures /\ e.id \in Nat /\ e.id + 1 \in Nat
      BY <1>1, <1>2 DEF SharerTypes, Encoders
    <3> DEFINE n == e.id + 1
    <3>2. n \in Nat /\ encoder' = [e EXCEPT !.id = n, !.previous = screen, !.key = FALSE]
      BY <2>1, <3>1
    <3> HIDE DEF n
    <3>3. encoder' \in Encoders /\ encoder'.id = n /\ encoder'.previous = screen
      BY <1>2, <3>1, <3>2 DEF Encoders
    <3> QED
      BY <3>1, <3>3 DEF n
  <2>5. AtLast(worker, encoder, pictures)'
    BY <1>1, <1>2, <1>3, <2>3, <2>4 DEF AtLast
  <2>6. SharerTypes'
    BY <1>1, <1>3, <2>3, <2>4 DEF SharerTypes
  <2>7. NotYet'
    <3>1. ~(worker > shared) /\ worker # starting
      BY <1>1, <1>3 DEF NotYet, SharerTypes
    <3> QED
      BY <1>1, <1>3, <2>2, <3>1 DEF NotYet
  <2>8. Queued'
    BY <2>1, <2>3 DEF Queued
  <2>9. Carried' /\ Slotted'
    BY <1>1, <1>3, <2>3, FaithfulStays DEF WayInv, Carried, Carries, Slotted
  <2>10. Painted(decoder, pictures)' /\ ViewerTypes'
    BY <1>1, <1>3, <2>3, PaintedStays DEF ViewerTypes
  <2> QED
    BY <2>5, <2>6, <2>7, <2>8, <2>9, <2>10 DEF PictureInv, SourceInv, WayInv
<1>7. CASE ~(given /\ queue = <<>>)
  <2>1. encoder' = e /\ UNCHANGED <<pictures, queue>>
    BY <1>4, <1>7
  <2>2. AtLast(worker, encoder, pictures)'
    BY <1>1, <1>2, <1>3, <2>1 DEF AtLast
  <2>3. SharerTypes' /\ NotYet'
    BY <1>1, <1>2, <1>3, <2>1 DEF SharerTypes, NotYet
  <2> QED
    BY <1>1, <1>3, <2>1, <2>2, <2>3, Untouched DEF PictureInv, SourceInv
<1> QED
  BY <1>6, <1>7

\* The streams carry what the channel held, and the slot takes it from them.
LEMMA LinkSteps ==
    ASSUME PictureInv, Link
    PROVE  PictureInv'
<1>1. SourceInv /\ WayInv /\ ViewerTypes /\ Painted(decoder, pictures)
  BY DEF PictureInv
<1>2. pictures' = pictures /\ decoder' = decoder
  BY DEF Link, TakeFrame, Written, WriteFails, ReadHeader, ReadPayload, viewer, source
<1>3. SourceInv' /\ Painted(decoder, pictures)'
  <2>1. UNCHANGED <<screen, fresh, force, encoder, pictures, begun, shared, starting, worker>>
    BY DEF Link, TakeFrame, Written, WriteFails, ReadHeader, ReadPayload, sessions, source
  <2> QED
    BY <1>1, <1>2, <2>1 DEF SourceInv, SharerTypes, NotYet
<1>4. ASSUME NEW x \in streams, NEW y, Becomes(x, y), y.frame = x.frame,
             y = [frame |-> y.frame, open |-> y.open, read |-> y.read]
      PROVE  Carried'
  BY <1>1, <1>2, <1>4 DEF WayInv, Carried, Carries, Becomes
<1>5. CASE TakeFrame
  <2>1. queue # <<>> /\ queue' = <<>> /\ UNCHANGED <<slot, events>>
        /\ streams' \subseteq streams \cup {Stream(Head(queue))}
    BY <1>5 DEF TakeFrame, viewer
  <2>2. Carries(Stream(Head(queue)), pictures)
    BY <1>1, <2>1 DEF WayInv, Queued, Carries, Stream
  <2> QED
    BY <1>1, <1>2, <1>3, <2>1, <2>2, Untouched DEF PictureInv, WayInv, Queued, Carried, Slotted
<1>6. ASSUME NEW x \in streams, Written(x) \/ WriteFails(x) \/ ReadHeader(x) PROVE PictureInv'
  <2>1. UNCHANGED <<queue, slot, events>>
    BY <1>6 DEF Written, WriteFails, ReadHeader, viewer
  <2>2. x = [frame |-> x.frame, open |-> x.open, read |-> x.read]
    BY <1>1 DEF WayInv, Carried, Carries
  <2>3. ASSUME WriteFails(x) PROVE Carried'
    <3>1. streams' = streams \ {x}
      BY <2>3 DEF WriteFails
    <3> QED
      BY <1>1, <1>2, <3>1 DEF WayInv, Carried
  <2>4. ASSUME Written(x) PROVE Carried'
    <3> DEFINE y == [x EXCEPT !.open = FALSE]
    <3>1. y = [frame |-> x.frame, open |-> FALSE, read |-> x.read]
      <4>1. \A b : [x EXCEPT !.open = b] = [frame |-> x.frame, open |-> b, read |-> x.read]
        BY <2>2
      <4> QED
        BY <4>1
    <3>2. Becomes(x, y)
      BY <2>4 DEF Written
    <3> QED
      BY <1>4, <3>1, <3>2
  <2>5. ASSUME ReadHeader(x) PROVE Carried'
    <3>1. PICK r \in {"header", "all"} : Becomes(x, [x EXCEPT !.read = r])
      BY <2>5 DEF ReadHeader
    <3> DEFINE y == [x EXCEPT !.read = r]
    <3>2. y = [frame |-> x.frame, open |-> x.open, read |-> r]
      BY <2>2
    <3> QED
      BY <1>4, <3>1, <3>2
  <2>6. Carried'
    BY <1>6, <2>3, <2>4, <2>5
  <2> QED
    BY <1>1, <1>2, <1>3, <2>1, <2>6, Untouched DEF PictureInv, WayInv, Queued, Slotted
<1>7. ASSUME NEW x \in streams, ReadPayload(x) PROVE PictureInv'
  <2>1. /\ Becomes(x, [x EXCEPT !.read = "all"])
        /\ slot' = x.frame \/ slot' = slot
        /\ events' = events \/ events' = Append(events, Event("frame", x.frame.session))
        /\ UNCHANGED queue
    BY <1>7, Zenon DEF ReadPayload
  <2>2. x = [frame |-> x.frame, open |-> x.open, read |-> x.read] /\ Faithful(x.frame, pictures)
    BY <1>1 DEF WayInv, Carried, Carries
  <2>3. Carried'
    <3> DEFINE y == [x EXCEPT !.read = "all"]
    <3>1. y = [frame |-> x.frame, open |-> x.open, read |-> "all"]
      BY <2>2
    <3> QED
      BY <1>4, <2>1, <3>1
  <2>4. Slotted'
    BY <1>1, <1>2, <2>1, <2>2 DEF WayInv, Slotted
  <2>5. Event("frame", x.frame.session) \in Events
    BY <2>2, FirstStates DEF Faithful
  <2>6. ViewerTypes'
    BY <1>1, <1>2, <2>1, <2>5 DEF ViewerTypes
  <2> QED
    BY <1>1, <1>2, <1>3, <2>1, <2>3, <2>4, <2>6 DEF PictureInv, WayInv, Queued
<1> QED
  BY <1>5, <1>6, <1>7 DEF Link

\* The window takes the slot's frame on its picture, or none.
LEMMA WindowSteps ==
    ASSUME PictureInv, Window
    PROVE  PictureInv'
<1>1. SourceInv /\ WayInv /\ ViewerTypes /\ Painted(decoder, pictures)
  BY DEF PictureInv
<1>2. UNCHANGED <<source, sessions, queue, streams>> /\ UNCHANGED pictures
  BY DEF Window, HandleFrameAvailable, HandleViewing, HandleIdle, sessions, source, link
<1>3. SourceInv'
  BY <1>1, <1>2, Untouched
<1>4. PICK k : NextEvent(k)
  BY DEF Window, HandleFrameAvailable, HandleViewing, HandleIdle
<1>5. /\ Head(events) \in Events /\ Head(events).session \in 0 .. MaxSessions
      /\ events' \in Seq(Events)
  <2>1. events \in Seq(Events) /\ events # <<>> /\ events' = Tail(events)
    BY <1>1, <1>4 DEF NextEvent, ViewerTypes
  <2>2. Head(events) \in Events /\ Tail(events) \in Seq(Events)
    BY <2>1
  <2> QED
    BY <2>1, <2>2, FirstStates
<1>6. CASE HandleViewing \/ HandleIdle
  <2>1. decoder' = decoder \/ \E s \in 0 .. MaxSessions : decoder' = Decoder(s)
    BY <1>5, <1>6, FirstStates DEF HandleViewing, HandleIdle, NoDecoder
  <2>2. decoder' \in Decoders /\ Painted(decoder, pictures)'
    BY <1>1, <1>2, <2>1, FirstStates DEF ViewerTypes, Painted
  <2>3. UNCHANGED slot
    BY <1>6 DEF HandleViewing, HandleIdle
  <2>4. WayInv'
    BY <1>1, <1>2, <2>3, Untouched
  <2> QED
    BY <1>3, <1>5, <2>2, <2>4 DEF PictureInv, ViewerTypes
<1>7. CASE HandleFrameAvailable
  <2> DEFINE s == Head(events).session
             d == IF decoder = NoDecoder THEN Decoder(s) ELSE decoder
  <2>1. d \in Decoders /\ Painted(d, pictures)
    BY <1>1, <1>5, FirstStates DEF ViewerTypes, Painted
  <2>2. \/ UNCHANGED <<slot, decoder>>
        \/ slot # NoFrame /\ slot' = NoFrame /\ Accepts(d, slot) /\ decoder' = Applied(d, slot)
        \/ slot' = NoFrame /\ decoder' = d
    BY <1>7 DEF HandleFrameAvailable, ConsumeFrame
  <2> HIDE DEF d
  <2>3. decoder' \in Decoders /\ Painted(decoder', pictures)
    BY <1>1, <2>1, <2>2, AppliedIsPainted
       DEF WayInv, Slotted, ViewerTypes, SourceInv, SharerTypes
  <2>4. WayInv'
    BY <1>1, <1>2, <2>2 DEF WayInv, Queued, Carried, Slotted
  <2> QED
    BY <1>2, <1>3, <1>5, <2>3, <2>4 DEF PictureInv, ViewerTypes
<1> QED
  BY <1>6, <1>7 DEF Window

\* The viewer's session and its requests.
LEMMA ViewerSteps ==
    ASSUME PictureInv, Accept \/ StopViewing \/ \E s \in Sessions : HandleRequest(s)
    PROVE  PictureInv'
<1>1. SharerTypes /\ NotYet /\ AtLast(worker, encoder, pictures) /\ WayInv /\ ViewerTypes
      /\ Painted(decoder, pictures)
  BY DEF PictureInv, SourceInv
<1>2. UNCHANGED <<screen, fresh, starting, worker, encoder, force, pictures, queue, streams, slot,
                  decoder, shared>>
  BY DEF Accept, StopViewing, HandleRequest, source, link, sessions
<1>3. WayInv' /\ Painted(decoder, pictures)' /\ AtLast(worker, encoder, pictures)'
  BY <1>1, <1>2, Untouched
<1>4. begun' \in 0 .. MaxSessions /\ begun <= begun' /\ {begun, shared} \subseteq Nat
  BY <1>1, BoundsAssumption DEF Accept, StopViewing, HandleRequest, sessions, SharerTypes
<1>5. NotYet' /\ SharerTypes'
  BY <1>1, <1>2, <1>4 DEF NotYet, SharerTypes
<1>6. events' \in Seq(Events)
  <2>1. CASE Accept
    <3>1. begun + 1 \in Sessions
      BY <1>4, <2>1, BoundsAssumption DEF Accept, Sessions
    <3>2. Event("viewing", begun + 1) \in Events
      BY <3>1, FirstStates
    <3> QED
      BY <1>1, <2>1, <3>2 DEF Accept, ViewerTypes
  <2>2. CASE StopViewing
    <3>1. Event("idle", 0) \in Events
      BY FirstStates
    <3> QED
      BY <1>1, <2>2, <3>1 DEF StopViewing, ViewerTypes
  <2>3. CASE \E s \in Sessions : HandleRequest(s)
    BY <1>1, <2>3 DEF HandleRequest, ViewerTypes
  <2> QED
    BY <2>1, <2>2, <2>3
<1> QED
  BY <1>1, <1>2, <1>3, <1>5, <1>6 DEF PictureInv, SourceInv, ViewerTypes

-----------------------------------------------------------------------------
(* The canvas                                                              *)

\* The invariant of the pictures holds at first, and after every step.
LEMMA PictureInit == Init => PictureInv
<1> SUFFICES ASSUME Init PROVE PictureInv
  OBVIOUS
<1>1. SharerTypes
  <2>1. [s \in Sessions |-> <<>>] \in [Sessions -> Seq(Pictures)]
    OBVIOUS
  <2> QED
    BY <2>1, FirstStates DEF Init, SharerTypes
<1>2. NotYet /\ AtLast(worker, encoder, pictures) /\ Painted(decoder, pictures)
  BY FirstStates DEF Init, NotYet, AtLast, Painted
<1>3. WayInv /\ ViewerTypes
  BY FirstStates DEF Init, WayInv, Queued, Carried, Slotted, ViewerTypes
<1> QED
  BY <1>1, <1>2, <1>3 DEF PictureInv, SourceInv

LEMMA PictureStep == PictureInv /\ [Next]_vars => PictureInv'
<1> SUFFICES ASSUME PictureInv, [Next]_vars PROVE PictureInv'
  OBVIOUS
<1>1. CASE Next
  BY <1>1, SharerSteps, CaptureKeeps, LinkSteps, WindowSteps, ViewerSteps DEF Next, Sharer
<1>2. CASE UNCHANGED vars
  <2>1. UNCHANGED <<source, sessions>> /\ UNCHANGED <<queue, streams, slot, pictures>>
        /\ UNCHANGED <<decoder, events>>
    BY <1>2 DEF vars, source, link, viewer, sessions
  <2> QED
    BY <2>1, Untouched DEF PictureInv
<1> QED
  BY <1>1, <1>2

\* Every frame on its way is faithful to its picture in every reachable state.
THEOREM PictureInvariant == Spec => []PictureInv
  BY PictureInit, PictureStep, PTL DEF Spec

\* The canvas is the screen of the frame applied last, whatever was lost, has
\* overtaken or ended before it.
THEOREM CanvasIsTrue == Spec => []CanvasIsScreen
<1>1. PictureInv => CanvasIsScreen
  BY DEF PictureInv, Painted, CanvasIsScreen
<1> QED
  BY <1>1, PictureInvariant, PTL

-----------------------------------------------------------------------------
(* The frames on their way, one by one                                     *)

\* The channel holds the last frame of its session, which nothing else holds;
\* no two streams carry the same frame.
QueueIsLast ==
    queue # <<>> => LET f == Head(queue)
                    IN /\ f.id = Len(pictures[f.session])
                       /\ \A x \in streams : x.frame.session = f.session => x.frame.id < f.id
OneStreamEach ==
    \A x, y \in streams :
        x.frame.session = y.frame.session /\ x.frame.id = y.frame.id => x = y

\* What the viewer's end has seen of the session that it views was on a stream
\* that it has begun to read.
SeenIsRead ==
    viewing # 0 => /\ last <= Len(pictures[viewing])
                   /\ \A x \in streams : x.frame.session = viewing /\ x.read = "nothing"
                                            => x.frame.id # last
                   /\ queue # <<>> /\ Head(queue).session = viewing => last < Head(queue).id

ControlTypes == /\ {sharing, viewing, window} \subseteq 0 .. MaxSessions
                /\ {told, sending, late, missed} \subseteq BOOLEAN
                /\ last \in Nat /\ asked \subseteq Sessions
Order == ControlTypes /\ QueueIsLast /\ OneStreamEach /\ SeenIsRead

\* A faithful frame is one of its session's pictures.
InRange(f) == /\ f.session \in Sessions /\ f.id \in Nat /\ 1 <= f.id
              /\ f.id <= Len(pictures[f.session])

\* Every frame on its way is.
LEMMA FramesInRange ==
    ASSUME PictureInv
    PROVE  /\ \A s \in Sessions : /\ pictures[s] \in Seq(Pictures) /\ Len(pictures[s]) \in Nat
                                  /\ pictures[s] # <<>> => Len(pictures[s]) # 0
           /\ queue # <<>> => queue = <<Head(queue)>> /\ InRange(Head(queue))
           /\ \A x \in streams : InRange(x.frame)
           /\ slot = NoFrame \/ InRange(slot)
<1>1. \A s \in Sessions : /\ pictures[s] \in Seq(Pictures) /\ Len(pictures[s]) \in Nat
                          /\ pictures[s] # <<>> => Len(pictures[s]) # 0
  BY DEF PictureInv, SourceInv, SharerTypes
<1>2. ASSUME NEW f, Faithful(f, pictures) PROVE InRange(f)
  BY <1>1, <1>2 DEF Faithful, InRange
<1> QED
  BY <1>1, <1>2 DEF PictureInv, WayInv, Queued, Carried, Carries, Slotted

\* A step of the sharer or of the viewer's window moves no frame.
LEMMA OrderUntouched ==
    ASSUME Order, ControlTypes', UNCHANGED <<queue, streams, pictures, viewing, last>>
    PROVE  Order'
  BY DEF Order, QueueIsLast, OneStreamEach, SeenIsRead

\* A stream goes on with the frame that it carries.
LEMMA StreamGoesOn ==
    ASSUME PictureInv, Order, ControlTypes', NEW x \in streams, NEW y, Becomes(x, y),
           y.frame = x.frame, y.read = "nothing" => x.read = "nothing",
           UNCHANGED <<queue, pictures, viewing>>,
           \/ last' = last
           \/ last' = x.frame.id /\ y.read # "nothing" /\ x.frame.session = viewing
    PROVE  Order'
<1>1. QueueIsLast /\ OneStreamEach /\ SeenIsRead
  BY DEF Order
<1>2. \A z \in streams' : (z \in streams /\ z # x) \/ z = y
  BY DEF Becomes
<1>3. QueueIsLast'
  BY <1>1, <1>2 DEF QueueIsLast
<1>4. OneStreamEach'
  BY <1>1, <1>2 DEF OneStreamEach
<1>5. SeenIsRead'
  <2>1. CASE last' = last
    BY <1>1, <1>2, <2>1 DEF SeenIsRead
  <2>2. CASE last' = x.frame.id /\ y.read # "nothing" /\ x.frame.session = viewing
    <3>1. InRange(x.frame)
      BY FramesInRange
    <3>2. x.frame.id <= Len(pictures[viewing])
      BY <2>2, <3>1 DEF InRange
    <3>3. \A z \in streams' : z.frame.session = viewing /\ z.read = "nothing"
                                => z.frame.id # x.frame.id
      BY <1>1, <1>2, <2>2 DEF OneStreamEach
    <3>4. queue # <<>> /\ Head(queue).session = viewing => x.frame.id < Head(queue).id
      BY <1>1, <2>2 DEF QueueIsLast
    <3> QED
      BY <2>2, <3>2, <3>3, <3>4 DEF SeenIsRead
  <2> QED
    BY <2>1, <2>2
<1> QED
  BY <1>3, <1>4, <1>5 DEF Order

\* A record of a stream, with one field changed, is the record of its fields.
LEMMA StreamFields ==
    ASSUME PictureInv, NEW x \in streams
    PROVE  /\ x = [frame |-> x.frame, open |-> x.open, read |-> x.read]
           /\ [x EXCEPT !.open = FALSE] = [frame |-> x.frame, open |-> FALSE, read |-> x.read]
           /\ \A r \in {"header", "all"} :
                 [x EXCEPT !.read = r] = [frame |-> x.frame, open |-> x.open, read |-> r]
<1>1. x = [frame |-> x.frame, open |-> x.open, read |-> x.read]
  BY DEF PictureInv, WayInv, Carried, Carries
<1>2. \A b : [x EXCEPT !.open = b] = [frame |-> x.frame, open |-> b, read |-> x.read]
  BY <1>1
<1>3. \A r : [x EXCEPT !.read = r] = [frame |-> x.frame, open |-> x.open, read |-> r]
  BY <1>1
<1> QED
  BY <1>1, <1>2, <1>3

\* The control state of both sides keeps its types.
LEMMA ControlSteps ==
    ASSUME PictureInv, ControlTypes, Next
    PROVE  ControlTypes'
<1>1. {begun, starting, worker} \subseteq 0 .. MaxSessions /\ 0 \in 0 .. MaxSessions
  BY FirstStates DEF PictureInv, SourceInv, SharerTypes
<1>2. {sharing', viewing', window'} \subseteq 0 .. MaxSessions
  <2>1. sharing' \in {sharing, begun, 0}
    BY DEF Next, Sharer, Link, Window, HandleAnswer, StartCapture, StopSharing, StopWorker,
           Capture, CaptureFails, ForceKeyframe, TakeFrame, Written, WriteFails, ReadHeader,
           ReadPayload, HandleFrameAvailable, HandleViewing, HandleIdle, Accept, StopViewing,
           Change, HandleRequest, source
  <2>2. viewing' \in {viewing, 0} \/ (viewing' = begun + 1 /\ begun < MaxSessions)
    BY DEF Next, Sharer, Link, Window, HandleAnswer, StartCapture, StopSharing, StopWorker,
           Capture, CaptureFails, ForceKeyframe, TakeFrame, Written, WriteFails, ReadHeader,
           ReadPayload, HandleFrameAvailable, HandleViewing, HandleIdle, Accept, StopViewing,
           Change, HandleRequest, viewer
  <2>3. begun < MaxSessions => begun + 1 \in 0 .. MaxSessions
    BY <1>1, BoundsAssumption
  <2>4. window' \in {window, 0} \/ (events # <<>> /\ window' = Head(events).session)
    BY DEF Next, Sharer, Link, Window, HandleAnswer, StartCapture, StopSharing, StopWorker,
           Capture, CaptureFails, ForceKeyframe, TakeFrame, Written, WriteFails, ReadHeader,
           ReadPayload, HandleFrameAvailable, HandleViewing, HandleIdle, Accept, StopViewing,
           Change, HandleRequest, viewer, NextEvent
  <2>5. events # <<>> => Head(events).session \in 0 .. MaxSessions
    <3>1. events \in Seq(Events)
      BY DEF PictureInv, ViewerTypes
    <3>2. events # <<>> => Head(events) \in Events
      BY <3>1
    <3> QED
      BY <3>2, FirstStates
  <2> QED
    BY <1>1, <2>1, <2>2, <2>3, <2>4, <2>5 DEF ControlTypes
<1>3. {told', sending', late', missed'} \subseteq BOOLEAN
  BY DEF Next, Sharer, Link, Window, HandleAnswer, StartCapture, StopSharing, StopWorker,
         Capture, CaptureFails, ForceKeyframe, TakeFrame, Written, WriteFails, ReadHeader,
         ReadPayload, HandleFrameAvailable, HandleViewing, HandleIdle, Accept, StopViewing,
         Change, HandleRequest, source, link, viewer, ControlTypes
<1>4. last' \in Nat
  <2>1. last' \in {last, 0} \/ \E x \in streams : last' = x.frame.id
    BY DEF Next, Sharer, Link, Window, HandleAnswer, StartCapture, StopSharing, StopWorker,
           Capture, CaptureFails, ForceKeyframe, TakeFrame, Written, WriteFails, ReadHeader,
           ReadPayload, HandleFrameAvailable, HandleViewing, HandleIdle, Accept, StopViewing,
           Change, HandleRequest, viewer
  <2> QED
    BY <2>1, FramesInRange DEF InRange, ControlTypes
<1>5. asked' \subseteq Sessions
  <2> SUFFICES ASSUME asked' # asked PROVE asked' \subseteq Sessions
    BY DEF ControlTypes
  <2>1. \/ \E s \in Sessions : asked' = asked \ {s}
        \/ HandleFrameAvailable
    BY DEF Next, Sharer, Link, Window, HandleAnswer, StartCapture, StopSharing, StopWorker,
           Capture, CaptureFails, ForceKeyframe, TakeFrame, Written, WriteFails, ReadHeader,
           ReadPayload, HandleViewing, HandleIdle, Accept, StopViewing,
           Change, HandleRequest, viewer
  <2>2. CASE HandleFrameAvailable
    <3>1. events \in Seq(Events) /\ events # <<>> /\ Head(events).type = "frame"
      BY <2>2 DEF HandleFrameAvailable, NextEvent, PictureInv, ViewerTypes
    <3>2. Head(events) \in Events
      BY <3>1
    <3>3. asked' \in {asked, asked \cup {Head(events).session}}
      BY <2>2 DEF HandleFrameAvailable, ConsumeFrame
    <3> QED
      BY <3>1, <3>2, <3>3, FirstStates DEF ControlTypes
  <2> QED
    BY <2>1, <2>2 DEF ControlTypes
<1> QED
  BY <1>2, <1>3, <1>4, <1>5 DEF ControlTypes

\* A frame given to the channel is the first of its number.
LEMMA CaptureOrder ==
    ASSUME PictureInv, Order, ControlTypes', Capture
    PROVE  /\ Order'
           /\ \/ UNCHANGED <<queue, pictures>>
              \/ /\ queue = <<>> /\ queue' # <<>> /\ Head(queue').session = worker
                 /\ pictures' = [pictures EXCEPT ![worker] = Append(@, screen)]
           /\ queue' # queue \/ encoder'.key = (encoder.key \/ force)
<1> DEFINE e == [encoder EXCEPT !.key = encoder.key \/ force]
           f == Frame(worker, e.id + 1, e.key, Patches(e))
           given == fresh /\ DOMAIN f.patches # {}
<1>1. UNCHANGED <<streams, viewing, last>>
  BY DEF Capture, viewer
<1>2. /\ queue' = IF given /\ queue = <<>> THEN <<f>> ELSE queue
      /\ IF given /\ queue = <<>>
         THEN /\ encoder' = [e EXCEPT !.id = e.id + 1, !.previous = screen, !.key = FALSE]
              /\ pictures' = [pictures EXCEPT ![worker] = Append(@, screen)]
         ELSE encoder' = e /\ UNCHANGED pictures
  BY Zenon DEF Capture, Commits
<1>3. e.id = encoder.id /\ e.key = (encoder.key \/ force)
  BY DEF PictureInv, SourceInv, SharerTypes, Encoders
<1>4. f.session = worker /\ f.id = e.id + 1
  BY DEF Frame
<1> HIDE DEF f, e
<1>5. CASE given /\ queue = <<>>
  <2>1. queue' = <<f>> /\ pictures' = [pictures EXCEPT ![worker] = Append(@, screen)]
    BY <1>2, <1>5
  <2>2. worker \in Sessions /\ screen \in Pictures /\ pictures \in [Sessions -> Seq(Pictures)]
        /\ encoder.id = Len(pictures[worker])
    BY DEF Capture, PictureInv, SourceInv, SharerTypes, AtLast, Sessions
  <2> DEFINE n == Len(pictures[worker])
  <2>3. /\ Len(pictures'[worker]) = n + 1 /\ n \in Nat
        /\ \A s \in Sessions \ {worker} : pictures'[s] = pictures[s]
    <3>1. /\ pictures'[worker] = Append(pictures[worker], screen)
          /\ \A s \in Sessions \ {worker} : pictures'[s] = pictures[s]
      BY <2>1, <2>2
    <3> QED
      BY <2>2, <3>1, MorePictures
  <2>4. \A x \in streams : x.frame.session = worker => x.frame.id \in Nat /\ x.frame.id <= n
    BY FramesInRange DEF InRange
  <2>5. queue' # <<>> /\ Head(queue') = f
    BY <2>1
  <2>6. f.id = n + 1
    BY <1>3, <1>4, <2>2
  <2>7. last \in Nat /\ (viewing # 0 => last <= Len(pictures[viewing]) /\ viewing \in Sessions)
    BY DEF Order, SeenIsRead, ControlTypes, Sessions
  <2> HIDE DEF n
  <2>8. QueueIsLast'
    BY <1>1, <1>4, <2>3, <2>4, <2>5, <2>6 DEF QueueIsLast
  <2>9. SeenIsRead'
    <3> SUFFICES ASSUME viewing # 0 PROVE SeenIsRead'
      BY <1>1 DEF SeenIsRead
    <3>1. last <= Len(pictures'[viewing])
      <4>1. CASE viewing = worker
        BY <2>3, <2>7, <4>1 DEF n
      <4>2. CASE viewing # worker
        BY <2>3, <2>7, <4>2
      <4> QED
        BY <4>1, <4>2
    <3>2. f.session = viewing => last < f.id
      <4>1. f.session = viewing => last <= n
        BY <1>4, <2>7 DEF n
      <4> QED
        BY <2>3, <2>6, <2>7, <4>1
    <3>3. \A x \in streams : x.frame.session = viewing /\ x.read = "nothing"
                                => x.frame.id # last
      BY DEF Order, SeenIsRead
    <3> QED
      BY <1>1, <2>5, <3>1, <3>2, <3>3 DEF SeenIsRead
  <2>10. OneStreamEach'
    BY <1>1 DEF Order, OneStreamEach
  <2> QED
    BY <1>4, <1>5, <2>1, <2>5, <2>8, <2>9, <2>10 DEF Order
<1>6. CASE ~(given /\ queue = <<>>)
  <2>1. encoder' = e /\ UNCHANGED <<queue, pictures>>
    BY <1>2, <1>6
  <2> QED
    BY <1>1, <1>3, <2>1, OrderUntouched
<1> QED
  BY <1>5, <1>6

\* The streams take the frames one by one, and the viewer's end sees none twice.
LEMMA OrderSteps ==
    ASSUME PictureInv, Order, Next
    PROVE  Order'
<1>1. ControlTypes'
  BY ControlSteps DEF Order
<1>2. QueueIsLast /\ OneStreamEach /\ SeenIsRead
  BY DEF Order
<1>3. CASE \/ HandleAnswer \/ StartCapture \/ StopSharing \/ StopWorker \/ CaptureFails
           \/ ForceKeyframe \/ Window \/ (\E t \in Tiles : Change(t))
           \/ \E s \in Sessions : HandleRequest(s)
  <2>1. UNCHANGED <<queue, streams, pictures, viewing, last>>
    BY <1>3 DEF HandleAnswer, StartCapture, StopSharing, StopWorker, CaptureFails, ForceKeyframe,
           Window, HandleFrameAvailable, HandleViewing, HandleIdle, Change, HandleRequest,
           source, link, viewer
  <2> QED
    BY <1>1, <2>1, OrderUntouched
<1>4. CASE Accept \/ StopViewing
  <2>1. UNCHANGED <<queue, streams, pictures>>
    BY <1>4 DEF Accept, StopViewing, source, link
  <2>2. last' = 0
    BY <1>4 DEF Accept, StopViewing
  <2>3. (\A x \in streams : 1 <= x.frame.id /\ x.frame.id \in Nat)
        /\ (queue # <<>> => 1 <= Head(queue).id /\ Head(queue).id \in Nat)
    BY FramesInRange DEF InRange
  <2>4. viewing' # 0 => Len(pictures[viewing']) \in Nat
    <3>1. viewing' \in 0 .. MaxSessions
      BY <1>1 DEF ControlTypes
    <3> QED
      BY <3>1, FramesInRange DEF Sessions
  <2>5. SeenIsRead'
    BY <2>1, <2>2, <2>3, <2>4 DEF SeenIsRead
  <2> QED
    BY <1>1, <1>2, <2>1, <2>5 DEF Order, QueueIsLast, OneStreamEach
<1>5. CASE TakeFrame
  <2>1. queue # <<>> /\ queue' = <<>> /\ UNCHANGED <<pictures, viewing, last>>
        /\ (streams' = streams \/ streams' = streams \cup {Stream(Head(queue))})
    BY <1>5 DEF TakeFrame, source, viewer
  <2>2. Stream(Head(queue)).frame = Head(queue)
    BY DEF Stream
  <2>3. OneStreamEach'
    <3> SUFFICES ASSUME NEW x \in streams', NEW y \in streams',
                        x.frame.session = y.frame.session, x.frame.id = y.frame.id
                 PROVE  x = y
      BY DEF OneStreamEach
    <3>1. \A z \in streams : ~(z.frame.session = Head(queue).session
                                 /\ z.frame.id = Head(queue).id)
      <4>1. InRange(Head(queue)) /\ \A z \in streams : InRange(z.frame)
        BY <2>1, FramesInRange
      <4> QED
        BY <1>2, <2>1, <4>1 DEF QueueIsLast, InRange
    <3> QED
      BY <1>2, <2>1, <2>2, <3>1 DEF OneStreamEach
  <2>4. SeenIsRead'
    <3>1. last \in Nat /\ (queue # <<>> => Head(queue).id \in Nat)
      BY FramesInRange DEF InRange, Order, ControlTypes
    <3>2. viewing # 0 /\ Head(queue).session = viewing => Head(queue).id # last
      BY <1>2, <2>1, <3>1 DEF SeenIsRead
    <3> QED
      BY <1>2, <2>1, <2>2, <3>2 DEF SeenIsRead
  <2> QED
    BY <1>1, <2>1, <2>3, <2>4 DEF Order, QueueIsLast
<1>6. ASSUME NEW x \in streams, Written(x) \/ ReadHeader(x) \/ ReadPayload(x) PROVE Order'
  <2>1. UNCHANGED <<queue, pictures, viewing>>
    BY <1>6 DEF Written, ReadHeader, ReadPayload, source, viewer
  <2>2. CASE Written(x)
    <3>1. Becomes(x, [frame |-> x.frame, open |-> FALSE, read |-> x.read]) /\ last' = last
      BY <2>2, StreamFields DEF Written, viewer
    <3> QED
      BY <1>1, <2>1, <3>1, StreamGoesOn
  <2>3. CASE ReadPayload(x)
    <3>1. Becomes(x, [frame |-> x.frame, open |-> x.open, read |-> "all"]) /\ last' = last
          /\ x.read = "header"
      <4>1. Becomes(x, [x EXCEPT !.read = "all"]) /\ last' = last /\ x.read = "header"
        BY <2>3 DEF ReadPayload
      <4> QED
        BY <4>1, StreamFields
    <3> QED
      BY <1>1, <2>1, <3>1, StreamGoesOn
  <2>4. CASE ReadHeader(x)
    <3>1. \/ last' = x.frame.id /\ x.frame.session = viewing
             /\ Becomes(x, [x EXCEPT !.read = "header"])
          \/ last' = last /\ Becomes(x, [x EXCEPT !.read = "all"])
      BY <2>4 DEF ReadHeader, Expected
    <3>2. \/ last' = x.frame.id /\ x.frame.session = viewing
             /\ Becomes(x, [frame |-> x.frame, open |-> x.open, read |-> "header"])
          \/ last' = last /\ Becomes(x, [frame |-> x.frame, open |-> x.open, read |-> "all"])
      BY <3>1, StreamFields
    <3> QED
      BY <1>1, <2>1, <3>2, StreamGoesOn
  <2> QED
    BY <1>6, <2>2, <2>3, <2>4
<1>7. ASSUME NEW x \in streams, WriteFails(x) PROVE Order'
  <2>1. streams' = streams \ {x} /\ UNCHANGED <<queue, pictures, viewing, last>>
    BY <1>7 DEF WriteFails, viewer
  <2> QED
    BY <1>1, <1>2, <2>1 DEF Order, QueueIsLast, OneStreamEach, SeenIsRead
<1>8. CASE Capture
  BY <1>1, <1>8, CaptureOrder
<1> QED
  BY <1>3, <1>4, <1>5, <1>6, <1>7, <1>8 DEF Next, Sharer, Link

-----------------------------------------------------------------------------
(* What the window hears                                                   *)

Tells(i, s) == events[i] = Event("frame", s)

\* While no frame comes through late, the window hears of one session at a time:
\* of its beginning, then of its frames, then of its end.
InStep ==
    ~late => IF viewing = 0
             THEN IF events = <<>> THEN decoder = NoDecoder
                  ELSE events[Len(events)] = Event("idle", 0)
             ELSE \/ /\ window = viewing /\ decoder.session = viewing
                     /\ \A i \in 1 .. Len(events) : Tells(i, viewing)
                  \/ /\ window = 0 /\ decoder = NoDecoder
                     /\ events # <<>> /\ events[1] = Event("viewing", viewing)
                     /\ \A i \in 2 .. Len(events) : Tells(i, viewing)

\* An event more, and an event less.
LEMMA EventsEnds ==
    ASSUME NEW es \in Seq(Events)
    PROVE  /\ Len(es) \in Nat /\ (es = <<>> <=> Len(es) = 0)
           /\ \A e \in Events : /\ Append(es, e) # <<>> /\ Len(Append(es, e)) = Len(es) + 1
                                /\ Append(es, e)[Len(es) + 1] = e
                                /\ \A i \in 1 .. Len(es) : Append(es, e)[i] = es[i]
           /\ es # <<>> => /\ Head(es) = es[1] /\ Len(Tail(es)) = Len(es) - 1
                           /\ \A i \in 1 .. Len(es) - 1 : Tail(es)[i] = es[i + 1]
                           /\ Tail(es) = <<>> <=> Len(es) = 1
  OBVIOUS

\* The kinds of events differ.
LEMMA EventKinds ==
    \A s, u, v : /\ Event("frame", s) # Event("viewing", u)
                 /\ Event("frame", s) # Event("idle", v)
                 /\ Event("viewing", u) # Event("idle", v)
                 /\ Event("frame", s) = Event("frame", u) => s = u
                 /\ Event("frame", s).type = "frame" /\ Event("frame", s).session = s
                 /\ Event("viewing", s).type = "viewing" /\ Event("viewing", s).session = s
                 /\ Event("idle", v).type = "idle"
  BY DEF Event

\* A decoder of a session stays of that session.
LEMMA DecoderStays ==
    ASSUME NEW d \in Decoders, NEW f
    PROVE  /\ Applied(d, f).session = d.session
           /\ d.session # 0 => d # NoDecoder
           /\ \A s : Decoder(s).session = s /\ ~Decoder(s).ready /\ Decoder(s).last = 0
  BY DEF Applied, Decoders, NoDecoder, Decoder

\* The window stays in step.
LEMMA InStepKept ==
    ASSUME PictureInv, Order, InStep, PictureInv', Order', Next
    PROVE  InStep'
<1>1. events \in Seq(Events) /\ events' \in Seq(Events) /\ decoder \in Decoders
      /\ decoder' \in Decoders
  BY DEF PictureInv, ViewerTypes
<1>2. viewing \in 0 .. MaxSessions /\ viewing' \in 0 .. MaxSessions /\ begun \in Nat
  BY DEF Order, ControlTypes, PictureInv, SourceInv, SharerTypes
<1>3. ASSUME UNCHANGED <<late, viewing, events, decoder, window>> PROVE InStep'
  BY <1>3 DEF InStep, Tells
<1>4. CASE \/ Sharer \/ TakeFrame
           \/ (\E x \in streams : Written(x) \/ WriteFails(x) \/ ReadHeader(x))
           \/ (\E t \in Tiles : Change(t)) \/ (\E s \in Sessions : HandleRequest(s))
  <2>1. UNCHANGED <<late, viewing, events, decoder, window>>
    BY <1>4 DEF Sharer, HandleAnswer, StartCapture, StopSharing, StopWorker, Capture,
           CaptureFails, ForceKeyframe, TakeFrame, Written, WriteFails, ReadHeader, Change,
           HandleRequest, viewer
  <2> QED
    BY <1>3, <2>1
<1>5. CASE Accept
  <2>1. /\ viewing = 0 /\ window = 0 /\ \A i \in 1 .. Len(events) : events[i].type = "frame"
        /\ viewing' = begun + 1 /\ events' = Append(events, Event("viewing", begun + 1))
        /\ begun < MaxSessions
        /\ UNCHANGED <<window, decoder, late>>
    BY <1>5 DEF Accept
  <2>2. ASSUME ~late PROVE events = <<>> /\ decoder = NoDecoder
    <3>1. CASE events # <<>>
      <4>1. events[Len(events)] = Event("idle", 0) /\ Len(events) \in 1 .. Len(events)
        BY <1>1, <2>1, <2>2, <3>1, EventsEnds DEF InStep
      <4>2. events[Len(events)].type = "frame" /\ events[Len(events)].type = "idle"
        BY <2>1, <4>1, EventKinds
      <4> QED
        BY <4>2
    <3> QED
      BY <2>1, <2>2, <3>1 DEF InStep
  <2>3. Event("viewing", begun + 1) \in Events /\ begun + 1 # 0
    BY <1>2, <2>1, FirstStates, BoundsAssumption DEF Sessions
  <2>4. ASSUME ~late PROVE events'[1] = Event("viewing", viewing') /\ Len(events') = 1
    BY <1>1, <2>1, <2>2, <2>3, <2>4, EventsEnds
  <2> QED
    BY <1>1, <2>1, <2>2, <2>3, <2>4, EventsEnds DEF InStep
<1>6. CASE StopViewing
  <2>1. viewing' = 0 /\ events' = Append(events, Event("idle", 0))
    BY <1>6 DEF StopViewing
  <2>2. events' # <<>> /\ events'[Len(events')] = Event("idle", 0)
    BY <1>1, <2>1, FirstStates, EventsEnds
  <2> QED
    BY <2>1, <2>2 DEF InStep
<1>7. ASSUME NEW x \in streams, ReadPayload(x) PROVE InStep'
  <2> DEFINE s == x.frame.session
  <2>1. /\ events' = events \/ events' = Append(events, Event("frame", s))
        /\ late' = (late \/ s # viewing)
        /\ UNCHANGED <<viewing, window, decoder>>
    BY <1>7 DEF ReadPayload
  <2>2. s \in Sessions
    BY FramesInRange DEF InRange
  <2>3. Event("frame", s) \in Events
    BY <2>2, FirstStates
  <2> HIDE DEF s
  <2> SUFFICES ASSUME ~late, s = viewing, events' = Append(events, Event("frame", s))
               PROVE  InStep'
    <3>1. late \in BOOLEAN
      BY DEF Order, ControlTypes
    <3>2. ASSUME late' PROVE InStep'
      BY <3>2 DEF InStep
    <3>3. ASSUME ~late' PROVE ~late /\ s = viewing
      BY <2>1, <3>1, <3>3
    <3>4. ASSUME ~late', events' = events PROVE InStep'
      <4>1. late' = late
        BY <2>1, <3>1, <3>3, <3>4
      <4> QED
        BY <1>3, <2>1, <3>4, <4>1
    <3> QED
      BY <2>1, <3>2, <3>3, <3>4
  <2>4. viewing # 0
    BY <2>2 DEF Sessions
  <2>5. /\ events' # <<>> /\ Len(events') = Len(events) + 1 /\ Len(events) \in Nat
        /\ events'[Len(events) + 1] = Event("frame", viewing)
        /\ \A i \in 1 .. Len(events) : events'[i] = events[i]
        /\ events # <<>> => Len(events) >= 1
    BY <1>1, <2>1, <2>3, EventsEnds
  <2>6. ASSUME NEW i \in 1 .. Len(events'), i \in 1 .. Len(events) => Tells(i, viewing)
        PROVE  Tells(i, viewing)'
    BY <2>1, <2>5, <2>6 DEF Tells
  <2>7. CASE /\ window = viewing /\ decoder.session = viewing
             /\ \A i \in 1 .. Len(events) : Tells(i, viewing)
    BY <2>1, <2>4, <2>6, <2>7 DEF InStep
  <2>8. CASE /\ window = 0 /\ decoder = NoDecoder
             /\ events # <<>> /\ events[1] = Event("viewing", viewing)
             /\ \A i \in 2 .. Len(events) : Tells(i, viewing)
    <3>1. \A i \in 2 .. Len(events') : Tells(i, viewing)'
      BY <2>5, <2>6, <2>8
    <3>2. events'[1] = Event("viewing", viewing)
      BY <2>5, <2>8
    <3> QED
      BY <2>1, <2>4, <2>5, <2>8, <3>1, <3>2 DEF InStep
  <2> QED
    BY <2>4, <2>7, <2>8 DEF InStep
<1>8. CASE Window
  <2>1. PICK k \in {"frame", "viewing", "idle"} :
           /\ NextEvent(k)
           /\ k = "frame" => HandleFrameAvailable
           /\ k = "viewing" => HandleViewing
           /\ k = "idle" => HandleIdle
    BY <1>8 DEF Window, HandleFrameAvailable, HandleViewing, HandleIdle, NextEvent
  <2>2. UNCHANGED <<late, viewing>>
    BY <1>8 DEF Window, HandleFrameAvailable, HandleViewing, HandleIdle
  <2>3. /\ events # <<>> /\ events[1].type = k /\ events' = Tail(events)
        /\ Len(events') = Len(events) - 1 /\ Len(events) \in Nat /\ Len(events) >= 1
        /\ \A i \in 1 .. Len(events') : events'[i] = events[i + 1]
        /\ events' = <<>> <=> Len(events) = 1
    BY <1>1, <2>1, EventsEnds DEF NextEvent
  <2> SUFFICES ASSUME ~late PROVE InStep'
    BY <2>2 DEF InStep
  <2>4. CASE viewing = 0
    <3>1. events[Len(events)] = Event("idle", 0)
      BY <2>3, <2>4 DEF InStep
    <3>2. CASE Len(events) = 1
      <4>1. k = "idle"
        BY <2>3, <3>1, <3>2, EventKinds
      <4> QED
        BY <2>1, <2>2, <2>3, <2>4, <3>2, <4>1 DEF InStep, HandleIdle
    <3>3. CASE Len(events) # 1
      <4>1. events' # <<>> /\ events'[Len(events')] = events[Len(events)]
        <5>1. Len(events') \in 1 .. Len(events') /\ Len(events') + 1 = Len(events)
          BY <2>3, <3>3
        <5> QED
          BY <2>3, <3>3, <5>1
      <4> QED
        BY <2>2, <2>4, <3>1, <4>1 DEF InStep
    <3> QED
      BY <3>2, <3>3
  <2>5. CASE /\ viewing # 0 /\ window = viewing /\ decoder.session = viewing
             /\ \A i \in 1 .. Len(events) : Tells(i, viewing)
    <3>1. k = "frame"
      <4>1. Tells(1, viewing)
        BY <2>3, <2>5
      <4> QED
        BY <2>3, <4>1, EventKinds DEF Tells
    <3>2. UNCHANGED window
      BY <2>1, <3>1 DEF HandleFrameAvailable
    <3>3. decoder'.session = viewing
      <4>1. decoder # NoDecoder
        BY <1>1, <2>5, DecoderStays
      <4>2. decoder' = decoder \/ decoder' = Applied(decoder, slot)
        BY <2>1, <3>1, <4>1 DEF HandleFrameAvailable, ConsumeFrame
      <4> QED
        BY <1>1, <2>5, <4>2, DecoderStays
    <3>4. \A i \in 1 .. Len(events') : Tells(i, viewing)'
      BY <2>2, <2>3, <2>5 DEF Tells
    <3> QED
      BY <2>2, <2>5, <3>2, <3>3, <3>4 DEF InStep
  <2>6. CASE /\ viewing # 0 /\ window = 0 /\ decoder = NoDecoder
             /\ events # <<>> /\ events[1] = Event("viewing", viewing)
             /\ \A i \in 2 .. Len(events) : Tells(i, viewing)
    <3>1. HandleViewing /\ Head(events).session = viewing
      BY <1>1, <2>1, <2>3, <2>6, EventKinds, EventsEnds
    <3>2. window' = viewing /\ decoder' = Decoder(viewing)
      BY <2>6, <3>1 DEF HandleViewing
    <3>3. decoder'.session = viewing
      BY <1>1, <3>2, DecoderStays
    <3>4. \A i \in 1 .. Len(events') : Tells(i, viewing)'
      <4> SUFFICES ASSUME NEW i \in 1 .. Len(events') PROVE Tells(i, viewing)'
        OBVIOUS
      <4>1. i + 1 \in 2 .. Len(events)
        BY <2>3
      <4>2. Tells(i + 1, viewing)
        BY <2>6, <4>1
      <4> QED
        BY <2>2, <2>3, <4>2 DEF Tells
    <3> QED
      BY <2>2, <2>6, <3>2, <3>3, <3>4 DEF InStep
  <2> QED
    BY <2>4, <2>5, <2>6 DEF InStep
<1> QED
  BY <1>4, <1>5, <1>6, <1>7, <1>8 DEF Next, Link

-----------------------------------------------------------------------------
(* The last frame                                                          *)

\* The last frame of session s is on its way: in the channel, on a stream, or in
\* the slot, with the window's event to come or dropped.
IsLast(f, s) == f.session = s /\ f.id = Len(pictures[s])
OnItsWay(s) == \/ queue # <<>> /\ Head(queue).session = s
               \/ \E x \in streams : IsLast(x.frame, s) /\ x.read # "all"
               \/ IsLast(slot, s) /\ (missed \/ \E i \in 1 .. Len(events) : Tells(i, s))

\* A frame that will not be shown is made good for: the sharer owes a keyframe,
\* or will be told to.
MadeGood(s) == Owes \/ told \/ s \in asked

\* Of a session with pictures the last frame is on its way, shown or made good.
Kept == ~late => \A s \in Sessions : InSession(s) /\ pictures[s] # <<>>
                                        => OnItsWay(s) \/ Shows(s) \/ MadeGood(s)

\* The inductive invariant.
LossInv == PictureInv /\ Order /\ InStep /\ Kept

\* The last frame stays on its way when nothing on the way changes.
LEMMA WayUntouched ==
    ASSUME NEW s \in Sessions, UNCHANGED <<queue, streams, slot, events, missed, pictures>>
    PROVE  OnItsWay(s) => OnItsWay(s)'
  BY DEF OnItsWay, IsLast, Tells

\* No session is shared and viewed after these steps, or the sharer owes a keyframe.
LEMMA SessionSteps ==
    ASSUME LossInv,
           \/ Accept \/ HandleAnswer \/ StopSharing \/ StopWorker \/ StopViewing
           \/ StartCapture \/ CaptureFails
    PROVE  Kept'
<1>1. {begun, shared, worker} \subseteq Nat /\ worker <= shared
  BY DEF LossInv, PictureInv, SourceInv, SharerTypes, NotYet
<1>2. ASSUME NEW s \in Sessions PROVE s # 0
  BY DEF Sessions
<1>3. CASE Accept
  BY <1>2, <1>3 DEF Accept, source, Kept, InSession
<1>4. CASE HandleAnswer
  BY <1>1, <1>2, <1>4 DEF HandleAnswer, Kept, InSession
<1>5. CASE StopSharing
  BY <1>2, <1>5 DEF StopSharing, Kept, InSession
<1>6. CASE StopWorker
  BY <1>2, <1>6 DEF StopWorker, NoThread, Kept, InSession
<1>7. CASE StopViewing
  BY <1>2, <1>7 DEF StopViewing, Kept, InSession
<1>8. ASSUME encoder'.key PROVE Kept'
  BY <1>8 DEF Kept, MadeGood, Owes
<1>9. CASE StartCapture
  BY <1>8, <1>9, FirstStates DEF StartCapture
<1>10. CASE CaptureFails
  <2>1. CASE NoThread
    BY <1>2, <2>1 DEF NoThread, Kept, InSession
  <2>2. CASE encoder' = [encoder EXCEPT !.key = TRUE]
    <3>1. encoder \in Encoders
      BY DEF LossInv, PictureInv, SourceInv, SharerTypes
    <3>2. encoder'.key
      BY <2>2, <3>1 DEF Encoders
    <3> QED
      BY <1>8, <3>2
  <2> QED
    BY <1>10, <2>1, <2>2 DEF CaptureFails
<1> QED
  BY <1>3, <1>4, <1>5, <1>6, <1>7, <1>9, <1>10

\* A request is passed on until the sharer owes the keyframe.
LEMMA RequestSteps ==
    ASSUME LossInv,
           ForceKeyframe \/ (\E u \in Sessions : HandleRequest(u)) \/ (\E t \in Tiles : Change(t))
    PROVE  Kept'
<1> SUFFICES ASSUME ~late', NEW s \in Sessions, InSession(s)', (pictures[s] # <<>>)'
             PROVE  (OnItsWay(s) \/ Shows(s) \/ MadeGood(s))'
  BY DEF Kept
<1>1. UNCHANGED <<queue, streams, slot, events, missed, pictures, decoder, sharing, worker,
                  viewing, late, encoder>>
  BY DEF ForceKeyframe, HandleRequest, Change, link, viewer
<1>2. OnItsWay(s) \/ Shows(s) \/ MadeGood(s)
  BY <1>1 DEF LossInv, Kept, InSession
<1>3. OnItsWay(s) => OnItsWay(s)'
  BY <1>1, WayUntouched
<1>4. Shows(s) => Shows(s)'
  BY <1>1 DEF Shows
<1>5. sharing = s /\ worker = s /\ s # 0
  BY <1>1 DEF InSession, Sessions
<1>6. MadeGood(s) => MadeGood(s)'
  <2>1. CASE ForceKeyframe
    <3>1. (force' <=> (force \/ worker # 0)) /\ UNCHANGED asked
      BY <2>1 DEF ForceKeyframe, viewer
    <3> QED
      BY <1>5, <3>1 DEF MadeGood, Owes
  <2>2. CASE \E u \in Sessions : HandleRequest(u)
    <3>1. PICK u \in Sessions : HandleRequest(u)
      BY <2>2
    <3>2. (told' <=> (told \/ sharing = u)) /\ asked' = asked \ {u} /\ UNCHANGED force
      BY <3>1 DEF HandleRequest
    <3> QED
      BY <1>1, <1>5, <3>2 DEF MadeGood, Owes
  <2>3. CASE \E t \in Tiles : Change(t)
    BY <1>1, <2>3 DEF Change, viewer, MadeGood, Owes
  <2> QED
    BY <2>1, <2>2, <2>3
<1> QED
  BY <1>2, <1>3, <1>4, <1>6

\* A picture that is not given leaves a keyframe owed; one that is, is the last.
LEMMA CaptureLoss ==
    ASSUME LossInv, Capture
    PROVE  Kept'
<1>1. Order /\ PictureInv /\ Order'
  BY OrderSteps DEF LossInv, Next, Sharer
<1>2. /\ \/ UNCHANGED <<queue, pictures>>
         \/ queue = <<>> /\ queue' # <<>> /\ Head(queue').session = worker
      /\ queue' # queue \/ encoder'.key = (encoder.key \/ force)
  BY <1>1, CaptureOrder DEF Order
<1>3. UNCHANGED <<sharing, worker, viewing, late, streams, slot, events, missed, decoder, told,
                  asked>>
  BY DEF Capture, viewer
<1> SUFFICES ASSUME ~late', NEW s \in Sessions, InSession(s)', (pictures[s] # <<>>)'
             PROVE  (OnItsWay(s) \/ Shows(s) \/ MadeGood(s))'
  BY DEF Kept
<1>4. CASE queue = <<>> /\ queue' # <<>> /\ Head(queue').session = worker
  BY <1>3, <1>4 DEF OnItsWay, InSession
<1>5. CASE UNCHANGED <<queue, pictures>>
  <2>1. OnItsWay(s) \/ Shows(s) \/ MadeGood(s)
    BY <1>3, <1>5 DEF LossInv, Kept, InSession
  <2>2. OnItsWay(s) => OnItsWay(s)'
    BY <1>3, <1>5, WayUntouched
  <2>3. Shows(s) => Shows(s)'
    BY <1>3, <1>5 DEF Shows
  <2>4. MadeGood(s) => MadeGood(s)'
    BY <1>2, <1>3, <1>5 DEF MadeGood, Owes
  <2> QED
    BY <2>1, <2>2, <2>3, <2>4
<1> QED
  BY <1>2, <1>4, <1>5

\* The link takes the last frame on, tells the sharer that it failed, or gives it
\* to the window.
LEMMA LinkLoss ==
    ASSUME LossInv, Link
    PROVE  Kept'
<1>1. PictureInv /\ QueueIsLast /\ SeenIsRead /\ ControlTypes
  BY DEF LossInv, Order
<1>2. UNCHANGED <<pictures, sharing, worker, viewing, decoder, asked, force, encoder>>
      /\ (late => late') /\ (told => told')
  <2>1. UNCHANGED <<pictures, sharing, worker, viewing, decoder, asked, force, encoder>>
    BY DEF Link, TakeFrame, Written, WriteFails, ReadHeader, ReadPayload, source, viewer
  <2>2. late' = late \/ \E x \in streams : late' = (late \/ x.frame.session # viewing)
    BY DEF Link, TakeFrame, Written, WriteFails, ReadHeader, ReadPayload, source, viewer
  <2>3. told' = told \/ told' = TRUE
    BY DEF Link, TakeFrame, Written, WriteFails, ReadHeader, ReadPayload, source, viewer
  <2>4. late => late'
    BY <2>2, Zenon
  <2>5. told => told'
    BY <2>3, Zenon
  <2> QED
    BY <2>1, <2>4, <2>5
<1> SUFFICES ASSUME ~late', NEW s \in Sessions, InSession(s)', (pictures[s] # <<>>)'
             PROVE  (OnItsWay(s) \/ Shows(s) \/ MadeGood(s))'
  BY DEF Kept
<1>3. OnItsWay(s) \/ Shows(s) \/ MadeGood(s)
  BY <1>2 DEF LossInv, Kept, InSession
<1>4. (Shows(s) => Shows(s)') /\ (MadeGood(s) => MadeGood(s)')
  BY <1>2 DEF Shows, MadeGood, Owes
<1>5. viewing = s /\ sharing = s /\ s # 0
  BY <1>2 DEF InSession, Sessions
<1> DEFINE n == Len(pictures[s])
<1>6. n \in Nat
  BY <1>1, FramesInRange
<1>7. CASE TakeFrame
  <2>1. queue # <<>> /\ UNCHANGED <<slot, events, missed>>
        /\ (Head(queue).session = s => streams' = streams \cup {Stream(Head(queue))})
        /\ streams \subseteq streams'
    BY <1>5, <1>7 DEF TakeFrame, viewer
  <2>2. ASSUME Head(queue).session = s PROVE OnItsWay(s)'
    <3>1. Stream(Head(queue)) \in streams' /\ Stream(Head(queue)).frame = Head(queue)
          /\ Stream(Head(queue)).read = "nothing"
      BY <2>1, <2>2 DEF Stream
    <3>2. Head(queue).session = s /\ Head(queue).id = Len(pictures'[s])
      BY <1>1, <1>2, <2>1, <2>2 DEF QueueIsLast
    <3> QED
      BY <3>1, <3>2 DEF OnItsWay, IsLast
  <2>3. OnItsWay(s) => OnItsWay(s)'
    BY <1>2, <2>1, <2>2 DEF OnItsWay, IsLast, Tells
  <2> QED
    BY <1>3, <1>4, <2>3
<1>8. ASSUME NEW x \in streams, WriteFails(x) PROVE MadeGood(s)'
  BY <1>8 DEF WriteFails, MadeGood
<1>9. ASSUME NEW x \in streams, NEW y, Becomes(x, y), y.frame = x.frame,
             x.read # "all" /\ IsLast(x.frame, s) => y.read # "all",
             UNCHANGED <<queue, slot, events, missed>>
      PROVE  OnItsWay(s) => OnItsWay(s)'
  <2>1. streams \ {x} \subseteq streams' /\ (y.read # "all" => y \in streams')
    BY <1>9 DEF Becomes
  <2>2. IsLast(x.frame, s) /\ y.read # "all" => OnItsWay(s)'
    BY <1>2, <1>9, <2>1 DEF OnItsWay, IsLast
  <2>3. \A z \in streams \ {x} : IsLast(z.frame, s) /\ z.read # "all" => OnItsWay(s)'
    BY <1>2, <2>1 DEF OnItsWay, IsLast
  <2>4. queue # <<>> /\ Head(queue).session = s => OnItsWay(s)'
    BY <1>9 DEF OnItsWay
  <2>5. IsLast(slot, s) /\ (missed \/ \E i \in 1 .. Len(events) : Tells(i, s))
           => OnItsWay(s)'
    BY <1>2, <1>9 DEF OnItsWay, IsLast, Tells
  <2> QED
    BY <1>9, <2>2, <2>3, <2>4, <2>5 DEF OnItsWay
<1>10. ASSUME NEW x \in streams, Written(x) PROVE OnItsWay(s) => OnItsWay(s)'
  <2>1. Becomes(x, [frame |-> x.frame, open |-> FALSE, read |-> x.read])
        /\ UNCHANGED <<queue, slot, events, missed>>
    BY <1>1, <1>10, StreamFields DEF Written, viewer
  <2> QED
    BY <1>9, <2>1
<1>11. ASSUME NEW x \in streams, ReadHeader(x) PROVE OnItsWay(s) => OnItsWay(s)'
  <2>1. x.read = "nothing" /\ UNCHANGED <<queue, slot, events, missed>>
    BY <1>11 DEF ReadHeader
  <2>2. CASE Expected(x.frame)
    <3>1. Becomes(x, [x EXCEPT !.read = "header"])
      BY <1>11, <2>2 DEF ReadHeader
    <3>2. Becomes(x, [frame |-> x.frame, open |-> x.open, read |-> "header"])
      BY <1>1, <3>1, StreamFields
    <3> QED
      BY <1>9, <2>1, <3>2
  <2>3. CASE ~Expected(x.frame)
    <3>1. Becomes(x, [x EXCEPT !.read = "all"])
      BY <1>11, <2>3 DEF ReadHeader
    <3>2. Becomes(x, [frame |-> x.frame, open |-> x.open, read |-> "all"])
      BY <1>1, <3>1, StreamFields
    <3>3. ~IsLast(x.frame, s)
      <4> SUFFICES ASSUME IsLast(x.frame, s) PROVE FALSE
        OBVIOUS
      <4>1. x.frame.session = viewing /\ x.frame.id = n
        BY <1>5 DEF IsLast
      <4>2. last \in Nat /\ last <= n /\ n # last
        BY <1>1, <1>5, <2>1, <4>1 DEF SeenIsRead, ControlTypes
      <4> HIDE DEF n
      <4> QED
        BY <1>6, <2>3, <4>1, <4>2 DEF Expected
    <3> QED
      BY <1>9, <2>1, <3>2, <3>3
  <2> QED
    BY <2>2, <2>3
<1>12. ASSUME NEW x \in streams, ReadPayload(x) PROVE OnItsWay(s) => OnItsWay(s)'
  <2>1. /\ Becomes(x, [x EXCEPT !.read = "all"]) /\ UNCHANGED queue
        /\ slot' = IF Replaces(x.frame) THEN x.frame ELSE slot
        /\ missed' \/ events' = Append(events, Event("frame", x.frame.session))
        /\ x.frame.session = s
    BY <1>5, <1>12 DEF ReadPayload
  <2>2. streams \ {x} \subseteq streams'
    BY <2>1 DEF Becomes
  <2>3. missed' \/ \E i \in 1 .. Len(events') : events'[i] = Event("frame", s)
    <3> SUFFICES ASSUME ~missed' PROVE \E i \in 1 .. Len(events') : events'[i] = Event("frame", s)
      OBVIOUS
    <3>1. events \in Seq(Events) /\ Event("frame", s) \in Events
      BY <1>1, FirstStates DEF PictureInv, ViewerTypes
    <3>2. /\ Len(events) \in Nat /\ Len(events') = Len(events) + 1
          /\ events'[Len(events) + 1] = Event("frame", s)
      BY <2>1, <3>1, EventsEnds
    <3> QED
      BY <3>2
  <2>4. missed' \/ \E i \in 1 .. Len(events') : Tells(i, s)'
    BY <2>3 DEF Tells
  <2>5. x.frame.id \in Nat /\ x.frame.id <= n
    BY <1>1, <2>1, FramesInRange DEF InRange
  <2>6. slot.session = s => slot.id \in Nat /\ slot.id <= n
    <3>1. slot = NoFrame \/ InRange(slot)
      BY <1>1, FramesInRange
    <3>2. NoFrame.session = 0
      BY DEF NoFrame, Frame
    <3> QED
      BY <1>5, <3>1, <3>2 DEF InRange
  <2> HIDE DEF n
  <2>7. IsLast(x.frame, s) \/ IsLast(slot, s) => slot'.session = s /\ slot'.id = n
    <3>1. x.frame.id = n \/ (slot.session = s /\ slot.id = n) => slot'.session = s /\ slot'.id = n
      BY <1>6, <2>1, <2>5, <2>6 DEF Replaces
    <3> QED
      BY <3>1 DEF IsLast, n
  <2>8. IsLast(x.frame, s) \/ IsLast(slot, s) => OnItsWay(s)'
    BY <1>2, <2>4, <2>7 DEF OnItsWay, IsLast, n
  <2>9. \A z \in streams \ {x} : IsLast(z.frame, s) /\ z.read # "all" => OnItsWay(s)'
    BY <1>2, <2>2 DEF OnItsWay, IsLast
  <2>10. queue # <<>> /\ Head(queue).session = s => OnItsWay(s)'
    BY <2>1 DEF OnItsWay
  <2> QED
    BY <2>8, <2>9, <2>10 DEF OnItsWay
<1> QED
  BY <1>3, <1>4, <1>7, <1>8, <1>10, <1>11, <1>12 DEF Link

\* The window shows the last frame or asks for a keyframe.
LEMMA WindowLoss ==
    ASSUME LossInv, Window
    PROVE  Kept'
<1>1. PictureInv /\ ControlTypes /\ InStep /\ events \in Seq(Events) /\ decoder \in Decoders
  BY DEF LossInv, Order, PictureInv, ViewerTypes
<1>2. UNCHANGED <<pictures, sharing, worker, viewing, late, force, encoder, told, queue, streams>>
  BY DEF Window, HandleFrameAvailable, HandleViewing, HandleIdle, source, link
<1> SUFFICES ASSUME ~late', NEW s \in Sessions, InSession(s)', (pictures[s] # <<>>)'
             PROVE  (OnItsWay(s) \/ Shows(s) \/ MadeGood(s))'
  BY DEF Kept
<1>3. OnItsWay(s) \/ Shows(s) \/ MadeGood(s)
  BY <1>2 DEF LossInv, Kept, InSession
<1>4. viewing = s /\ s # 0 /\ ~late
  BY <1>2 DEF InSession, Sessions
<1>5. \/ queue # <<>> /\ Head(queue).session = s
      \/ \E x \in streams : IsLast(x.frame, s) /\ x.read # "all"
      => OnItsWay(s)'
  BY <1>2 DEF OnItsWay, IsLast
<1>6. asked \subseteq asked'
  BY DEF Window, HandleFrameAvailable, ConsumeFrame, HandleViewing, HandleIdle
<1>7. MadeGood(s) => MadeGood(s)'
  BY <1>2, <1>6 DEF MadeGood, Owes
<1>8. PICK k \in {"frame", "viewing", "idle"} :
         /\ NextEvent(k)
         /\ k = "frame" => HandleFrameAvailable
         /\ k = "viewing" => HandleViewing
  BY DEF Window, HandleFrameAvailable, HandleViewing, HandleIdle, NextEvent
<1>9. /\ events # <<>> /\ Head(events) = events[1] /\ events[1].type = k /\ events' = Tail(events)
      /\ Len(events') = Len(events) - 1 /\ Len(events) \in Nat /\ Len(events) >= 1
      /\ \A i \in 1 .. Len(events') : events'[i] = events[i + 1]
  BY <1>1, <1>8, EventsEnds DEF NextEvent
<1>10. CASE /\ window = s /\ decoder.session = s /\ \A i \in 1 .. Len(events) : Tells(i, s)
  <2>1. Tells(1, s)
    BY <1>9, <1>10
  <2>2. HandleFrameAvailable /\ Head(events).session = s
    BY <1>8, <1>9, <2>1, EventKinds DEF Tells
  <2>3. decoder # NoDecoder
    BY <1>1, <1>4, <1>10, DecoderStays
  <2>4. IF slot = NoFrame THEN UNCHANGED <<slot, decoder, asked>>
        ELSE IF Accepts(decoder, slot) THEN decoder' = Applied(decoder, slot)
             ELSE decoder' = decoder /\ asked' = asked \cup {s}
    BY <2>2, <2>3 DEF HandleFrameAvailable, ConsumeFrame
  <2>5. ASSUME IsLast(slot, s) PROVE Shows(s)' \/ MadeGood(s)'
    <3>1. slot # NoFrame
      BY <1>4, <2>5 DEF IsLast, NoFrame, Frame
    <3>2. CASE Accepts(decoder, slot)
      <4>1. Applied(decoder, slot).session = s /\ Applied(decoder, slot).ready
            /\ Applied(decoder, slot).last = slot.id
        BY <1>1, <1>10 DEF Applied, Decoders
      <4> QED
        BY <1>2, <2>4, <2>5, <3>1, <3>2, <4>1 DEF Shows, IsLast
    <3> QED
      BY <2>4, <3>1, <3>2 DEF MadeGood
  <2>6. ASSUME Shows(s) PROVE Shows(s)'
    <3>1. slot # NoFrame => ~Accepts(decoder, slot)
      <4>1. slot # NoFrame => slot.session \in Sessions /\ slot.id \in Nat
                              /\ slot.id <= Len(pictures[slot.session])
        BY <1>1, FramesInRange DEF InRange
      <4>2. Len(pictures[s]) \in Nat
        BY <1>1, FramesInRange
      <4> QED
        BY <2>6, <4>1, <4>2 DEF Accepts, Shows
    <3> QED
      BY <1>2, <2>4, <2>6, <3>1 DEF Shows
  <2> QED
    BY <1>3, <1>5, <1>7, <2>5, <2>6 DEF OnItsWay
<1>11. CASE /\ window = 0 /\ decoder = NoDecoder
            /\ events # <<>> /\ events[1] = Event("viewing", s)
            /\ \A i \in 2 .. Len(events) : Tells(i, s)
  <2>1. HandleViewing
    BY <1>8, <1>9, <1>11, EventKinds
  <2>2. ~Shows(s)
    BY <1>11, FirstStates DEF Shows
  <2>3. ASSUME IsLast(slot, s), missed PROVE OnItsWay(s)'
    BY <1>2, <2>1, <2>3 DEF HandleViewing, OnItsWay, IsLast
  <2>4. ASSUME IsLast(slot, s), NEW i \in 1 .. Len(events), Tells(i, s) PROVE OnItsWay(s)'
    <3>1. i # 1
      BY <1>11, <2>4, EventKinds DEF Tells
    <3>2. i - 1 \in 1 .. Len(events') /\ events'[i - 1] = events[i]
      BY <1>9, <2>4, <3>1
    <3>3. Tells(i - 1, s)'
      BY <2>4, <3>2 DEF Tells
    <3>4. IsLast(slot, s)'
      BY <1>2, <2>1, <2>4 DEF HandleViewing, IsLast
    <3> QED
      BY <3>2, <3>3, <3>4 DEF OnItsWay
  <2> QED
    BY <1>3, <1>5, <1>7, <2>2, <2>3, <2>4 DEF OnItsWay
<1> QED
  BY <1>1, <1>4, <1>10, <1>11 DEF InStep

\* Every step keeps the last frame, or makes it good.
LEMMA KeptSteps ==
    ASSUME LossInv, Next
    PROVE  Kept'
  BY SessionSteps, RequestSteps, CaptureLoss, LinkLoss, WindowLoss DEF Next, Sharer

\* In every reachable state the last frame of a session that is shared and viewed
\* is on its way, shown or made good for, unless a frame came through late.
THEOREM LossInvariant == Spec => []LossInv
<1>1. Init => LossInv
  <2> SUFFICES ASSUME Init PROVE LossInv
    OBVIOUS
  <2>1. PictureInv
    BY PictureInit
  <2>2. ControlTypes
    BY FirstStates DEF Init, ControlTypes
  <2>3. Order
    BY <2>2 DEF Init, Order, QueueIsLast, OneStreamEach, SeenIsRead
  <2>4. InStep
    BY DEF Init, InStep
  <2>5. Kept
    BY DEF Init, Kept
  <2> QED
    BY <2>1, <2>3, <2>4, <2>5 DEF LossInv
<1>2. LossInv /\ [Next]_vars => LossInv'
  <2> SUFFICES ASSUME LossInv, [Next]_vars PROVE LossInv'
    OBVIOUS
  <2>1. PictureInv'
    BY PictureStep DEF LossInv
  <2>2. CASE Next
    <3>1. Order'
      BY <2>2, OrderSteps DEF LossInv
    <3>2. InStep'
      BY <2>1, <2>2, <3>1, InStepKept DEF LossInv
    <3> QED
      BY <2>1, <2>2, <3>1, <3>2, KeptSteps DEF LossInv
  <2>3. CASE UNCHANGED vars
    <3>1. /\ UNCHANGED <<queue, streams, sending, pictures, viewing, last, slot, events, window,
                         decoder, asked, late, missed, sharing, worker, encoder, force, told>>
      BY <2>3 DEF vars, source, link, viewer
    <3>2. Order'
      BY <3>1, OrderUntouched DEF LossInv, Order, ControlTypes
    <3>3. InStep'
      BY <3>1 DEF LossInv, InStep, Tells
    <3>4. Kept'
      BY <3>1 DEF LossInv, Kept, InSession, OnItsWay, IsLast, Tells, Shows, MadeGood, Owes
    <3> QED
      BY <2>1, <3>2, <3>3, <3>4 DEF LossInv
  <2> QED
    BY <2>2, <2>3
<1> QED
  BY <1>1, <1>2, PTL DEF Spec

\* No frame is lost on its way: when all is settled the viewer shows the latest
\* one, or the sharer knows that it owes a keyframe, or the frame lies in the
\* viewer's slot and only its event was dropped, by the try_send of session.rs.
THEOREM LatestAccountedFor == Spec => []LatestIsAccountedFor
<1>1. LossInv => LatestIsAccountedFor
  <2> SUFFICES ASSUME LossInv, Settled, ~late, NEW s \in Sessions, InSession(s),
                      pictures[s] # <<>>
               PROVE  Shows(s) \/ Owes \/ Unannounced(s)
    BY DEF LatestIsAccountedFor
  <2>1. OnItsWay(s) \/ Shows(s) \/ MadeGood(s)
    BY DEF LossInv, Kept
  <2> QED
    BY <2>1 DEF Settled, OnItsWay, MadeGood, IsLast, Unannounced
<1> QED
  BY <1>1, LossInvariant, PTL

-----------------------------------------------------------------------------
(* Types                                                                   *)

Encodable(f) == f.key \in BOOLEAN /\ f.patches \in UNION {[T -> BOOLEAN] : T \in SUBSET Tiles}
WayTypes == /\ queue # <<>> => Encodable(Head(queue))
            /\ \A x \in streams : Encodable(x.frame) /\ x.read \in {"nothing", "header", "all"}
            /\ Encodable(slot)

\* One stream is open while a frame is written, and none otherwise.
Writing == IF sending THEN \E x \in streams : {y \in streams : y.open} = {x}
           ELSE {y \in streams : y.open} = {}

\* The encoder counts a frame at most for every picture that the capture had.
Captured == encoder.id + (IF fresh THEN 1 ELSE 0)
Counted == /\ bounds \in [changes: 0 .. MaxChanges, troubles: 0 .. MaxTroubles]
           /\ worker # 0 => Captured <= bounds.changes + bounds.troubles + 1
           /\ \A s \in Sessions : Len(pictures[s]) <= MaxId

TypeInv == PictureInv /\ ControlTypes /\ WayTypes /\ Writing /\ Counted

\* The frames of the encoder, and the one that stands for none, are of their type.
LEMMA Encoded ==
    /\ Encodable(NoFrame)
    /\ \A e \in Encoders : \A s, i :
         screen \in Pictures => Encodable(Frame(s, i, e.key, Patches(e)))
<1>1. Encodable(NoFrame)
  <2>1. [t \in {} |-> FALSE] \in [{} -> BOOLEAN] /\ {} \in SUBSET Tiles
    OBVIOUS
  <2>2. [t \in {} |-> FALSE] \in UNION {[T -> BOOLEAN] : T \in SUBSET Tiles}
    BY <2>1
  <2> QED
    BY <2>2 DEF Encodable, NoFrame, Frame
<1>2. ASSUME NEW e \in Encoders, NEW s, NEW i, screen \in Pictures
      PROVE  Encodable(Frame(s, i, e.key, Patches(e)))
  <2> DEFINE T == {u \in Tiles : e.key \/ screen[u] # e.previous[u]}
  <2>1. T \in SUBSET Tiles /\ Patches(e) = [t \in T |-> screen[t]]
    BY DEF Patches
  <2> HIDE DEF T
  <2>2. [t \in T |-> screen[t]] \in [T -> BOOLEAN]
    BY <1>2, <2>1 DEF Pictures
  <2>3. Patches(e) \in UNION {[U -> BOOLEAN] : U \in SUBSET Tiles}
    BY <2>1, <2>2
  <2>4. e.key \in BOOLEAN
    BY DEF Encoders
  <2> QED
    BY <2>3, <2>4 DEF Encodable, Frame
<1> QED
  BY <1>1, <1>2

\* The frames on the way and their streams keep their types.
LEMMA WayTypeSteps ==
    ASSUME PictureInv, WayTypes, Next
    PROVE  WayTypes'
<1>1. CASE UNCHANGED <<queue, streams, slot>>
  BY <1>1 DEF WayTypes
<1>2. CASE \/ HandleAnswer \/ StartCapture \/ StopSharing \/ StopWorker \/ CaptureFails
           \/ ForceKeyframe \/ HandleViewing \/ HandleIdle \/ (\E t \in Tiles : Change(t))
           \/ (\E s \in Sessions : HandleRequest(s)) \/ Accept \/ StopViewing
  BY <1>1, <1>2
     DEF HandleAnswer, StartCapture, StopSharing, StopWorker, CaptureFails, ForceKeyframe,
         HandleViewing, HandleIdle, Change, HandleRequest, Accept, StopViewing, link, viewer
<1>3. CASE Capture
  <2> DEFINE e == [encoder EXCEPT !.key = encoder.key \/ force]
             f == Frame(worker, e.id + 1, e.key, Patches(e))
  <2>1. queue' \in {queue, <<f>>} /\ UNCHANGED <<streams, slot>>
    BY <1>3 DEF Capture, viewer
  <2>2. e \in Encoders /\ screen \in Pictures
    BY DEF PictureInv, SourceInv, SharerTypes, Encoders
  <2> HIDE DEF e
  <2>3. Encodable(f)
    BY <2>2, Encoded
  <2> HIDE DEF f
  <2> QED
    BY <2>1, <2>3 DEF WayTypes
<1>4. CASE TakeFrame
  <2>1. /\ queue # <<>> /\ queue' = <<>> /\ UNCHANGED slot
        /\ streams' \in {streams, streams \cup {Stream(Head(queue))}}
    BY <1>4 DEF TakeFrame, viewer
  <2>2. Stream(Head(queue)).frame = Head(queue) /\ Stream(Head(queue)).read = "nothing"
    BY DEF Stream
  <2> QED
    BY <2>1, <2>2 DEF WayTypes
<1>5. ASSUME NEW x \in streams, Written(x) \/ WriteFails(x) \/ ReadHeader(x) \/ ReadPayload(x)
      PROVE  WayTypes'
  <2>1. \/ streams' = streams \ {x}
        \/ Becomes(x, [x EXCEPT !.open = FALSE])
        \/ \E r \in {"header", "all"} : Becomes(x, [x EXCEPT !.read = r])
    BY <1>5, Zenon DEF Written, WriteFails, ReadHeader, ReadPayload
  <2>2. /\ [x EXCEPT !.open = FALSE].frame = x.frame /\ [x EXCEPT !.open = FALSE].read = x.read
        /\ \A r \in {"header", "all"} : /\ [x EXCEPT !.read = r].frame = x.frame
                                        /\ [x EXCEPT !.read = r].read = r
    BY StreamFields
  <2>3. \A z \in streams' : \/ z \in streams
                            \/ z.frame = x.frame /\ z.read \in {x.read, "header", "all"}
    BY <2>1, <2>2 DEF Becomes
  <2>4. UNCHANGED queue /\ slot' \in {slot, x.frame}
    BY <1>5 DEF Written, WriteFails, ReadHeader, ReadPayload, viewer
  <2> QED
    BY <2>3, <2>4 DEF WayTypes
<1>6. CASE HandleFrameAvailable
  <2>1. UNCHANGED <<queue, streams>> /\ slot' \in {slot, NoFrame}
    BY <1>6 DEF HandleFrameAvailable, ConsumeFrame, link
  <2> QED
    BY <2>1, Encoded DEF WayTypes
<1> QED
  BY <1>2, <1>3, <1>4, <1>5, <1>6 DEF Next, Sharer, Link, Window

\* Frames are written one at a time.
LEMMA WritingSteps ==
    ASSUME PictureInv, Writing, Next
    PROVE  Writing'
<1>1. CASE UNCHANGED <<sending, streams>>
  BY <1>1 DEF Writing
<1>2. CASE Sharer \/ Window \/ (\E t \in Tiles : Change(t))
           \/ (\E s \in Sessions : HandleRequest(s)) \/ Accept \/ StopViewing
  BY <1>1, <1>2
     DEF Sharer, HandleAnswer, StartCapture, StopSharing, StopWorker, Capture, CaptureFails,
         ForceKeyframe, Window, HandleFrameAvailable, HandleViewing, HandleIdle, Change,
         HandleRequest, Accept, StopViewing, link
<1>3. CASE TakeFrame
  <2>1. \/ UNCHANGED <<sending, streams>>
        \/ ~sending /\ sending' = TRUE /\ streams' = streams \cup {Stream(Head(queue))}
    BY <1>3 DEF TakeFrame, MayTake
  <2>2. CASE ~sending /\ sending' = TRUE /\ streams' = streams \cup {Stream(Head(queue))}
    <3>1. {y \in streams : y.open} = {} /\ Stream(Head(queue)).open
      BY <2>2 DEF Writing, Stream
    <3>2. {y \in streams' : y.open} = {Stream(Head(queue))} /\ Stream(Head(queue)) \in streams'
      BY <2>2, <3>1
    <3> QED
      BY <2>2, <3>2 DEF Writing
  <2> QED
    BY <1>1, <2>1, <2>2
<1>4. ASSUME NEW x \in streams, x.open PROVE sending /\ {y \in streams : y.open} = {x}
  BY <1>4 DEF Writing
<1>5. ASSUME NEW x \in streams, Written(x) \/ WriteFails(x) PROVE Writing'
  <2>1. x.open /\ sending' = FALSE
    BY <1>5 DEF Written, WriteFails
  <2>2. \A z \in streams' : (z \in streams /\ z # x) \/ z = [x EXCEPT !.open = FALSE]
    BY <1>5 DEF Written, WriteFails, Becomes
  <2>3. ~[x EXCEPT !.open = FALSE].open
    BY StreamFields
  <2>4. {y \in streams : y.open} = {x}
    BY <1>4, <2>1
  <2>5. {y \in streams' : y.open} = {}
    BY <2>2, <2>3, <2>4
  <2> QED
    BY <2>1, <2>5 DEF Writing
<1>6. ASSUME NEW x \in streams, ReadHeader(x) \/ ReadPayload(x) PROVE Writing'
  <2>1. PICK r \in {"header", "all"} : Becomes(x, [x EXCEPT !.read = r])
    BY <1>6 DEF ReadHeader, ReadPayload
  <2> DEFINE y == [x EXCEPT !.read = r]
  <2>2. y.open = x.open
    BY StreamFields
  <2>3. UNCHANGED sending
    BY <1>6 DEF ReadHeader, ReadPayload
  <2>4. streams' = (streams \ {x}) \cup {z \in {y} : z.open \/ z.read # "all"}
    BY <2>1 DEF Becomes
  <2> HIDE DEF y
  <2>5. CASE x.open
    <3>1. sending /\ {z \in streams : z.open} = {x}
      BY <1>4, <2>5
    <3>2. {z \in streams' : z.open} = {y} /\ y \in streams'
      BY <2>2, <2>4, <2>5, <3>1
    <3> QED
      BY <2>3, <3>1, <3>2 DEF Writing
  <2>6. CASE ~x.open
    <3>1. {z \in streams' : z.open} = {z \in streams : z.open}
      BY <2>2, <2>4, <2>6
    <3> QED
      BY <2>3, <2>4, <2>6, <3>1 DEF Writing
  <2> QED
    BY <2>5, <2>6
<1> QED
  BY <1>2, <1>3, <1>5, <1>6 DEF Next, Link

\* The encoder counts on only with a picture that the capture had.
LEMMA CountedSteps ==
    ASSUME TypeInv, Next
    PROVE  Counted'
<1>1. /\ bounds \in [changes: 0 .. MaxChanges, troubles: 0 .. MaxTroubles]
      /\ bounds.changes \in Nat /\ bounds.troubles \in Nat
      /\ {MaxChanges, MaxTroubles} \subseteq Nat
      /\ encoder.id \in Nat /\ fresh \in BOOLEAN
      /\ \A s \in Sessions : Len(pictures[s]) \in Nat /\ Len(pictures[s]) <= MaxId
      /\ worker # 0 => Captured <= bounds.changes + bounds.troubles + 1
  BY BoundsAssumption, FramesInRange
     DEF TypeInv, Counted, PictureInv, SourceInv, SharerTypes, Encoders
<1> DEFINE c == bounds.changes
           r == bounds.troubles
<1>2. CASE UNCHANGED <<bounds, pictures, encoder, fresh, worker>>
  BY <1>2 DEF TypeInv, Counted, Captured
<1>3. CASE \/ HandleAnswer \/ StopSharing \/ ForceKeyframe \/ Link \/ Window
           \/ (\E s \in Sessions : HandleRequest(s)) \/ Accept \/ StopViewing
  <2>1. UNCHANGED <<pictures, encoder, fresh, worker>>
    BY <1>3 DEF HandleAnswer, StopSharing, ForceKeyframe, Link, TakeFrame, Written, WriteFails,
           ReadHeader, ReadPayload, Window, HandleFrameAvailable, HandleViewing, HandleIdle,
           HandleRequest, Accept, StopViewing, source
  <2>2. \/ UNCHANGED bounds
        \/ r < MaxTroubles /\ bounds' = [bounds EXCEPT !.troubles = r + 1]
    BY <1>3 DEF HandleAnswer, StopSharing, ForceKeyframe, Link, TakeFrame, Written, WriteFails,
           ReadHeader, ReadPayload, Window, HandleFrameAvailable, HandleViewing, HandleIdle,
           HandleRequest, Accept, StopViewing
  <2>3. CASE r < MaxTroubles /\ bounds' = [bounds EXCEPT !.troubles = r + 1]
    <3>1. /\ bounds' \in [changes: 0 .. MaxChanges, troubles: 0 .. MaxTroubles]
          /\ bounds'.changes = c /\ bounds'.troubles = r + 1
      BY <1>1, <2>3
    <3>2. Captured' = Captured /\ Captured \in Nat
      BY <1>1, <2>1 DEF Captured
    <3> QED
      BY <1>1, <2>1, <3>1, <3>2 DEF Counted
  <2> QED
    BY <1>2, <2>1, <2>2, <2>3
<1>4. CASE StartCapture \/ StopWorker
  <2>1. UNCHANGED <<bounds, pictures>> /\ encoder' = Encoder
    BY <1>4 DEF StartCapture, StopWorker, NoThread
  <2>2. Captured' <= 1
    BY <2>1, FirstStates DEF Captured
  <2>3. Captured' \in Nat
    BY <2>1, FirstStates DEF Captured
  <2> QED
    BY <1>1, <2>1, <2>2, <2>3 DEF Counted
<1>5. CASE CaptureFails
  <2>1. /\ r < MaxTroubles /\ bounds' = [bounds EXCEPT !.troubles = r + 1] /\ UNCHANGED pictures
        /\ worker' # 0 => /\ worker # 0 /\ encoder' = [encoder EXCEPT !.key = TRUE]
                           /\ fresh' = TRUE
    BY <1>5 DEF CaptureFails, NoThread
  <2>2. /\ bounds' \in [changes: 0 .. MaxChanges, troubles: 0 .. MaxTroubles]
        /\ bounds'.changes = c /\ bounds'.troubles = r + 1
    BY <1>1, <2>1
  <2>3. [encoder EXCEPT !.key = TRUE].id = encoder.id
    BY DEF TypeInv, PictureInv, SourceInv, SharerTypes, Encoders
  <2> DEFINE i == encoder.id
  <2>4. worker' # 0 => encoder'.id = i /\ fresh' = TRUE /\ i \in Nat
    BY <1>1, <2>1, <2>3
  <2> HIDE DEF i
  <2>5. worker' # 0 => Captured' = i + 1
    BY <2>4 DEF Captured
  <2>6. Captured \in {i, i + 1}
    BY <1>1 DEF Captured, i
  <2>7. worker' # 0 => Captured' <= Captured + 1 /\ Captured \in Nat /\ Captured' \in Nat
    BY <2>4, <2>5, <2>6
  <2> QED
    BY <1>1, <2>1, <2>2, <2>7 DEF Counted
<1>6. ASSUME NEW t \in Tiles, Change(t) PROVE Counted'
  <2>1. /\ c < MaxChanges /\ bounds' = [bounds EXCEPT !.changes = c + 1]
        /\ UNCHANGED <<pictures, encoder, worker>>
    BY <1>6 DEF Change
  <2>2. /\ bounds' \in [changes: 0 .. MaxChanges, troubles: 0 .. MaxTroubles]
        /\ bounds'.changes = c + 1 /\ bounds'.troubles = r
    BY <1>1, <2>1
  <2>3. Captured' <= Captured + 1 /\ Captured \in Nat /\ Captured' \in Nat
    BY <1>1, <2>1 DEF Captured
  <2> QED
    BY <1>1, <2>1, <2>2, <2>3 DEF Counted
<1>7. CASE Capture
  <2> DEFINE e == [encoder EXCEPT !.key = encoder.key \/ force]
  <2>1. /\ fresh' = FALSE /\ worker # 0 /\ UNCHANGED <<worker, bounds>>
        /\ \/ encoder' = e /\ UNCHANGED pictures
           \/ /\ fresh /\ encoder' = [e EXCEPT !.id = e.id + 1, !.previous = screen, !.key = FALSE]
              /\ pictures' = [pictures EXCEPT ![worker] = Append(@, screen)]
    BY <1>7 DEF Capture
  <2>2. e \in Encoders /\ e.id = encoder.id
    BY DEF TypeInv, PictureInv, SourceInv, SharerTypes, Encoders
  <2> HIDE DEF e
  <2>3. CASE encoder' = e /\ UNCHANGED pictures
    <3>1. Captured' <= Captured /\ Captured \in Nat /\ Captured' \in Nat
      BY <1>1, <2>1, <2>2, <2>3 DEF Captured
    <3> QED
      BY <1>1, <2>1, <2>3, <3>1 DEF Counted
  <2>4. CASE /\ fresh /\ encoder' = [e EXCEPT !.id = e.id + 1, !.previous = screen, !.key = FALSE]
             /\ pictures' = [pictures EXCEPT ![worker] = Append(@, screen)]
    <3>1. encoder'.id = encoder.id + 1
      BY <2>2, <2>4 DEF Encoders
    <3>2. Captured' = Captured /\ Captured = encoder.id + 1
      BY <1>1, <2>1, <2>4, <3>1 DEF Captured
    <3>3. worker \in Sessions /\ screen \in Pictures /\ pictures \in [Sessions -> Seq(Pictures)]
          /\ encoder.id = Len(pictures[worker])
      BY <2>1 DEF TypeInv, PictureInv, SourceInv, SharerTypes, AtLast, Sessions
    <3>4. /\ pictures'[worker] = Append(pictures[worker], screen)
          /\ \A s \in Sessions \ {worker} : pictures'[s] = pictures[s]
      BY <2>4, <3>3
    <3>5. Len(pictures'[worker]) = encoder.id + 1
      BY <3>3, <3>4, MorePictures
    <3>6. encoder.id + 1 <= c + r + 1 /\ c <= MaxChanges /\ r <= MaxTroubles
      BY <1>1, <2>1, <3>2
    <3>7. encoder.id + 1 <= MaxId
      BY <1>1, <3>6 DEF MaxId
    <3>8. \A s \in Sessions : Len(pictures'[s]) <= MaxId
      BY <1>1, <3>4, <3>5, <3>7
    <3> QED
      BY <1>1, <2>1, <3>2, <3>6, <3>8 DEF Counted
  <2> QED
    BY <2>1, <2>3, <2>4
<1> QED
  BY <1>3, <1>4, <1>5, <1>6, <1>7 DEF Next, Sharer

\* The inductive invariant of the types.
THEOREM TypeInvariant == Spec => []TypeInv
<1>1. Init => TypeInv
  <2> SUFFICES ASSUME Init PROVE TypeInv
    OBVIOUS
  <2>1. ControlTypes
    BY FirstStates DEF Init, ControlTypes
  <2>2. WayTypes
    BY Encoded DEF Init, WayTypes
  <2>3. Writing
    BY DEF Init, Writing
  <2>4. Counted
    <3>1. 0 \in 0 .. MaxChanges /\ 0 \in 0 .. MaxTroubles /\ MaxId \in Nat
      BY BoundsAssumption DEF MaxId
    <3>2. \A s \in Sessions : Len(pictures[s]) = 0
      BY DEF Init
    <3> QED
      BY <3>1, <3>2 DEF Init, Counted
  <2> QED
    BY <2>1, <2>2, <2>3, <2>4, PictureInit DEF TypeInv
<1>2. TypeInv /\ [Next]_vars => TypeInv'
  <2> SUFFICES ASSUME TypeInv, [Next]_vars PROVE TypeInv'
    OBVIOUS
  <2>1. PictureInv'
    BY PictureStep DEF TypeInv
  <2>2. CASE Next
    BY <2>1, <2>2, ControlSteps, WayTypeSteps, WritingSteps, CountedSteps DEF TypeInv
  <2>3. CASE UNCHANGED vars
    <3>1. UNCHANGED <<queue, streams, sending, pictures, viewing, last, slot, window,
                      asked, late, missed, sharing, worker, encoder, fresh, told,
                      bounds>>
      BY <2>3 DEF vars, source, link, viewer
    <3>2. ControlTypes' /\ WayTypes' /\ Writing'
      BY <3>1 DEF TypeInv, ControlTypes, WayTypes, Writing
    <3>3. Counted'
      BY <3>1 DEF TypeInv, Counted, Captured
    <3> QED
      BY <2>1, <3>2, <3>3 DEF TypeInv
  <2> QED
    BY <2>2, <2>3
<1> QED
  BY <1>1, <1>2, PTL DEF Spec

\* The state of the two ends, of the streams and of the windows stays within its
\* types; one stream at most is being written.
THEOREM TypeCorrect == Spec => []TypeOK
<1>1. TypeInv => TypeOK
  <2> SUFFICES ASSUME TypeInv PROVE TypeOK
    OBVIOUS
  <2>1. SharerTypes /\ ControlTypes /\ decoder \in Decoders /\ events \in Seq(Events)
    BY DEF TypeInv, PictureInv, SourceInv, ViewerTypes
  <2>2. ASSUME NEW f, InRange(f) \/ f = NoFrame, Encodable(f) PROVE IsFrame(f)
    <3>1. CASE InRange(f)
      <4>1. f.session \in Sessions /\ f.id \in Nat /\ f.id <= Len(pictures[f.session])
        BY <3>1 DEF InRange
      <4>2. Len(pictures[f.session]) \in Nat /\ Len(pictures[f.session]) <= MaxId /\ MaxId \in Nat
        BY <4>1, FramesInRange, BoundsAssumption DEF TypeInv, Counted, MaxId
      <4>3. f.session \in 0 .. MaxSessions /\ f.id \in 0 .. MaxId
        BY <4>1, <4>2 DEF Sessions
      <4> QED
        BY <2>2, <4>3 DEF IsFrame, Encodable
    <3>2. CASE f = NoFrame
      <4>1. NoFrame.session = 0 /\ NoFrame.id = 0
        BY DEF NoFrame, Frame
      <4>2. 0 \in 0 .. MaxSessions /\ 0 \in 0 .. MaxId
        BY BoundsAssumption DEF MaxId
      <4> QED
        BY <2>2, <3>2, <4>1, <4>2 DEF IsFrame, Encodable
    <3> QED
      BY <2>2, <3>1, <3>2
  <2>3. Len(queue) <= 1 /\ \A i \in 1 .. Len(queue) : IsFrame(queue[i])
    <3>1. CASE queue = <<>>
      BY <3>1
    <3>2. CASE queue # <<>>
      <4> DEFINE f == Head(queue)
      <4>1. queue = <<f>> /\ IsFrame(f)
        BY <2>2, <3>2, FramesInRange DEF TypeInv, WayTypes
      <4> HIDE DEF f
      <4> QED
        BY <4>1
    <3> QED
      BY <3>1, <3>2
  <2>4. \A x \in streams : IsFrame(x.frame) /\ x.read \in {"nothing", "header", "all"}
    BY <2>2, FramesInRange DEF TypeInv, WayTypes
  <2>5. Cardinality({x \in streams : x.open}) = IF sending THEN 1 ELSE 0
    BY FS_Singleton, FS_EmptySet DEF TypeInv, Writing
  <2>6. IsFrame(slot)
    BY <2>2, FramesInRange DEF TypeInv, WayTypes
  <2>7. events \in Seq([type: {"frame", "viewing", "idle"}, session: 0 .. MaxSessions])
    <3>1. Events \subseteq [type: {"frame", "viewing", "idle"}, session: 0 .. MaxSessions]
      BY FirstStates DEF Events, Event, Sessions
    <3> DEFINE T == [type: {"frame", "viewing", "idle"}, session: 0 .. MaxSessions]
    <3> HIDE DEF T
    <3>2. Events \subseteq T
      BY <3>1 DEF T
    <3>3. events \in Seq(T)
      <4>1. Len(events) \in Nat /\ events \in [1 .. Len(events) -> Events]
        BY <2>1
      <4>2. events \in [1 .. Len(events) -> T]
        BY <3>2, <4>1
      <4> QED
        BY <4>1, <4>2
    <3> QED
      BY <3>3 DEF T
  <2> QED
    BY <2>1, <2>3, <2>4, <2>5, <2>6, <2>7
       DEF TypeOK, SharerTypes, ControlTypes, Decoders, Encoders
<1> QED
  BY <1>1, TypeInvariant, PTL
==============================================================================
