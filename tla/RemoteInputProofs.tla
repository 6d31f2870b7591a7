--------------------------- MODULE RemoteInputProofs ---------------------------
(***************************************************************************)
(* For every set of keys and any number of inputs and clicks: the three    *)
(* views of the permission agree once nothing is under way, and a sharer   *)
(* whose control is not granted has nothing pressed, unless the operating  *)
(* system refuses to let go.                                               *)
(***************************************************************************)
EXTENDS RemoteInput, SequenceTheorems, TLAPS

AllUp == [input |-> ReleaseAll]
Shows(s) == [state |-> s]
IsState(e) == "state" \in DOMAIN e
Injects(e) == "input" \in DOMAIN e /\ e # AllUp

\* The last state that the events q show is s; without any, the window shows
\* it now.
Told(q, s, now) ==
    /\ \A i \in 1 .. Len(q) : IsState(q[i]) => \/ q[i].state = s
                                               \/ \E j \in 1 .. Len(q) : j > i /\ IsState(q[j])
    /\ (\A i \in 1 .. Len(q) : ~IsState(q[i])) => now = s

\* Every injection of the events q is followed by a release of all keys; pressed
\* says that keys are down already, and then there is such a release.
Cleared(q, pressed) ==
    /\ \A i \in 1 .. Len(q) : Injects(q[i]) => \E j \in 1 .. Len(q) : j > i /\ q[j] = AllUp
    /\ pressed => \E j \in 1 .. Len(q) : q[j] = AllUp

\* The viewer will believe what the sharer's loop has decided last, or has
\* ended the session itself.
ViewerTold ==
    /\ view # "over" => IF toViewer = <<>> THEN view = share
                                           ELSE AsTold(toViewer[Len(toViewer)]) = share
    /\ view = "over" => share = "over" \/ \E i \in 1 .. Len(toSharer) : toSharer[i] = StopSharing
    /\ \A i \in 1 .. Len(toViewer) : toViewer[i] = "stop" => share = "over"
    /\ \A i \in 1 .. Len(toSharer) : toSharer[i] = StopSharing => view = "over"

\* The inductive invariants: of the permission,
AgreeInv == TypeOK /\ Told(events, share, shown) /\ ViewerTold

\* and of the keys. Without an injector nothing is down; with one it knows of
\* every key that is.
KeysInv == /\ TypeOK
           /\ tracked = down
           /\ injector \/ down = {}
           /\ share # "on" => Cleared(events, down # {})

-----------------------------------------------------------------------------
(* Queues                                                                  *)

\* An element more at the end of a queue.
LEMMA Appended ==
    ASSUME NEW T, NEW q \in Seq(T), NEW e \in T
    PROVE  /\ Append(q, e) \in Seq(T) /\ Append(q, e) # <<>>
           /\ Len(q) \in Nat /\ Len(Append(q, e)) = Len(q) + 1
           /\ \A i \in 1 .. Len(q) : Append(q, e)[i] = q[i]
           /\ Append(q, e)[Len(q) + 1] = e
           /\ Append(q, e)[Len(Append(q, e))] = e
  OBVIOUS

\* An element less at its head.
LEMMA Taken ==
    ASSUME NEW T, NEW q \in Seq(T), q # <<>>
    PROVE  /\ Tail(q) \in Seq(T) /\ Head(q) \in T /\ Head(q) = q[1] /\ 1 \in 1 .. Len(q)
           /\ Len(q) \in Nat /\ Len(Tail(q)) = Len(q) - 1 /\ Len(q) > 0
           /\ \A i \in 1 .. Len(Tail(q)) : i + 1 \in 1 .. Len(q) /\ Tail(q)[i] = q[i + 1]
           /\ \A i \in 1 .. Len(q) : i = 1 \/ (i - 1 \in 1 .. Len(Tail(q)) /\ Tail(q)[i - 1] = q[i])
<1> DEFINE a == Tail(q)
<1>1. /\ a \in Seq(T) /\ Head(q) \in T /\ Head(q) = q[1]
      /\ Len(q) \in Nat /\ Len(a) = Len(q) - 1 /\ Len(q) > 0
      /\ \A i \in 1 .. Len(a) : a[i] = q[i + 1]
  OBVIOUS
<1> HIDE DEF a
<1>2. \A i \in 1 .. Len(q) : i = 1 \/ (i - 1 \in 1 .. Len(a) /\ a[i - 1] = q[i])
  BY <1>1
<1>3. 1 \in 1 .. Len(q) /\ \A i \in 1 .. Len(a) : i + 1 \in 1 .. Len(q) /\ a[i] = q[i + 1]
  BY <1>1
<1> QED
  BY <1>1, <1>2, <1>3 DEF a

\* What a queue of events says of the state after an event more, or less.
LEMMA ToldAppend ==
    ASSUME NEW q \in Seq(Events), NEW e \in Events, NEW s, NEW now,
           (IsState(e) /\ e.state = s) \/ (~IsState(e) /\ Told(q, s, now))
    PROVE  Told(Append(q, e), s, now)
<1> DEFINE a == Append(q, e)
<1>1. /\ Len(q) \in Nat /\ Len(a) = Len(q) + 1
      /\ \A i \in 1 .. Len(q) : a[i] = q[i]
      /\ a[Len(q) + 1] = e
  BY Appended
<1> HIDE DEF a
<1>2. CASE IsState(e) /\ e.state = s
  <2>1. \A i \in 1 .. Len(a) : i = Len(q) + 1 \/ (i < Len(q) + 1 /\ Len(q) + 1 \in 1 .. Len(a))
    BY <1>1
  <2>2. Len(q) + 1 \in 1 .. Len(a)
    BY <1>1
  <2> QED
    BY <1>1, <1>2, <2>1, <2>2 DEF Told
<1>3. CASE ~IsState(e) /\ Told(q, s, now)
  <2>1. \A i \in 1 .. Len(a) : i \in 1 .. Len(q) \/ i = Len(q) + 1
    BY <1>1
  <2>2. \A i \in 1 .. Len(q) : i \in 1 .. Len(a)
    BY <1>1
  <2> QED
    BY <1>1, <1>3, <2>1, <2>2 DEF Told
<1> QED
  BY <1>2, <1>3 DEF a

LEMMA ToldTail ==
    ASSUME NEW q \in Seq(Events), q # <<>>, NEW s, NEW now, Told(q, s, now)
    PROVE  Told(Tail(q), s, IF IsState(Head(q)) THEN Head(q).state ELSE now)
<1> DEFINE a == Tail(q)
           after == IF IsState(Head(q)) THEN Head(q).state ELSE now
<1>1. /\ Head(q) = q[1] /\ 1 \in 1 .. Len(q) /\ Len(q) \in Nat
      /\ \A i \in 1 .. Len(a) : i + 1 \in 1 .. Len(q) /\ a[i] = q[i + 1]
      /\ \A i \in 1 .. Len(q) : i = 1 \/ (i - 1 \in 1 .. Len(a) /\ a[i - 1] = q[i])
  BY Taken
<1> HIDE DEF a
<1>2. ASSUME NEW i \in 1 .. Len(a), IsState(a[i])
      PROVE  a[i].state = s \/ \E j \in 1 .. Len(a) : j > i /\ IsState(a[j])
  <2>1. CASE q[i + 1].state = s
    BY <1>1, <2>1
  <2>2. CASE \E j \in 1 .. Len(q) : j > i + 1 /\ IsState(q[j])
    <3>1. PICK j \in 1 .. Len(q) : j > i + 1 /\ IsState(q[j])
      BY <2>2
    <3>2. j - 1 \in 1 .. Len(a) /\ a[j - 1] = q[j] /\ j - 1 > i
      BY <1>1, <3>1
    <3> QED
      BY <3>1, <3>2
  <2> QED
    BY <1>1, <1>2, <2>1, <2>2 DEF Told
<1>3. ASSUME \A i \in 1 .. Len(a) : ~IsState(a[i])
      PROVE  after = s
  <2>1. \A j \in 1 .. Len(q) : j = 1 \/ ~IsState(q[j])
    BY <1>1, <1>3
  <2>2. CASE IsState(q[1])
    <3>1. q[1].state = s \/ \E j \in 1 .. Len(q) : j > 1 /\ IsState(q[j])
      BY <1>1, <2>2 DEF Told
    <3> QED
      BY <1>1, <2>1, <2>2, <3>1
  <2>3. CASE ~IsState(q[1])
    BY <1>1, <2>1, <2>3 DEF Told
  <2> QED
    BY <2>2, <2>3
<1> QED
  BY <1>2, <1>3 DEF Told, a

\* Likewise of the releases.
LEMMA ClearedAppend ==
    ASSUME NEW q \in Seq(Events), NEW e \in Events, NEW r,
           e = AllUp \/ (~Injects(e) /\ Cleared(q, r))
    PROVE  Cleared(Append(q, e), r)
<1> DEFINE a == Append(q, e)
<1>1. /\ Len(q) \in Nat /\ Len(a) = Len(q) + 1
      /\ \A i \in 1 .. Len(q) : a[i] = q[i]
      /\ a[Len(q) + 1] = e
  BY Appended
<1> HIDE DEF a
<1>2. /\ \A i \in 1 .. Len(a) : i \in 1 .. Len(q) \/ i = Len(q) + 1
      /\ \A i \in 1 .. Len(q) : i \in 1 .. Len(a) /\ Len(q) + 1 > i
      /\ Len(q) + 1 \in 1 .. Len(a)
  BY <1>1
<1>3. CASE e = AllUp
  BY <1>1, <1>2, <1>3 DEF Cleared, Injects
<1>4. CASE ~Injects(e) /\ Cleared(q, r)
  BY <1>1, <1>2, <1>4 DEF Cleared
<1> QED
  BY <1>3, <1>4 DEF a

LEMMA ClearedTail ==
    ASSUME NEW q \in Seq(Events), q # <<>>, NEW r, Cleared(q, r),
           NEW b, b => Injects(Head(q)) \/ (r /\ Head(q) # AllUp)
    PROVE  Cleared(Tail(q), b)
<1> DEFINE a == Tail(q)
<1>1. /\ Head(q) = q[1] /\ 1 \in 1 .. Len(q) /\ Len(q) \in Nat
      /\ \A i \in 1 .. Len(a) : i + 1 \in 1 .. Len(q) /\ a[i] = q[i + 1]
      /\ \A i \in 1 .. Len(q) : i = 1 \/ (i - 1 \in 1 .. Len(a) /\ a[i - 1] = q[i])
  BY Taken
<1> HIDE DEF a
<1>2. ASSUME NEW i \in 1 .. Len(a), Injects(a[i])
      PROVE  \E j \in 1 .. Len(a) : j > i /\ a[j] = AllUp
  <2>1. PICK j \in 1 .. Len(q) : j > i + 1 /\ q[j] = AllUp
    BY <1>1, <1>2 DEF Cleared
  <2>2. j - 1 \in 1 .. Len(a) /\ a[j - 1] = q[j] /\ j - 1 > i
    BY <1>1, <2>1
  <2> QED
    BY <2>1, <2>2
<1>3. ASSUME b PROVE \E j \in 1 .. Len(a) : a[j] = AllUp
  <2>1. PICK j \in 1 .. Len(q) : q[j] = AllUp /\ j # 1
    <3>1. CASE Injects(Head(q))
      <4>1. PICK j \in 1 .. Len(q) : j > 1 /\ q[j] = AllUp
        BY <1>1, <3>1 DEF Cleared
      <4> QED
        BY <4>1
    <3>2. CASE r /\ Head(q) # AllUp
      BY <1>1, <3>2 DEF Cleared
    <3> QED
      BY <1>3, <3>1, <3>2
  <2>2. j - 1 \in 1 .. Len(a) /\ a[j - 1] = q[j]
    BY <1>1, <2>1
  <2> QED
    BY <2>1, <2>2
<1> QED
  BY <1>2, <1>3 DEF Cleared, a

-----------------------------------------------------------------------------
(* Events and messages                                                     *)

\* Every event is of one kind.
LEMMA EventKinds ==
    /\ AllUp \in Events /\ ~IsState(AllUp) /\ ~Injects(AllUp)
    /\ \A x \in Inputs : /\ [input |-> x] \in Events /\ ~IsState([input |-> x])
                         /\ [input |-> x] = AllUp <=> x = ReleaseAll
    /\ \A x \in Session : /\ Shows(x) \in Events /\ IsState(Shows(x)) /\ Shows(x).state = x
                          /\ ~Injects(Shows(x)) /\ Shows(x) # AllUp
    /\ \A b \in BOOLEAN : /\ [started |-> b] \in Events /\ ~IsState([started |-> b])
                          /\ ~Injects([started |-> b]) /\ [started |-> b] # AllUp
    /\ \A b : OnOff(b) \in Session
<1>1. \A x : /\ DOMAIN [input |-> x] = {"input"} /\ DOMAIN [state |-> x] = {"state"}
             /\ DOMAIN [started |-> x] = {"started"}
  OBVIOUS
<1>2. ReleaseAll \in Inputs
  BY DEF Inputs
<1>3. \A x \in Inputs : [input |-> x] \in Events
  BY DEF Events
<1>4. \A x \in Session : [state |-> x] \in Events
  BY DEF Events
<1>5. \A x \in BOOLEAN : [started |-> x] \in Events
  BY DEF Events
<1>6. \A x, y : [state |-> x] # [input |-> y] /\ [started |-> x] # [input |-> y]
  BY <1>1
<1>7. \A x, y : [input |-> x] = [input |-> y] <=> x = y
  <2>1. \A x : [input |-> x].input = x
    OBVIOUS
  <2> QED
    BY <2>1
<1>8. \A b : OnOff(b) \in Session
  BY DEF OnOff, Session
<1> QED
  BY <1>1, <1>2, <1>3, <1>4, <1>5, <1>6, <1>7, <1>8 DEF AllUp, Shows, IsState, Injects

\* The events of a permission and of an end are releases and a state.
LEMMA Announced ==
    ASSUME NEW q \in Seq(Events)
    PROVE  /\ \A b \in BOOLEAN : q \o Announce(b) = IF b THEN Append(q, Shows(OnOff(b)))
                                            ELSE Append(Append(q, AllUp), Shows(OnOff(b)))
           /\ q \o Farewell = Append(Append(q, AllUp), Shows("over"))
<1>1. \A x \in Events : q \o <<x>> = Append(q, x)
  OBVIOUS
<1>2. \A x, y \in Events : q \o <<x, y>> = Append(Append(q, x), y)
  OBVIOUS
<1>3. Farewell = <<AllUp, Shows("over")>>
  BY DEF Farewell, AllUp, Shows
<1>4. \A b \in BOOLEAN : Announce(b) = IF b THEN <<Shows(OnOff(b))>> ELSE <<AllUp, Shows(OnOff(b))>>
  <2>1. ASSUME NEW x \in Events, NEW y \in Events
        PROVE  <<>> \o <<y>> = <<y>> /\ <<x>> \o <<y>> = <<x, y>>
    <3>1. <<x>> \in Seq(Events) /\ <<y>> \in Seq(Events)
      OBVIOUS
    <3>2. <<>> \o <<y>> = <<y>>
      BY <3>1, ConcatEmptySeq
    <3>3. Append(<<x>>, y) = <<x>> \o <<y>>
      BY <3>1, AppendIsConcat, Zenon
    <3>4. Append(<<x>>, y) = <<x, y>>
      <4>1. <<x, y>> \in Seq(Events) /\ <<>> \in Seq(Events)
        OBVIOUS
      <4>2. \A q0 \in Seq(Events) : q0 \o <<x, y>> = Append(Append(q0, x), y)
        OBVIOUS
      <4>3. <<>> \o <<x, y>> = <<x, y>> /\ <<>> \o <<x>> = <<x>>
        BY <3>1, <4>1, ConcatEmptySeq
      <4>4. Append(<<>>, x) = <<>> \o <<x>>
        BY <4>1, AppendIsConcat, Zenon
      <4> QED
        BY <4>1, <4>2, <4>3, <4>4
    <3> QED
      BY <3>2, <3>3, <3>4
  <2>2. AllUp \in Events /\ \A b \in BOOLEAN : Shows(OnOff(b)) \in Events
    BY EventKinds
  <2>3. \A b \in BOOLEAN : Announce(b) = (IF b THEN <<>> ELSE <<AllUp>>) \o <<Shows(OnOff(b))>>
    BY DEF Announce, AllUp, Shows
  <2> QED
    BY <2>1, <2>2, <2>3
<1>5. AllUp \in Events /\ Shows("over") \in Events /\ \A b \in BOOLEAN : Shows(OnOff(b)) \in Events
  BY EventKinds DEF Session
<1> QED
  BY <1>1, <1>2, <1>3, <1>4, <1>5

\* What a decision of the sharer's loop tells its window: after a permission
\* or an end the last state is the decision's, and control that is not granted
\* is taken with a release of all keys.
LEMMA DecisionsTold ==
    ASSUME NEW q \in Seq(Events), NEW now, NEW r
    PROVE  /\ \A b \in BOOLEAN : /\ q \o Announce(b) \in Seq(Events)
                                 /\ Told(q \o Announce(b), OnOff(b), now)
                                 /\ ~b => Cleared(q \o Announce(b), r)
           /\ q \o Farewell \in Seq(Events)
           /\ Told(q \o Farewell, "over", now)
           /\ Cleared(q \o Farewell, r)
<1> DEFINE a == Append(q, AllUp)
<1>1. a \in Seq(Events) /\ Cleared(a, r)
  BY EventKinds, ClearedAppend
<1> HIDE DEF a
<1>2. ASSUME NEW x \in Session
      PROVE  /\ Append(q, Shows(x)) \in Seq(Events) /\ Append(a, Shows(x)) \in Seq(Events)
             /\ Told(Append(q, Shows(x)), x, now) /\ Told(Append(a, Shows(x)), x, now)
             /\ Cleared(Append(a, Shows(x)), r)
  <2>1. Shows(x) \in Events /\ IsState(Shows(x)) /\ Shows(x).state = x /\ ~Injects(Shows(x))
    BY EventKinds
  <2>2. Append(q, Shows(x)) \in Seq(Events) /\ Append(a, Shows(x)) \in Seq(Events)
    BY <1>1, <2>1
  <2>3. Told(Append(q, Shows(x)), x, now) /\ Told(Append(a, Shows(x)), x, now)
    BY <1>1, <2>1, ToldAppend
  <2>4. Cleared(Append(a, Shows(x)), r)
    BY <1>1, <2>1, ClearedAppend
  <2> QED
    BY <2>2, <2>3, <2>4
<1>3. "over" \in Session /\ \A b \in BOOLEAN : OnOff(b) \in Session
  BY EventKinds DEF Session
<1>4. /\ \A b \in BOOLEAN : q \o Announce(b) = IF b THEN Append(q, Shows(OnOff(b)))
                                                    ELSE Append(a, Shows(OnOff(b)))
      /\ q \o Farewell = Append(a, Shows("over"))
  BY Announced DEF a
<1> QED
  BY <1>2, <1>3, <1>4

-----------------------------------------------------------------------------
(* Types                                                                   *)

\* The steps of the viewer's window and loop.
LEMMA ViewerTypes ==
    ASSUME TypeOK,
           \/ \E k \in Keys : Press(k) \/ Release(k)
           \/ ReleaseKeyboard \/ SendInput \/ ViewerStops \/ ViewerReceives
    PROVE  TypeOK'
<1> DEFINE Sent == [seq: 1 .. MaxInput, input: Inputs]
<1>1. /\ tasks \in Seq(Sent) /\ toSharer \in Seq(Sent \cup {StopSharing})
      /\ sequence \in 0 .. MaxInput /\ MaxInput \in Nat
  BY BoundsAssumption DEF TypeOK
<1>2. /\ ReleaseAll \in Inputs
      /\ \A k \in Keys, b \in BOOLEAN : [key |-> k, pressed |-> b] \in Inputs
  BY DEF Inputs
<1>3. ASSUME NEW e \in Inputs, Spawn(e)
      PROVE  sequence' \in 0 .. MaxInput /\ tasks' \in Seq(Sent)
  <2>1. sequence + 1 \in 1 .. MaxInput
    BY <1>1, <1>3 DEF Spawn
  <2>2. [seq |-> sequence + 1, input |-> e] \in Sent
    BY <2>1
  <2> HIDE DEF Sent
  <2> QED
    BY <1>1, <1>3, <2>1, <2>2 DEF Spawn
<1>4. CASE \E k \in Keys : Press(k) \/ Release(k)
  BY <1>2, <1>3, <1>4 DEF Press, Release, TypeOK, sharer, window
<1>5. CASE ReleaseKeyboard
  BY <1>2, <1>3, <1>5 DEF ReleaseKeyboard, TypeOK, sharer, window
<1>6. CASE SendInput
  <2>1. tasks' \in Seq(Sent) /\ toSharer' \in Seq(Sent \cup {StopSharing})
    <3> HIDE DEF Sent
    <3>1. tasks # <<>> /\ Head(tasks) \in Sent /\ Tail(tasks) \in Seq(Sent)
      BY <1>1, <1>6 DEF SendInput
    <3>2. Append(toSharer, Head(tasks)) \in Seq(Sent \cup {StopSharing})
      BY <1>1, <3>1
    <3> QED
      BY <1>1, <1>6, <3>1, <3>2 DEF SendInput
  <2> QED
    BY <1>6, <2>1 DEF SendInput, TypeOK, sharer, window
<1>7. CASE ViewerStops
  <2>1. toSharer' \in Seq(Sent \cup {StopSharing})
    BY <1>1, <1>7 DEF ViewerStops
  <2> QED
    BY <1>7, <2>1 DEF ViewerStops, TypeOK, sharer, window, Session
<1>8. CASE ViewerReceives
  <2>1. /\ Head(toViewer) \in {"grant", "revoke", "stop"}
        /\ toViewer' \in Seq({"grant", "revoke", "stop"})
    BY <1>8 DEF ViewerReceives, TypeOK
  <2> QED
    BY <1>8, <2>1 DEF ViewerReceives, TypeOK, sharer, window, Session, AsTold
<1> QED
  BY <1>4, <1>5, <1>6, <1>7, <1>8

\* The steps of the sharer's loop, and the loss of the link.
LEMMA SharerTypes ==
    ASSUME TypeOK,
           \/ \E c \in Commands : SetPermission(c)
           \/ SharerStops \/ SharerReceives \/ LinkLost
    PROVE  TypeOK'
<1> DEFINE Sent == [seq: 1 .. MaxInput, input: Inputs]
<1>1. events \in Seq(Events) /\ toSharer \in Seq(Sent \cup {StopSharing}) /\ 0 \in 0 .. MaxInput
  BY BoundsAssumption DEF TypeOK
<1>2. /\ \A b \in BOOLEAN : events \o Announce(b) \in Seq(Events)
      /\ events \o Farewell \in Seq(Events)
  BY <1>1, DecisionsTold
<1>3. ASSUME NEW c \in Commands, Takes(c)
      PROVE  clicks' \in Seq(Commands)
  BY <1>3 DEF Takes, TypeOK
<1>4. ASSUME NEW c \in Commands, SetPermission(c)
      PROVE  TypeOK'
  <2>1. clicks' \in Seq(Commands)
    BY <1>3, <1>4 DEF SetPermission
  <2>2. CASE share = "over"
    BY <1>4, <2>1, <2>2 DEF SetPermission, TypeOK, viewer, window
  <2>3. CASE share # "over"
    <3>1. share' \in Session /\ toViewer' \in Seq({"grant", "revoke", "stop"})
      <4>1. c \in {"grant", "revoke", "stop"} /\ toViewer \in Seq({"grant", "revoke", "stop"})
        BY DEF Commands, TypeOK
      <4>2. Append(toViewer, c) \in Seq({"grant", "revoke", "stop"})
        BY <4>1
      <4> QED
        BY <1>4, <2>3, <4>2, EventKinds DEF SetPermission
    <3>2. events' \in Seq(Events)
      BY <1>2, <1>4, <2>3 DEF SetPermission
    <3> QED
      BY <1>4, <2>1, <3>1, <3>2 DEF SetPermission, TypeOK, viewer, window
  <2> QED
    BY <2>2, <2>3
<1>5. CASE SharerStops
  <2>1. clicks' \in Seq(Commands)
    BY <1>3, <1>5 DEF SharerStops, Commands
  <2>2. toViewer' \in Seq({"grant", "revoke", "stop"}) /\ events' \in Seq(Events)
    <3>1. /\ toViewer \in Seq({"grant", "revoke", "stop"})
          /\ Append(toViewer, "stop") \in Seq({"grant", "revoke", "stop"})
      BY DEF TypeOK
    <3> QED
      BY <1>1, <1>2, <1>5, <3>1 DEF SharerStops
  <2> QED
    BY <1>1, <1>5, <2>1, <2>2 DEF SharerStops, TypeOK, viewer, window, Session
<1>6. CASE SharerReceives
  <2>1. Head(toSharer) \in Sent \cup {StopSharing} /\ toSharer' \in Seq(Sent \cup {StopSharing})
    BY <1>1, <1>6 DEF SharerReceives
  <2>2. CASE Head(toSharer) = StopSharing
    BY <1>1, <1>2, <1>6, <2>1, <2>2 DEF SharerReceives, TypeOK, viewer, window, Session
  <2>3. CASE Head(toSharer) # StopSharing
    <3>1. Head(toSharer).seq \in 0 .. MaxInput /\ Head(toSharer).input \in Inputs
      BY <2>1, <2>3, BoundsAssumption
    <3>2. [input |-> Head(toSharer).input] \in Events
      BY <3>1, EventKinds
    <3>3. events' \in Seq(Events) /\ last' \in 0 .. MaxInput /\ share' = share
      <4>1. Append(events, [input |-> Head(toSharer).input]) \in Seq(Events)
        BY <1>1, <3>2
      <4>2. last \in 0 .. MaxInput
        BY DEF TypeOK
      <4> QED
        BY <1>1, <1>6, <2>3, <3>1, <4>1, <4>2 DEF SharerReceives
    <3> QED
      BY <1>6, <2>1, <3>3 DEF SharerReceives, TypeOK, viewer, window
  <2> QED
    BY <2>2, <2>3
<1>7. CASE LinkLost
  BY <1>1, <1>2, <1>7 DEF LinkLost, TypeOK, window, Session
<1> QED
  BY <1>4, <1>5, <1>6, <1>7

\* The steps of the sharer's window.
LEMMA WindowTypes ==
    ASSUME TypeOK, Poll \/ ClickGrant \/ ClickRevoke \/ ClickStop
    PROVE  TypeOK'
<1>1. ASSUME ForgetAndRelease
      PROVE  tracked' \subseteq Keys /\ down' \subseteq Keys
  BY <1>1 DEF ForgetAndRelease, TypeOK
<1>2. \A c \in Commands : Append(clicks, c) \in Seq(Commands)
  BY DEF TypeOK
<1>3. "revoke" \in Commands /\ "grant" \in Commands /\ "stop" \in Commands
  BY DEF Commands
<1>4. CASE Poll
  <2>1. events # <<>> /\ Head(events) \in Events /\ events' \in Seq(Events)
    BY <1>4 DEF Poll, TypeOK
  <2>2. ASSUME NEW e, Head(events) = e, "input" \in DOMAIN e, Inject(e.input)
        PROVE  /\ injector' \in BOOLEAN /\ tracked' \subseteq Keys /\ down' \subseteq Keys
               /\ clicks' \in Seq(Commands)
    <3>1. e.input \in Inputs
      BY <2>1, <2>2 DEF Events
    <3>2. e.input # ReleaseAll => e.input.key \in Keys
      BY <3>1 DEF Inputs
    <3> QED
      BY <1>1, <1>2, <1>3, <2>2, <3>2 DEF Inject, After, TypeOK
  <2>3. ASSUME NEW e, Head(events) = e, "state" \in DOMAIN e
        PROVE  e.state \in Session
    BY <2>1, <2>3 DEF Events
  <2>4. ASSUME NEW e, Head(events) = e, "started" \in DOMAIN e
        PROVE  e.started \in BOOLEAN
    BY <2>1, <2>4 DEF Events
  <2> QED
    BY <1>1, <1>2, <1>3, <1>4, <2>1, <2>2, <2>3, <2>4
       DEF Poll, TypeOK, viewer, sharer, ReleaseAndDrop
<1>5. CASE ClickGrant
  BY <1>2, <1>3, <1>5 DEF ClickGrant, Click, TypeOK, viewer, sharer
<1>6. CASE ClickRevoke
  BY <1>1, <1>2, <1>3, <1>6 DEF ClickRevoke, Click, ReleaseAndDrop, TypeOK, viewer, sharer
<1>7. CASE ClickStop
  BY <1>2, <1>3, <1>7 DEF ClickStop, Click, TypeOK, viewer, sharer, window
<1> QED
  BY <1>4, <1>5, <1>6, <1>7

\* Every step keeps the types.
LEMMA TypesStep == TypeOK /\ [Next]_vars => TypeOK'
<1> SUFFICES ASSUME TypeOK, [Next]_vars PROVE TypeOK'
  OBVIOUS
<1>1. CASE UNCHANGED vars
  BY <1>1 DEF vars, viewer, sharer, window, TypeOK
<1>2. CASE Next
  BY <1>2, ViewerTypes, SharerTypes, WindowTypes DEF Next
<1> QED
  BY <1>1, <1>2

\* The first events are of the session that the viewer has accepted.
LEMMA FirstEvents ==
    ASSUME NEW b \in BOOLEAN
    PROVE  /\ <<Shows(OnOff(b)), [started |-> b]>> \in Seq(Events)
           /\ \A now : Told(<<Shows(OnOff(b)), [started |-> b]>>, OnOff(b), now)
           /\ Cleared(<<Shows(OnOff(b)), [started |-> b]>>, FALSE)
<1> DEFINE q == <<Shows(OnOff(b)), [started |-> b]>>
<1>1. /\ Shows(OnOff(b)) \in Events /\ IsState(Shows(OnOff(b))) /\ Shows(OnOff(b)).state = OnOff(b)
      /\ ~Injects(Shows(OnOff(b)))
      /\ [started |-> b] \in Events /\ ~IsState([started |-> b]) /\ ~Injects([started |-> b])
  BY EventKinds
<1>2. q \in Seq(Events) /\ Len(q) = 2 /\ q[1] = Shows(OnOff(b)) /\ q[2] = [started |-> b]
  BY <1>1
<1> HIDE DEF q
<1>3. 1 \in 1 .. Len(q) /\ \A i \in 1 .. Len(q) : i = 1 \/ i = 2
  BY <1>2
<1>4. Cleared(q, FALSE)
  BY <1>1, <1>2, <1>3 DEF Cleared
<1>5. ASSUME NEW now PROVE Told(q, OnOff(b), now)
  BY <1>1, <1>2, <1>3 DEF Told
<1> QED
  BY <1>2, <1>4, <1>5 DEF q

LEMMA FirstTypes == Init => TypeOK
<1>1. \A b \in BOOLEAN : /\ <<[state |-> OnOff(b)], [started |-> b]>> \in Seq(Events)
                         /\ OnOff(b) \in Session
  BY FirstEvents, EventKinds DEF Shows
<1>2. 0 \in 0 .. MaxInput
  BY BoundsAssumption
<1>3. Init => events \in Seq(Events) /\ view \in Session /\ share \in Session
  BY <1>1 DEF Init
<1>5. \A T : <<>> \in Seq(T)
  OBVIOUS
<1> SUFFICES ASSUME Init PROVE TypeOK
  OBVIOUS
<1>4. /\ tasks = <<>> /\ toSharer = <<>> /\ toViewer = <<>> /\ clicks = <<>>
      /\ held = {} /\ tracked = {} /\ down = {} /\ sequence = 0 /\ last = 0
      /\ shown = "waiting" /\ injector = FALSE
  BY DEF Init
<1> QED
  BY <1>2, <1>3, <1>4, <1>5 DEF TypeOK

\* The types of both ends of the input's way hold in every reachable state.
THEOREM TypeCorrect == Spec => []TypeOK
  BY FirstTypes, TypesStep, PTL DEF Spec

-----------------------------------------------------------------------------
(* The permission                                                          *)

\* An event has one field.
LEMMA OneField ==
    ASSUME NEW e \in Events
    PROVE  \/ "input" \in DOMAIN e /\ "state" \notin DOMAIN e /\ "started" \notin DOMAIN e
              /\ e.input \in Inputs /\ e = [input |-> e.input]
           \/ "state" \in DOMAIN e /\ "input" \notin DOMAIN e /\ "started" \notin DOMAIN e
              /\ e.state \in Session
           \/ "started" \in DOMAIN e /\ "input" \notin DOMAIN e /\ "state" \notin DOMAIN e
              /\ e.started \in BOOLEAN
<1>1. CASE e \in [input : Inputs]
  BY <1>1
<1>2. CASE e \in [state : Session]
  BY <1>2
<1>3. CASE e \in [started : BOOLEAN]
  BY <1>3
<1> QED
  BY <1>1, <1>2, <1>3 DEF Events

\* What the sharer's window will show is what its loop has decided.
LEMMA ToldStep ==
    ASSUME TypeOK, Told(events, share, shown), [Next]_vars
    PROVE  Told(events, share, shown)'
<1>1. events \in Seq(Events)
  BY DEF TypeOK
<1>2. CASE UNCHANGED <<events, share, shown>>
  BY <1>2 DEF Told, IsState
<1>3. ASSUME NEW b \in BOOLEAN, share' = OnOff(b), events' = events \o Announce(b)
      PROVE  Told(events', share', shown')
  BY <1>1, <1>3, DecisionsTold
<1>4. ASSUME share' = "over", events' = events \o Farewell
      PROVE  Told(events', share', shown')
  BY <1>1, <1>4, DecisionsTold
<1>5. ASSUME UNCHANGED <<share, shown>>, NEW x \in Inputs, events' = Append(events, [input |-> x])
      PROVE  Told(events', share', shown')
  <2>1. [input |-> x] \in Events /\ ~IsState([input |-> x])
    BY EventKinds
  <2> QED
    BY <1>1, <1>5, <2>1, ToldAppend
<1>6. ASSUME NEW c \in Commands, SetPermission(c)
      PROVE  Told(events', share', shown')
  BY <1>2, <1>3, <1>6 DEF SetPermission, window, Told, IsState
<1>7. CASE SharerStops
  BY <1>2, <1>4, <1>7 DEF SharerStops, window, Told, IsState
<1>8. CASE SharerReceives
  <2>1. Head(toSharer) # StopSharing => Head(toSharer).input \in Inputs
    BY <1>8 DEF SharerReceives, TypeOK
  <2> QED
    BY <1>2, <1>4, <1>5, <1>8, <2>1 DEF SharerReceives, window, Told, IsState
<1>9. CASE LinkLost
  BY <1>2, <1>4, <1>9 DEF LinkLost, window, Told, IsState
<1>10. CASE Poll
  <2> DEFINE e == Head(events)
  <2>1. events # <<>> /\ events' = Tail(events) /\ share' = share
    BY <1>10 DEF Poll, sharer
  <2>2. e \in Events
    BY <1>1, <2>1
  <2>3. shown' = IF IsState(e) THEN e.state ELSE shown
    BY <1>10, <2>2, OneField DEF Poll, IsState
  <2> HIDE DEF e
  <2>4. Told(Tail(events), share, IF IsState(e) THEN e.state ELSE shown)
    BY <1>1, <2>1, ToldTail DEF e
  <2> QED
    BY <2>1, <2>3, <2>4
<1> QED
  <2>1. Told(events', share', shown') <=> Told(events, share, shown)'
    BY DEF Told, IsState
  <2>2. CASE UNCHANGED vars
    BY <1>2, <2>2 DEF vars, sharer, window
  <2>3. CASE (\E k \in Keys : Press(k) \/ Release(k)) \/ ReleaseKeyboard \/ SendInput
    BY <1>2, <2>3 DEF Press, Release, ReleaseKeyboard, SendInput, sharer, window
  <2>4. CASE ViewerStops \/ ViewerReceives \/ ClickGrant \/ ClickRevoke \/ ClickStop
    BY <1>2, <2>4 DEF ViewerStops, ViewerReceives, ClickGrant, ClickRevoke, ClickStop, sharer,
                      window
  <2> QED
    BY <1>6, <1>7, <1>8, <1>9, <1>10, <2>1, <2>2, <2>3, <2>4 DEF Next

\* The viewer will believe the same, or has ended the session.
LEMMA ViewerToldStep ==
    ASSUME TypeOK, ViewerTold, [Next]_vars
    PROVE  ViewerTold'
<1> DEFINE Sent == [seq : 1 .. MaxInput, input : Inputs]
           Told3 == {"grant", "revoke", "stop"}
<1>1. toViewer \in Seq(Told3) /\ toSharer \in Seq(Sent \cup {StopSharing}) /\ tasks \in Seq(Sent)
  BY DEF TypeOK
<1>2. \A m \in Sent : m # StopSharing
  BY DEF StopSharing
<1> HIDE DEF Sent, Told3
<1>3. CASE UNCHANGED <<view, share, toViewer, toSharer>>
  BY <1>3 DEF ViewerTold
<1>4. CASE SendInput
  <2>1. CASE view = "on"
    <3> DEFINE q == Append(toSharer, Head(tasks))
    <3>1. Head(tasks) \in Sent /\ Head(tasks) \in Sent \cup {StopSharing}
      BY <1>1, <1>4 DEF SendInput
    <3>2. /\ Len(toSharer) \in Nat /\ Len(q) = Len(toSharer) + 1
          /\ \A i \in 1 .. Len(toSharer) : q[i] = toSharer[i]
          /\ q[Len(toSharer) + 1] = Head(tasks)
      BY <1>1, <3>1, Appended
    <3> HIDE DEF q
    <3>3. \A i \in 1 .. Len(q) : q[i] = StopSharing => view = "over"
      <4>1. \A i \in 1 .. Len(q) : i \in 1 .. Len(toSharer) \/ i = Len(toSharer) + 1
        BY <3>2
      <4> QED
        BY <1>2, <3>1, <3>2, <4>1 DEF ViewerTold
    <3>4. toSharer' = q /\ UNCHANGED <<view, share, toViewer>>
      BY <1>4, <2>1 DEF SendInput, q, sharer
    <3> QED
      BY <2>1, <3>3, <3>4 DEF ViewerTold
  <2>2. CASE view # "on"
    BY <1>4, <2>2 DEF SendInput, ViewerTold, sharer
  <2> QED
    BY <2>1, <2>2
<1>5. CASE ViewerStops
  <2>1. /\ Len(toSharer) + 1 \in 1 .. Len(toSharer')
        /\ toSharer'[Len(toSharer) + 1] = StopSharing
    BY <1>1, <1>5 DEF ViewerStops
  <2> QED
    BY <1>5, <2>1 DEF ViewerStops, ViewerTold, sharer
<1>6. CASE ViewerReceives
  <2> DEFINE q == Tail(toViewer)
  <2>1. /\ q \in Seq(Told3) /\ Head(toViewer) \in Told3 /\ Head(toViewer) = toViewer[1]
        /\ Len(toViewer) \in Nat /\ Len(q) = Len(toViewer) - 1 /\ 1 \in 1 .. Len(toViewer)
        /\ \A i \in 1 .. Len(q) : i + 1 \in 1 .. Len(toViewer) /\ q[i] = toViewer[i + 1]
    BY <1>1, <1>6, Taken DEF ViewerReceives
  <2>2. q = <<>> => Len(toViewer) = 1
    BY <2>1
  <2>3. q # <<>> => q[Len(q)] = toViewer[Len(toViewer)]
    <3>1. q # <<>> => Len(q) \in 1 .. Len(q)
      BY <2>1
    <3> QED
      BY <2>1, <3>1
  <2> HIDE DEF q
  <2>4. \A i \in 1 .. Len(q) : q[i] = "stop" => share = "over"
    BY <2>1 DEF ViewerTold
  <2>5. /\ toViewer' = q /\ UNCHANGED <<share, toSharer>> /\ toViewer # <<>>
        /\ view' = IF view = "over" THEN view ELSE AsTold(Head(toViewer))
    BY <1>6 DEF ViewerReceives, q, sharer
  <2>6. CASE view = "over"
    BY <2>4, <2>5, <2>6 DEF ViewerTold
  <2>7. CASE view # "over"
    <3>1. view' = "over" => share = "over"
      <4>1. view' = "over" => toViewer[1] = "stop"
        BY <2>1, <2>5, <2>7 DEF AsTold, Told3
      <4> QED
        BY <2>1, <4>1 DEF ViewerTold
    <3>2. IF q = <<>> THEN view' = share ELSE AsTold(q[Len(q)]) = share
      BY <2>1, <2>2, <2>3, <2>5, <2>7 DEF ViewerTold
    <3>3. \A i \in 1 .. Len(toSharer) : toSharer[i] # StopSharing
      BY <2>7 DEF ViewerTold
    <3> QED
      BY <2>4, <2>5, <3>1, <3>2, <3>3 DEF ViewerTold
  <2> QED
    BY <2>6, <2>7
<1>7. ASSUME NEW c \in Told3, toViewer' = Append(toViewer, c), share # "over",
             share' = AsTold(c), UNCHANGED <<view, toSharer>>
      PROVE  ViewerTold'
  <2> DEFINE q == Append(toViewer, c)
  <2>1. /\ q # <<>> /\ q[Len(q)] = c
        /\ Len(toViewer) \in Nat /\ Len(q) = Len(toViewer) + 1
        /\ \A i \in 1 .. Len(toViewer) : q[i] = toViewer[i]
        /\ q[Len(toViewer) + 1] = c
    BY <1>1, <1>7, Appended
  <2> HIDE DEF q
  <2>2. \A i \in 1 .. Len(q) : i \in 1 .. Len(toViewer) \/ i = Len(toViewer) + 1
    BY <2>1
  <2>3. \A i \in 1 .. Len(q) : q[i] = "stop" => AsTold(c) = "over"
    BY <1>7, <2>1, <2>2 DEF ViewerTold, AsTold
  <2>4. toViewer' = q
    BY <1>7 DEF q
  <2> QED
    BY <1>7, <2>1, <2>3, <2>4 DEF ViewerTold
<1>8. ASSUME NEW c \in Commands, SetPermission(c)
      PROVE  ViewerTold'
  <2>1. CASE share = "over"
    BY <1>3, <1>8, <2>1 DEF SetPermission, viewer
  <2>2. CASE share # "over"
    <3>1. c \in Told3 /\ AsTold(c) = OnOff(c = "grant")
      BY <1>8 DEF SetPermission, AsTold, OnOff, Told3
    <3> QED
      BY <1>7, <1>8, <2>2, <3>1 DEF SetPermission, viewer
  <2> QED
    BY <2>1, <2>2
<1>9. CASE SharerStops
  <2>1. "stop" \in Told3 /\ AsTold("stop") = "over"
    BY DEF AsTold, Told3
  <2> QED
    BY <1>3, <1>7, <1>9, <2>1 DEF SharerStops, viewer
<1>10. CASE SharerReceives
  <2> DEFINE q == Tail(toSharer)
  <2>1. /\ Head(toSharer) = toSharer[1] /\ 1 \in 1 .. Len(toSharer) /\ Len(toSharer) \in Nat
        /\ \A i \in 1 .. Len(q) : i + 1 \in 1 .. Len(toSharer) /\ q[i] = toSharer[i + 1]
        /\ \A i \in 1 .. Len(toSharer) : i = 1 \/ (i - 1 \in 1 .. Len(q) /\ q[i - 1] = toSharer[i])
    BY <1>1, <1>10, Taken DEF SharerReceives
  <2> HIDE DEF q
  <2>2. \A i \in 1 .. Len(q) : q[i] = StopSharing => view = "over"
    BY <2>1 DEF ViewerTold
  <2>3. toSharer' = q /\ UNCHANGED <<view, toViewer>>
    BY <1>10 DEF SharerReceives, viewer, q
  <2>4. CASE Head(toSharer) = StopSharing
    <3>1. view = "over" /\ share' = "over"
      BY <1>10, <2>1, <2>4 DEF SharerReceives, ViewerTold
    <3> QED
      BY <2>2, <2>3, <3>1 DEF ViewerTold
  <2>5. CASE Head(toSharer) # StopSharing
    <3>1. share' = share
      BY <1>10, <2>5 DEF SharerReceives
    <3>2. (\E i \in 1 .. Len(toSharer) : toSharer[i] = StopSharing)
             => \E i \in 1 .. Len(q) : q[i] = StopSharing
      BY <2>1, <2>5
    <3> QED
      BY <2>2, <2>3, <3>1, <3>2 DEF ViewerTold
  <2> QED
    BY <2>4, <2>5
<1>11. CASE LinkLost
  <2>1. \A i : i \notin 1 .. Len(<<>>)
    OBVIOUS
  <2> QED
    BY <1>11, <2>1 DEF LinkLost, ViewerTold
<1> QED
  <2>1. CASE UNCHANGED vars
    BY <1>3, <2>1 DEF vars, viewer, sharer
  <2>2. CASE (\E k \in Keys : Press(k) \/ Release(k)) \/ ReleaseKeyboard
    BY <1>3, <2>2 DEF Press, Release, ReleaseKeyboard, sharer
  <2>3. CASE Poll \/ ClickGrant \/ ClickRevoke \/ ClickStop
    BY <1>3, <2>3 DEF Poll, ClickGrant, ClickRevoke, ClickStop, viewer, sharer
  <2> QED
    BY <1>4, <1>5, <1>6, <1>8, <1>9, <1>10, <1>11, <2>1, <2>2, <2>3 DEF Next

\* The inductive invariant of the permission.
THEOREM AgreeInvariant == Spec => []AgreeInv
<1>1. Init => AgreeInv
  <2> SUFFICES ASSUME Init PROVE AgreeInv
    OBVIOUS
  <2>1. Told(events, share, shown)
    BY FirstEvents DEF Init, Shows
  <2>2. ViewerTold
    <3>1. \A i : i \notin 1 .. Len(<<>>)
      OBVIOUS
    <3> QED
      BY <3>1 DEF Init, ViewerTold, OnOff
  <2> QED
    BY <2>1, <2>2, FirstTypes DEF AgreeInv
<1>2. AgreeInv /\ [Next]_vars => AgreeInv'
  BY TypesStep, ToldStep, ViewerToldStep DEF AgreeInv
<1> QED
  BY <1>1, <1>2, PTL DEF Spec

\* Once nothing is under way the sharer's window, its loop and the viewer agree
\* on whether control is granted (SettledAgree), in whatever order permissions,
\* stops, refused injections and the end of the link were handled.
THEOREM PermissionAgreed == Spec => []SettledAgree
<1>1. AgreeInv => SettledAgree
  <2> SUFFICES ASSUME AgreeInv, Settled PROVE shown = share /\ view = share
    BY DEF SettledAgree
  <2>1. events = <<>> /\ toViewer = <<>> /\ toSharer = <<>>
    <3>1. /\ Len(events) \in Nat /\ Len(toViewer) \in Nat /\ Len(toSharer) \in Nat
          /\ Len(tasks) \in Nat /\ Len(clicks) \in Nat
      BY DEF AgreeInv, TypeOK
    <3>2. Len(events) = 0 /\ Len(toViewer) = 0 /\ Len(toSharer) = 0
      BY <3>1 DEF Settled
    <3> QED
      BY <3>2 DEF AgreeInv, TypeOK
  <2>2. \A i : i \notin 1 .. Len(<<>>)
    OBVIOUS
  <2> QED
    BY <2>1, <2>2 DEF AgreeInv, ViewerTold, Told
<1> QED
  BY <1>1, AgreeInvariant, PTL

-----------------------------------------------------------------------------
(* The keys                                                                *)

\* Where nothing is refused, a release of all keys lets go of all that is down.
LEMMA NothingLeft ==
    ASSUME Refused = {}, KeysInv, ForgetAndRelease
    PROVE  tracked' = {} /\ down' = {}
  BY DEF ForgetAndRelease, LetGo, KeysInv

\* Keys that are up need no release.
LEMMA ClearedWhenUp ==
    ASSUME NEW q, NEW r, Cleared(q, r)
    PROVE  Cleared(q, FALSE)
  BY DEF Cleared

\* An event handled by the sharer's window.
LEMMA PollKeeps ==
    ASSUME Refused = {}, KeysInv, Poll
    PROVE  /\ tracked' = down' /\ (injector' \/ down' = {})
           /\ share # "on" => Cleared(events', down' # {})
<1> DEFINE e == Head(events)
<1>1. events \in Seq(Events) /\ events # <<>> /\ events' = Tail(events) /\ e \in Events
  BY DEF KeysInv, TypeOK, Poll
<1>2. ASSUME down' # {} => Injects(e) \/ (down # {} /\ e # AllUp), share # "on"
      PROVE  Cleared(events', down' # {})
  <2> HIDE DEF e
  <2>1. Cleared(events, down # {})
    BY <1>2 DEF KeysInv
  <2>2. Cleared(Tail(events), down' # {})
    BY <1>1, <1>2, <2>1, ClearedTail DEF e
  <2> QED
    BY <1>1, <2>2
<1>3. CASE "input" \in DOMAIN e
  <2>1. e = [input |-> e.input] /\ e.input \in Inputs /\ Inject(e.input)
    BY <1>1, <1>3, OneField DEF Poll
  <2>2. e = AllUp <=> e.input = ReleaseAll
    BY <2>1, EventKinds
  <2> HIDE DEF e
  <2>3. CASE ~injector
    <3>1. UNCHANGED <<injector, tracked, down>> /\ down = {}
      BY <2>1, <2>3 DEF Inject, KeysInv
    <3> QED
      BY <1>2, <3>1 DEF KeysInv
  <2>4. CASE injector /\ e.input = ReleaseAll
    <3>1. tracked' = {} /\ down' = {}
      BY <2>1, <2>4, NothingLeft DEF Inject
    <3> QED
      BY <1>2, <3>1
  <2>5. CASE injector /\ e.input # ReleaseAll
    <3>1. tracked' = After(tracked, e.input) /\ down' = After(down, e.input) /\ injector'
      BY <2>1, <2>5 DEF Inject
    <3>2. Injects(e)
      BY <1>3, <2>2, <2>5 DEF Injects
    <3> QED
      BY <1>2, <3>1, <3>2 DEF KeysInv
  <2> QED
    BY <2>3, <2>4, <2>5
<1>4. CASE "state" \in DOMAIN e
  <2>1. "input" \notin DOMAIN e /\ "started" \notin DOMAIN e /\ e # AllUp
    <3>1. DOMAIN AllUp = {"input"}
      BY DEF AllUp
    <3> QED
      BY <1>1, <1>4, <3>1, OneField
  <2>2. \/ ReleaseAndDrop
        \/ UNCHANGED <<injector, tracked, down>>
    BY <1>4, <2>1 DEF Poll
  <2> HIDE DEF e
  <2>3. CASE ReleaseAndDrop
    <3>1. tracked' = {} /\ down' = {}
      BY <2>3, NothingLeft DEF ReleaseAndDrop
    <3> QED
      BY <1>2, <3>1
  <2>4. CASE UNCHANGED <<injector, tracked, down>>
    BY <1>2, <2>1, <2>4 DEF KeysInv
  <2> QED
    BY <2>2, <2>3, <2>4
<1>5. CASE "started" \in DOMAIN e
  <2>1. ForgetAndRelease
    BY <1>1, <1>5, OneField DEF Poll
  <2>2. tracked' = {} /\ down' = {}
    BY <2>1, NothingLeft
  <2> HIDE DEF e
  <2> QED
    BY <1>2, <2>2
<1> QED
  BY <1>1, <1>3, <1>4, <1>5, OneField

\* A step of the sharer's loop, and the loss of the link.
LEMMA DecisionKeeps ==
    ASSUME KeysInv,
           \/ \E c \in Commands : SetPermission(c)
           \/ SharerStops \/ SharerReceives \/ LinkLost
    PROVE  UNCHANGED <<injector, tracked, down>> /\ (share' # "on" => Cleared(events', down # {}))
<1>1. events \in Seq(Events)
  BY DEF KeysInv, TypeOK
<1>2. ASSUME share # "on", events' = events
      PROVE  Cleared(events', down # {})
  BY <1>2 DEF KeysInv
<1>3. ASSUME events' = events \o Farewell
      PROVE  Cleared(events', down # {})
  BY <1>1, <1>3, DecisionsTold
<1>4. ASSUME NEW c \in Commands, SetPermission(c), share' # "on"
      PROVE  Cleared(events', down # {})
  <2>1. CASE share = "over"
    BY <1>2, <1>4, <2>1 DEF SetPermission
  <2>2. CASE share # "over"
    <3>1. (c = "grant") = FALSE /\ events' = events \o Announce(c = "grant")
      BY <1>4, <2>2 DEF SetPermission, OnOff
    <3> QED
      BY <1>1, <3>1, DecisionsTold
  <2> QED
    BY <2>1, <2>2
<1>5. SharerStops => Cleared(events', down # {})
  BY <1>2, <1>3 DEF SharerStops
<1>6. SharerReceives /\ share' # "on" => Cleared(events', down # {})
  BY <1>2, <1>3 DEF SharerReceives, Accepts
<1>7. LinkLost => Cleared(events', down # {})
  BY <1>2, <1>3 DEF LinkLost
<1> QED
  BY <1>4, <1>5, <1>6, <1>7 DEF SetPermission, SharerStops, SharerReceives, LinkLost, window

\* Every step keeps the invariant.
LEMMA KeysStep ==
    ASSUME Refused = {}, KeysInv, [Next]_vars
    PROVE  KeysInv'
<1>1. TypeOK'
  BY TypesStep DEF KeysInv
<1>2. Cleared(events', down' # {}) <=> Cleared(events, down # {})'
  BY DEF Cleared, Injects, AllUp
<1>3. CASE UNCHANGED <<events, share, tracked, down>> /\ (injector' \/ injector' = injector)
  BY <1>1, <1>2, <1>3 DEF KeysInv
<1>4. CASE Poll
  BY <1>1, <1>2, <1>4, PollKeeps DEF KeysInv, Poll, sharer
<1>5. CASE \/ \E c \in Commands : SetPermission(c)
           \/ SharerStops \/ SharerReceives \/ LinkLost
  BY <1>1, <1>2, <1>5, DecisionKeeps DEF KeysInv
<1>6. CASE ClickRevoke
  <2>1. tracked' = {} /\ down' = {} /\ UNCHANGED <<events, share>>
    BY <1>6, NothingLeft DEF ClickRevoke, ReleaseAndDrop, sharer
  <2>2. share # "on" => Cleared(events, FALSE)
    BY ClearedWhenUp DEF KeysInv
  <2> QED
    BY <1>1, <1>2, <2>1, <2>2 DEF KeysInv
<1> QED
  <2>1. CASE UNCHANGED vars
    BY <1>3, <2>1 DEF vars, sharer, window
  <2>2. CASE (\E k \in Keys : Press(k) \/ Release(k)) \/ ReleaseKeyboard \/ SendInput
    BY <1>3, <2>2 DEF Press, Release, ReleaseKeyboard, SendInput, sharer, window
  <2>3. CASE ViewerStops \/ ViewerReceives \/ ClickGrant \/ ClickStop
    BY <1>3, <2>3 DEF ViewerStops, ViewerReceives, ClickGrant, ClickStop, sharer, window
  <2> QED
    BY <1>4, <1>5, <1>6, <2>1, <2>2, <2>3 DEF Next

\* Where the operating system refuses nothing, the inductive invariant of the
\* keys holds.
THEOREM KeysInvariant == ASSUME Refused = {} PROVE Spec => []KeysInv
<1>1. Init => KeysInv
  <2> SUFFICES ASSUME Init PROVE KeysInv
    OBVIOUS
  <2>1. Cleared(events, FALSE)
    BY FirstEvents DEF Init, Shows
  <2>2. tracked = {} /\ down = {} /\ (down # {}) = FALSE
    BY DEF Init
  <2> QED
    BY <2>1, <2>2, FirstTypes DEF KeysInv
<1>2. KeysInv /\ [Next]_vars => KeysInv'
  BY KeysStep
<1> QED
  BY <1>1, <1>2, PTL DEF Spec

\* No key stays pressed when control was revoked or the session has ended and
\* the window has handled what it was told (RevokedReleases), for any keys and
\* any interleaving of input, clicks and the end of the link.  With a refused
\* injection the code does not keep this: the injector, and with it the record
\* of the keys, is dropped before they are released (main.rs:848).
THEOREM NothingStaysPressed == ASSUME Refused = {} PROVE Spec => []RevokedReleases
<1>1. KeysInv => RevokedReleases
  <2> SUFFICES ASSUME KeysInv, events = <<>>, share # "on" PROVE down = {}
    BY DEF RevokedReleases
  <2>1. \A i : i \notin 1 .. Len(<<>>)
    OBVIOUS
  <2> QED
    BY <2>1 DEF KeysInv, Cleared
<1> QED
  BY <1>1, KeysInvariant, PTL
=============================================================================
