-------------------------- MODULE ControlLoopProofs ---------------------------
(***************************************************************************)
(* Proof that the messages of the control stream are handled in order and  *)
(* without a gap (HandledInOrder of ControlLoop), for channels and streams *)
(* of every size and any number of messages.                               *)
(*                                                                         *)
(* The parts an end writes are numbered by their positions.  What is still *)
(* on the stream and in the writer's hands are the last of them, so the    *)
(* reader has taken all before (Done).  As long as no read began with the  *)
(* last byte of a message, it stands at the beginning of the message after *)
(* the last it handled, or behind its length; and the part that follows    *)
(* says which.                                                             *)
(*                                                                         *)
(* The refinement (ImplementsStream).  What is on the stream and in the    *)
(* writer's hands was sent behind what the reader has taken, and what it   *)
(* has handled is no further than that (LastOK); so what it hears next is  *)
(* later, and the very next as long as nothing has slipped.                *)
(***************************************************************************)
EXTENDS ControlLoop, Integers, SequenceTheorems, TLAPS

\* A loop writes while it has parts to write.
WritesOK == \A e \in End : /\ loop[e] \in {"selects", "sends"} => writing[e] = <<>>
                           /\ loop[e] = "writes" => writing[e] # <<>>

\* The parts that have left the stream to e.
Done(e) == written[Peer(e)] + written[Peer(e)] - Len(stream[e]) - Len(writing[Peer(e)])

\* The part q stands at position j of its stream.
At(q, j) == \/ q.part = "length" /\ q.number + q.number = j + 1
            \/ q.part = "payload" /\ q.number + q.number = j

StreamOK(e) == \A i \in 1 .. Len(stream[e]) : At(stream[e][i], Done(e) + i)
WritingOK(e) == \A i \in 1 .. Len(writing[e]) :
                   At(writing[e][i], written[e] + written[e] - Len(writing[e]) + i)

\* What e has handled, against what it has taken.
HandledOK(e) ==
    /\ Len(handled[e]) + Len(handled[e]) <= Done(e)
    /\ shifted[e] \/ \A i \in 1 .. Len(handled[e]) : handled[e][i] = i

Odd(n) == \E k \in Nat : n = k + k + 1

\* Where the read of e stands.
ReadsOK(e) ==
    loop[e] # "ended" =>
        /\ taken[e] = "length" => Odd(Done(e))
        /\ ~shifted[e] =>
              /\ taken[e] # "garbage"
              /\ \/ Done(e) = Len(handled[e]) + Len(handled[e])
                 \/ Done(e) = Len(handled[e]) + Len(handled[e]) + 1

OrderOK(e) == StreamOK(e) /\ WritingOK(e) /\ HandledOK(e) /\ ReadsOK(e)
LoopInv == TypeOK /\ WritesOK /\ \A e \in End : OrderOK(e)

-----------------------------------------------------------------------------
(* Types                                                                   *)

LEMMA Ends == /\ \A e \in End : Peer(e) \in End /\ Peer(Peer(e)) = e /\ Peer(e) # e
              /\ \A e, f \in End : f = e \/ f = Peer(e)
  BY DEF End, Peer

LEMMA MessageType ==
    ASSUME NEW n \in Nat, NEW asks \in BOOLEAN
    PROVE  /\ Message(n, asks) \in Seq(Part)
           /\ Len(Message(n, asks)) = 2
           /\ Message(n, asks)[1].part = "length" /\ Message(n, asks)[1].number = n
           /\ Message(n, asks)[2].part = "payload" /\ Message(n, asks)[2].number = n
  BY DEF Message, Part

LEMMA TypeInit == Init => TypeOK
  BY CapacityAssumption, BoundAssumption DEF Init, TypeOK, Everywhere

\* The counters of what was said.
SaidOK == said \in [End -> Nat] /\ \A e \in End : said[e] <= MaxSaid[e]

LEMMA SayType ==
    ASSUME SaidOK, NEW e \in End, Say(e)
    PROVE  SaidOK'
<1>1. said'[e] = said[e] + 1 /\ said[e] < MaxSaid[e] /\ said[e] \in Nat /\ MaxSaid[e] \in Nat
  BY BoundAssumption DEF SaidOK, Say
<1>2. said'[e] <= MaxSaid[e] /\ said'[e] \in Nat
  BY <1>1
<1>3. \A f \in End : f # e => said'[f] = said[f]
  BY DEF SaidOK, Say
<1> QED BY <1>2, <1>3 DEF SaidOK, Say

\* What a read leaves of the stream.
StreamsOK == /\ stream \in [End -> Seq(Part)]
             /\ \A e \in End : Len(stream[e]) <= FlowWindow

LEMMA ReadsType ==
    ASSUME StreamsOK, NEW e \in End, NEW what, Reads(e, what)
    PROVE  StreamsOK' /\ Head(stream[e]) \in Part
<1>1. Tail(stream[e]) \in Seq(Part) /\ Head(stream[e]) \in Part
      /\ Len(Tail(stream[e])) <= Len(stream[e]) /\ Len(Tail(stream[e])) \in Nat
      /\ Len(stream[e]) \in Nat
  BY DEF StreamsOK, Reads
<1>2. stream' = [stream EXCEPT ![e] = Tail(@)]
  BY DEF Reads
<1>3. stream' \in [End -> Seq(Part)]
  BY <1>1, <1>2 DEF StreamsOK
<1>4. Len(stream'[e]) <= FlowWindow
  BY <1>1, <1>2, CapacityAssumption DEF StreamsOK
<1>5. \A f \in End : f # e => stream'[f] = stream[f]
  BY <1>2 DEF StreamsOK
<1> QED BY <1>1, <1>3, <1>4, <1>5 DEF StreamsOK

\* A message put into the empty hands of a writer.
SendersOK == /\ writing \in [End -> Seq(Part)]
             /\ written \in [End -> Nat]
             /\ \A e \in End : Len(writing[e]) <= 2

LEMMA WriteType ==
    ASSUME SendersOK, NEW e \in End, NEW asks \in BOOLEAN, Write(e, asks)
    PROVE  SendersOK'
<1>1. written[e] + 1 \in Nat
  BY DEF SendersOK
<1>2. Message(written[e] + 1, asks) \in Seq(Part) /\ Len(Message(written[e] + 1, asks)) = 2
  BY <1>1, MessageType
<1>3. written' \in [End -> Nat]
  BY <1>1 DEF SendersOK, Write
<1>4. writing' \in [End -> Seq(Part)] /\ Len(writing'[e]) = 2
  BY <1>2 DEF SendersOK, Write
<1>5. \A f \in End : f # e => writing'[f] = writing[f]
  BY DEF SendersOK, Write
<1>6. ASSUME NEW f \in End PROVE Len(writing'[f]) <= 2
  <2>1. CASE f = e
    BY <2>1, <1>4
  <2>2. CASE f # e
    BY <2>2, <1>5 DEF SendersOK
  <2> QED BY <2>1, <2>2
<1> QED BY <1>3, <1>4, <1>6 DEF SendersOK

\* A part that goes out.
LEMMA PartType ==
    ASSUME SendersOK, StreamsOK, WritesOK, NEW e \in End, WritePart(e)
    PROVE  SendersOK' /\ StreamsOK'
<1> DEFINE p == Peer(e)
<1>0. p \in End
  BY Ends
<1>1. writing[e] # <<>> /\ writing[e] \in Seq(Part) /\ stream[p] \in Seq(Part)
  BY <1>0 DEF WritePart, WritesOK, SendersOK, StreamsOK
<1>2. /\ Head(writing[e]) \in Part
      /\ Tail(writing[e]) \in Seq(Part)
      /\ Len(writing[e]) \in Nat /\ Len(Tail(writing[e])) = Len(writing[e]) - 1
  BY <1>1
<1>3. /\ Append(stream[p], Head(writing[e])) \in Seq(Part)
      /\ Len(stream[p]) \in Nat
      /\ Len(Append(stream[p], Head(writing[e]))) = Len(stream[p]) + 1
  BY <1>1, <1>2
<1>4. SendersOK'
  <2>1. writing' = [writing EXCEPT ![e] = Tail(writing[e])] /\ written' = written
    BY DEF WritePart, SendersOK
  <2>2. writing' \in [End -> Seq(Part)]
    BY <2>1, <1>2 DEF SendersOK
  <2>3. Len(writing'[e]) <= 2
    BY <2>1, <1>2 DEF SendersOK
  <2>4. \A f \in End : f # e => writing'[f] = writing[f]
    BY <2>1 DEF SendersOK
  <2> QED BY <2>1, <2>2, <2>3, <2>4 DEF SendersOK
<1>5. StreamsOK'
  <2>1. stream' = [stream EXCEPT ![p] = Append(stream[p], Head(writing[e]))]
    BY <1>0 DEF WritePart, StreamsOK
  <2>2. Len(stream[p]) < FlowWindow
    BY DEF WritePart
  <2>3. stream' \in [End -> Seq(Part)]
    BY <2>1, <1>3, <1>0 DEF StreamsOK
  <2>4. Len(stream'[p]) <= FlowWindow
    BY <2>1, <2>2, <1>3, <1>0, CapacityAssumption DEF StreamsOK
  <2>5. \A f \in End : f # p => stream'[f] = stream[f]
    BY <2>1 DEF StreamsOK
  <2> QED BY <2>3, <2>4, <2>5 DEF StreamsOK
<1> QED BY <1>4, <1>5

\* Every step leaves the state in its types.
LEMMA TypeStep == TypeOK /\ WritesOK /\ [Next]_vars => TypeOK'
<1> SUFFICES ASSUME TypeOK, WritesOK, [Next]_vars PROVE TypeOK'
  OBVIOUS
<1> USE CapacityAssumption
<1>0. SaidOK
  BY DEF TypeOK, SaidOK
<1>98. SendersOK
  BY DEF TypeOK, SendersOK
<1>99. StreamsOK
  BY DEF TypeOK, StreamsOK
<1>1. CASE UNCHANGED vars
  BY <1>1 DEF TypeOK, vars, channel, sender, reader
<1>2. CASE Break
  BY <1>2 DEF Break, TypeOK, channel, sender, reader
<1>3. ASSUME NEW e \in End, Acknowledge(e) PROVE TypeOK'
  BY <1>3, <1>0, SayType DEF SaidOK, Acknowledge, TypeOK, sender, reader
<1>4. ASSUME NEW e \in End, Leave(e) PROVE TypeOK'
  BY <1>4 DEF Leave, TypeOK, channel, sender, reader
<1>5. ASSUME NEW e \in End, TakeCommand(e) PROVE TypeOK'
  BY <1>5, <1>0, SayType DEF SaidOK, TakeCommand, Wins, Await, TypeOK, sender
<1>6. ASSUME NEW e \in End, NoCommands(e) PROVE TypeOK'
  BY <1>6 DEF NoCommands, Wins, Await, TypeOK, sender, channel
<1>7. ASSUME NEW e \in End, Send(e) PROVE TypeOK'
  BY <1>7 DEF Send, HasRoom, Await, TypeOK, sender, reader
<1>8. ASSUME NEW e \in End, TakeOutbound(e) PROVE TypeOK'
  <2>1. SendersOK'
    BY <1>8, <1>98, WriteType DEF TakeOutbound
  <2>2. outbound' \in [End -> 0 .. Capacity]
    BY <1>8 DEF TakeOutbound, TypeOK
  <2>3. loop' \in [End -> {"selects", "sends", "writes", "ended"}]
    BY <1>8 DEF TakeOutbound, Write, Await, TypeOK
  <2>4. taken' \in [End -> {"nothing", "length", "garbage"}]
    BY <1>8 DEF TakeOutbound, Wins, TypeOK
  <2>5. UNCHANGED <<said, stream, shifted, handled, open, left, told>>
    BY <1>8 DEF TakeOutbound
  <2> QED BY <2>1, <2>2, <2>3, <2>4, <2>5 DEF TypeOK, SendersOK
<1>9. ASSUME NEW e \in End, Ping(e) PROVE TypeOK'
  <2>1. SendersOK'
    BY <1>9, <1>98, WriteType DEF Ping
  <2> QED BY <1>9, <2>1, <1>0, SayType DEF SaidOK, Ping, Wins, Write, Await, TypeOK, SendersOK
<1>10. ASSUME NEW e \in End, Frame(e) PROVE TypeOK'
  BY <1>10 DEF Frame, Wins, TypeOK, sender, channel
<1>11. ASSUME NEW e \in End, WritePart(e) PROVE TypeOK'
  <2>1. SendersOK' /\ StreamsOK'
    BY <1>11, <1>98, <1>99, PartType
  <2> QED BY <1>11, <2>1 DEF WritePart, Await, TypeOK, SendersOK, StreamsOK, channel, reader
<1>12. ASSUME NEW e \in End, ReadLength(e) PROVE TypeOK'
  BY <1>12 DEF ReadLength, Reads, GoOn, TypeOK, channel, sender
<1>13. ASSUME NEW e \in End, ReadPayload(e) PROVE TypeOK'
  <2>1. StreamsOK' /\ Head(stream[e]) \in Part
    BY <1>13, <1>99, ReadsType DEF ReadPayload
  <2>2. handled' \in [End -> Seq(Nat)]
    <3>1. Append(handled[e], Head(stream[e]).number) \in Seq(Nat)
      BY <2>1 DEF TypeOK, Part
    <3> QED BY <1>13, <3>1 DEF ReadPayload, TypeOK
  <2> QED BY <1>13, <2>1, <2>2 DEF ReadPayload, Reads, Await, TypeOK, StreamsOK, channel, sender
<1>14. ASSUME NEW e \in End, ReadRest(e) PROVE TypeOK'
  <2>1. StreamsOK'
    BY <1>14, <1>99, ReadsType DEF ReadRest
  <2>2. CASE Lose(e) /\ UNCHANGED <<taken, shifted>>
    BY <1>14, <2>1, <2>2
    DEF ReadRest, Reads, Lose, Await, EndTold, TypeOK, StreamsOK, channel, sender
  <2>3. CASE GoOn(e, "garbage") /\ shifted' = [shifted EXCEPT ![e] = TRUE]
    BY <1>14, <2>1, <2>3 DEF ReadRest, Reads, GoOn, TypeOK, StreamsOK, channel, sender
  <2> QED BY <1>14, <2>2, <2>3 DEF ReadRest, TakeRest
<1>15. ASSUME NEW e \in End, ReadGarbage(e) PROVE TypeOK'
  <2>1. StreamsOK'
    BY <1>15, <1>99, ReadsType DEF ReadGarbage
  <2>2. CASE Lose(e) /\ UNCHANGED taken
    BY <1>15, <2>1, <2>2
    DEF ReadGarbage, Reads, Lose, Await, EndTold, TypeOK, StreamsOK, channel, sender
  <2>3. CASE GoOn(e, "garbage")
    BY <1>15, <2>1, <2>3 DEF ReadGarbage, Reads, GoOn, TypeOK, StreamsOK, channel, sender
  <2> QED BY <1>15, <2>2, <2>3 DEF ReadGarbage
<1>16. ASSUME NEW e \in End, SeeClosed(e) PROVE TypeOK'
  BY <1>16 DEF SeeClosed, Lose, Await, EndTold, TypeOK, channel, sender, reader
<1> QED
  BY <1>1, <1>2, <1>3, <1>4, <1>5, <1>6, <1>7, <1>8, <1>9, <1>10, <1>11, <1>12, <1>13,
     <1>14, <1>15, <1>16 DEF Next, Step

-----------------------------------------------------------------------------
(* Writers and their hands                                                 *)

\* A loop that goes from one arm to the next has nothing to write; one that writes
\* has, until the last part is out.
LEMMA WritesStep == TypeOK /\ WritesOK /\ [Next]_vars => WritesOK'
<1> SUFFICES ASSUME TypeOK, WritesOK, [Next]_vars PROVE WritesOK'
  OBVIOUS
<1>1. CASE UNCHANGED vars
  BY <1>1 DEF WritesOK, vars, sender
<1>2. CASE Break
  BY <1>2 DEF Break, WritesOK, sender
<1>3. ASSUME NEW e \in End, Acknowledge(e) \/ Leave(e) PROVE WritesOK'
  BY <1>3 DEF Acknowledge, Leave, WritesOK, sender
<1>4. ASSUME NEW e \in End,
             TakeCommand(e) \/ NoCommands(e) \/ Send(e) \/ Frame(e) \/ SeeClosed(e)
      PROVE  WritesOK'
  BY <1>4 DEF TakeCommand, NoCommands, Send, Frame, SeeClosed, Wins, Lose, Await, WritesOK,
              TypeOK, sender
<1>5. ASSUME NEW e \in End, ReadLength(e) \/ ReadPayload(e) \/ ReadRest(e) \/ ReadGarbage(e)
      PROVE  WritesOK'
  BY <1>5 DEF ReadLength, ReadPayload, ReadRest, ReadGarbage, TakeRest, Reads, GoOn, Lose,
              Await, WritesOK, TypeOK, sender
<1>6. ASSUME NEW e \in End, NEW asks \in BOOLEAN, Write(e, asks) PROVE WritesOK'
  <2>1. Message(written[e] + 1, asks) # <<>>
    BY DEF Message
  <2> QED BY <1>6, <2>1 DEF Write, Await, WritesOK, TypeOK
<1>7. ASSUME NEW e \in End, WritePart(e) PROVE WritesOK'
  <2>1. writing[e] \in Seq(Part) /\ writing[e] # <<>>
    BY <1>7 DEF WritePart, WritesOK, TypeOK
  <2>2. /\ Len(writing[e]) \in Nat /\ Len(Tail(writing[e])) = Len(writing[e]) - 1
        /\ Tail(writing[e]) \in Seq(Part)
    BY <2>1
  <2>3. Tail(writing[e]) = <<>> <=> Len(Tail(writing[e])) = 0
    BY <2>2, EmptySeq
  <2> QED BY <1>7, <2>1, <2>2, <2>3 DEF WritePart, Await, WritesOK, TypeOK
<1>8. ASSUME NEW e \in End, TakeOutbound(e) \/ Ping(e) PROVE WritesOK'
  BY <1>8, <1>6 DEF TakeOutbound, Ping
<1> QED BY <1>1, <1>2, <1>3, <1>4, <1>5, <1>7, <1>8 DEF Next, Step

-----------------------------------------------------------------------------
(* The order of the messages                                               *)

\* Positions, of a stream with s parts and a writer with r after w messages.
LEMMA Positions ==
    ASSUME NEW w \in Int, NEW s \in Int, NEW r \in Int, NEW i \in Int
    PROVE  /\ w + w - s - r \in Int
           /\ (w + 1) + (w + 1) - s - 2 = w + w - s - 0
           /\ w + w - (s - 1) - r = (w + w - s - r) + 1
           /\ w + w - (r - 1) + i = w + w - r + (i + 1)
  OBVIOUS

LEMMA Counts ==
    TypeOK => \A e \in End : /\ written[e] \in Nat
                             /\ Len(stream[e]) \in Nat
                             /\ Len(writing[e]) \in Nat
                             /\ Len(handled[e]) \in Nat
                             /\ Done(e) \in Int
  BY Ends DEF TypeOK, Done

\* What e has read changes with the variables of e and what its peer has written.
LEMMA OrderFrame ==
    ASSUME NEW e \in End, OrderOK(e),
           UNCHANGED <<written[e], writing[e], written[Peer(e)], writing[Peer(e)], stream[e],
                       shifted[e], handled[e]>>,
           loop'[e] # "ended" => loop[e] # "ended",
           taken'[e] \in {taken[e], "nothing"}
    PROVE  OrderOK(e)'
<1>1. Done(e)' = Done(e)
  BY DEF Done
<1> QED BY <1>1 DEF OrderOK, StreamOK, WritingOK, HandledOK, ReadsOK

\* Steps that neither read nor write.
LEMMA QuietOrder ==
    ASSUME \A e \in End : OrderOK(e),
           UNCHANGED <<sender, stream, shifted, handled>>,
           \A e \in End : /\ loop'[e] # "ended" => loop[e] # "ended"
                          /\ taken'[e] \in {taken[e], "nothing"}
    PROVE  \A e \in End : OrderOK(e)'
<1> TAKE e \in End
<1> QED BY OrderFrame, Ends DEF sender

\* A message taken in hand comes after all that were written.
LEMMA WriteOrder ==
    ASSUME LoopInv, NEW e \in End, NEW asks \in BOOLEAN, Write(e, asks), Wins(e),
           UNCHANGED <<stream, shifted, handled>>
    PROVE  \A f \in End : OrderOK(f)' /\ Done(f)' = Done(f)
<1> DEFINE p == Peer(e)
<1> DEFINE m == Message(written[e] + 1, asks)
<1>0. /\ p \in End /\ p # e /\ Peer(p) = e /\ \A f \in End : f = e \/ f = p
      /\ TypeOK /\ WritesOK /\ OrderOK(e) /\ OrderOK(p)
  BY Ends DEF LoopInv
<1>1. written[e] \in Nat /\ writing[e] = <<>> /\ Len(stream[p]) \in Nat /\ Done(p) \in Int
  BY <1>0, Counts DEF Wins, WritesOK
<1>2. /\ Len(m) = 2
      /\ m[1].part = "length" /\ m[1].number = written[e] + 1
      /\ m[2].part = "payload" /\ m[2].number = written[e] + 1
  BY <1>1, MessageType
<1>3. /\ written'[e] = written[e] + 1 /\ written'[p] = written[p]
      /\ writing'[e] = m /\ writing'[p] = writing[p]
  BY <1>0 DEF Write, TypeOK
<1>4. Done(p)' = Done(p) /\ Done(e)' = Done(e)
  <2>1. Done(p)' = (written[e] + 1) + (written[e] + 1) - Len(stream[p]) - 2
    BY <1>0, <1>2, <1>3 DEF Done
  <2>2. Done(p) = written[e] + written[e] - Len(stream[p]) - 0
    BY <1>0, <1>1 DEF Done
  <2>3. Done(e)' = Done(e)
    BY <1>0, <1>3 DEF Done
  <2> QED BY <2>1, <2>2, <2>3, <1>1, Positions
<1>5. /\ loop'[p] = loop[p] /\ loop[e] # "ended" /\ taken'[p] = taken[p]
      /\ taken'[e] = "nothing"
  BY <1>0 DEF Write, Await, Wins, TypeOK
<1>6. OrderOK(p)'
  BY <1>0, <1>3, <1>4, <1>5 DEF OrderOK, StreamOK, WritingOK, HandledOK, ReadsOK
<1>7. WritingOK(e)'
  <2> SUFFICES ASSUME NEW i \in 1 .. 2
               PROVE  At(m[i], (written[e] + 1) + (written[e] + 1) - 2 + i)
    BY <1>2, <1>3 DEF WritingOK
  <2> QED BY <1>1, <1>2 DEF At
<1>8. StreamOK(e)' /\ HandledOK(e)' /\ ReadsOK(e)'
  BY <1>0, <1>4, <1>5 DEF OrderOK, StreamOK, HandledOK, ReadsOK
<1> QED BY <1>0, <1>4, <1>6, <1>7, <1>8 DEF OrderOK

\* A part goes from the hands of the writer to the end of the stream, and keeps its
\* position.
LEMMA PartOrder ==
    ASSUME LoopInv, NEW e \in End, WritePart(e)
    PROVE  \A f \in End : OrderOK(f)' /\ Done(f)' = Done(f)
<1> DEFINE p == Peer(e)
<1>0. /\ p \in End /\ p # e /\ Peer(p) = e /\ \A f \in End : f = e \/ f = p
      /\ TypeOK /\ WritesOK /\ OrderOK(e) /\ OrderOK(p)
  BY Ends DEF LoopInv
<1>1. /\ writing[e] \in Seq(Part) /\ writing[e] # <<>> /\ stream[p] \in Seq(Part)
      /\ written[e] \in Nat /\ Done(p) \in Int
      /\ Len(stream[p]) \in Nat /\ Len(writing[e]) \in Nat
  BY <1>0, Counts DEF WritePart, WritesOK, TypeOK
<1>2. /\ stream'[p] = Append(stream[p], Head(writing[e])) /\ stream'[e] = stream[e]
      /\ writing'[e] = Tail(writing[e]) /\ writing'[p] = writing[p]
      /\ written' = written /\ UNCHANGED <<taken, shifted, handled>>
      /\ loop'[p] = loop[p] /\ loop[e] # "ended"
  BY <1>0 DEF WritePart, TypeOK, Await, reader
<1>3. /\ Len(Append(stream[p], Head(writing[e]))) = Len(stream[p]) + 1
      /\ \A i \in 1 .. Len(stream[p]) : Append(stream[p], Head(writing[e]))[i] = stream[p][i]
      /\ Append(stream[p], Head(writing[e]))[Len(stream[p]) + 1] = writing[e][1]
  BY <1>1
<1>4. /\ Len(Tail(writing[e])) = Len(writing[e]) - 1 /\ Len(writing[e]) >= 1
      /\ \A i \in 1 .. Len(writing[e]) - 1 : Tail(writing[e])[i] = writing[e][i + 1]
  BY <1>1
<1>5. Done(p)' = Done(p) /\ Done(e)' = Done(e)
  <2> DEFINE w == written[e]
  <2> DEFINE n == Len(stream[p])
  <2> DEFINE r == Len(writing[e])
  <2>1. Done(p)' = w + w - (n + 1) - (r - 1)
    BY <1>0, <1>2, <1>3, <1>4 DEF Done
  <2>2. Done(p) = w + w - n - r
    BY <1>0 DEF Done
  <2>3. Done(e)' = Done(e)
    BY <1>0, <1>2 DEF Done
  <2>4. w \in Int /\ n \in Int /\ r \in Int
    BY <1>1
  <2> HIDE DEF w, n, r
  <2>5. w + w - (n + 1) - (r - 1) = w + w - n - r
    BY <2>4
  <2> QED BY <2>1, <2>2, <2>3, <2>5
<1>6. StreamOK(p)'
  <2> DEFINE t == Append(stream[p], Head(writing[e]))
  <2> DEFINE n == Len(stream[p])
  <2>1. \A i \in 1 .. n : At(t[i], Done(p) + i)
    BY <1>0, <1>3 DEF OrderOK, StreamOK
  <2>2. Done(p) + (n + 1) = written[e] + written[e] - Len(writing[e]) + 1
    <3> DEFINE w == written[e]
    <3> DEFINE r == Len(writing[e])
    <3>1. Done(p) = w + w - n - r
      BY <1>0 DEF Done
    <3>2. w \in Int /\ n \in Int /\ r \in Int
      BY <1>1
    <3> HIDE DEF n, w, r
    <3>3. (w + w - n - r) + (n + 1) = w + w - r + 1
      BY <3>2
    <3>4. Done(p) + (n + 1) = w + w - r + 1
      BY <3>1, <3>3
    <3> QED BY <3>4 DEF w, r
  <2>3. At(t[n + 1], Done(p) + (n + 1))
    <3>1. At(writing[e][1], written[e] + written[e] - Len(writing[e]) + 1)
      BY <1>0, <1>1, <1>4 DEF OrderOK, WritingOK
    <3>2. t[n + 1] = writing[e][1]
      BY <1>3
    <3> HIDE DEF t, n
    <3> QED BY <2>2, <3>1, <3>2
  <2>4. n \in Nat /\ Len(t) = n + 1 /\ stream'[p] = t
    BY <1>1, <1>2, <1>3
  <2> HIDE DEF t, n
  <2>5. \A i \in 1 .. n + 1 : At(t[i], Done(p) + i)
    <3> TAKE i \in 1 .. n + 1
    <3>1. i = n + 1 \/ i \in 1 .. n
      BY <2>4
    <3> QED BY <3>1, <2>1, <2>3
  <2> QED BY <2>4, <2>5, <1>5 DEF StreamOK
<1>7. WritingOK(e)'
  <2> SUFFICES ASSUME NEW i \in 1 .. Len(writing[e]) - 1
               PROVE  At(writing[e][i + 1], written[e] + written[e] - (Len(writing[e]) - 1) + i)
    BY <1>2, <1>4 DEF WritingOK
  <2>1. At(writing[e][i + 1], written[e] + written[e] - Len(writing[e]) + (i + 1))
    BY <1>0, <1>1 DEF OrderOK, WritingOK
  <2>2. written[e] \in Int /\ Len(writing[e]) \in Int /\ i \in Int
    BY <1>1
  <2>3. written[e] + written[e] - (Len(writing[e]) - 1) + i
           = written[e] + written[e] - Len(writing[e]) + (i + 1)
    BY <2>2, Positions
  <2> QED BY <2>1, <2>3
<1>8. WritingOK(p)' /\ HandledOK(p)' /\ ReadsOK(p)'
  BY <1>0, <1>2, <1>5 DEF OrderOK, WritingOK, HandledOK, ReadsOK
<1>9. StreamOK(e)' /\ HandledOK(e)' /\ ReadsOK(e)'
  BY <1>0, <1>2, <1>5 DEF OrderOK, StreamOK, HandledOK, ReadsOK
<1> QED BY <1>0, <1>5, <1>6, <1>7, <1>8, <1>9 DEF OrderOK

\* A read takes the first part and leaves the others at their positions.
LEMMA ReadsOrder ==
    ASSUME LoopInv, NEW e \in End, NEW what, Reads(e, what)
    PROVE  /\ Done(e)' = Done(e) + 1
           /\ StreamOK(e)' /\ WritingOK(e)'
           /\ At(Head(stream[e]), Done(e) + 1)
           /\ Head(stream[e]) \in Part
<1>0. TypeOK /\ OrderOK(e) /\ Peer(e) \in End
  BY Ends DEF LoopInv
<1>1. /\ stream[e] \in Seq(Part) /\ stream[e] # <<>> /\ Len(stream[e]) \in Nat
      /\ Done(e) \in Int /\ written[Peer(e)] \in Nat /\ Len(writing[Peer(e)]) \in Nat
  BY <1>0, Counts DEF Reads, TypeOK
<1>2. stream'[e] = Tail(stream[e]) /\ UNCHANGED <<written, writing>>
  BY DEF Reads, TypeOK, LoopInv, sender
<1>3. /\ Len(Tail(stream[e])) = Len(stream[e]) - 1 /\ Len(stream[e]) >= 1
      /\ \A i \in 1 .. Len(stream[e]) - 1 : Tail(stream[e])[i] = stream[e][i + 1]
      /\ Head(stream[e]) = stream[e][1] /\ Head(stream[e]) \in Part
  BY <1>1
<1>4. Done(e)' = Done(e) + 1
  <2> DEFINE w == written[Peer(e)]
  <2> DEFINE r == Len(writing[Peer(e)])
  <2>1. Done(e)' = w + w - (Len(stream[e]) - 1) - r
    BY <1>2, <1>3 DEF Done
  <2>2. Done(e) = w + w - Len(stream[e]) - r
    BY DEF Done
  <2>3. w \in Int /\ Len(stream[e]) \in Int /\ r \in Int
    BY <1>1
  <2> HIDE DEF w, r
  <2> QED BY <2>1, <2>2, <2>3, Positions
<1>5. StreamOK(e)'
  <2> SUFFICES ASSUME NEW i \in 1 .. Len(stream[e]) - 1
               PROVE  At(stream[e][i + 1], Done(e) + 1 + i)
    BY <1>2, <1>3, <1>4 DEF StreamOK
  <2>1. At(stream[e][i + 1], Done(e) + (i + 1))
    BY <1>0, <1>1 DEF OrderOK, StreamOK
  <2>2. Done(e) + 1 + i = Done(e) + (i + 1)
    BY <1>1
  <2> QED BY <2>1, <2>2
<1>6. WritingOK(e)'
  BY <1>0, <1>2 DEF OrderOK, WritingOK
<1>7. At(stream[e][1], Done(e) + 1)
  BY <1>0, <1>1, <1>3 DEF OrderOK, StreamOK
<1> QED BY <1>3, <1>4, <1>5, <1>6, <1>7

\* The steps of a read leave what belongs to the other end alone.
LEMMA OtherEnd ==
    ASSUME LoopInv, NEW e \in End, NEW what, Reads(e, what),
           loop'[Peer(e)] = loop[Peer(e)],
           UNCHANGED <<taken[Peer(e)], shifted[Peer(e)], handled[Peer(e)]>>
    PROVE  OrderOK(Peer(e))'
<1>1. Peer(e) \in End /\ Peer(e) # e /\ TypeOK /\ OrderOK(Peer(e))
  BY Ends DEF LoopInv
<1>2. /\ stream'[Peer(e)] = stream[Peer(e)] /\ written' = written /\ writing' = writing
      /\ loop'[Peer(e)] # "ended" => loop[Peer(e)] # "ended"
  BY <1>1 DEF Reads, TypeOK, sender
<1> QED BY <1>1, <1>2, OrderFrame

\* A whole length is read at the beginning of a message only.
LEMMA LengthOrder ==
    ASSUME LoopInv, NEW e \in End, ReadLength(e)
    PROVE  \A f \in End : OrderOK(f)'
<1>0. TypeOK /\ OrderOK(e) /\ Peer(e) \in End /\ Peer(e) # e /\ Reads(e, "nothing")
  BY Ends DEF LoopInv, ReadLength
<1>1. /\ Done(e)' = Done(e) + 1 /\ StreamOK(e)' /\ WritingOK(e)'
      /\ At(Head(stream[e]), Done(e) + 1) /\ Head(stream[e]) \in Part
  BY <1>0, ReadsOrder
<1>2. /\ taken'[e] = "length" /\ taken'[Peer(e)] = taken[Peer(e)]
      /\ UNCHANGED <<loop, shifted, handled>> /\ loop[e] # "ended"
  BY <1>0 DEF ReadLength, Reads, GoOn, TypeOK
<1>3. Done(e) \in Int /\ Len(handled[e]) \in Nat
  BY <1>0, Counts
<1>4. HandledOK(e)'
  BY <1>0, <1>1, <1>2, <1>3 DEF OrderOK, HandledOK
<1>5. PICK n \in Nat : n + n = Done(e) + 2
  <2>1. Head(stream[e]).part = "length"
    BY DEF ReadLength
  <2>2. Head(stream[e]).number + Head(stream[e]).number = (Done(e) + 1) + 1
    BY <1>1, <2>1 DEF At
  <2>3. Head(stream[e]).number \in Nat
    BY <1>1 DEF Part
  <2> QED BY <1>3, <2>2, <2>3
<1>6. ReadsOK(e)'
  <2>1. Odd(Done(e)')
    <3>1. Done(e) + 1 >= 0
      BY <1>0, <1>3 DEF OrderOK, HandledOK
    <3>2. n # 0
      BY <1>5, <1>3, <3>1
    <3>3. n - 1 \in Nat /\ Done(e) + 1 = (n - 1) + (n - 1) + 1
      BY <1>5, <1>3, <3>2
    <3> QED BY <3>3, <1>1 DEF Odd
  <2>2. ~shifted[e] => Done(e)' = Len(handled[e]) + Len(handled[e]) + 1
    BY <1>0, <1>1, <1>2, <1>3, <1>5 DEF OrderOK, ReadsOK
  <2> QED BY <1>2, <2>1, <2>2 DEF ReadsOK
<1>7. OrderOK(Peer(e))'
  BY <1>0, <1>2, OtherEnd
<1> QED BY <1>1, <1>4, <1>6, <1>7, Ends DEF OrderOK

\* The payload that follows a length is the next message's.
LEMMA PayloadOrder ==
    ASSUME LoopInv, NEW e \in End, ReadPayload(e)
    PROVE  /\ \A f \in End : OrderOK(f)'
           /\ Head(stream[e]).number + Head(stream[e]).number = Done(e) + 1
           /\ ~shifted[e] => Head(stream[e]).number = Len(handled[e]) + 1
<1> DEFINE n == Head(stream[e]).number
<1>0. TypeOK /\ OrderOK(e) /\ Peer(e) \in End /\ Peer(e) # e /\ Reads(e, "length")
  BY Ends DEF LoopInv, ReadPayload
<1>1. /\ Done(e)' = Done(e) + 1 /\ StreamOK(e)' /\ WritingOK(e)'
      /\ At(Head(stream[e]), Done(e) + 1) /\ Head(stream[e]) \in Part
  BY <1>0, ReadsOrder
<1>2. /\ taken'[e] = "nothing" /\ taken'[Peer(e)] = taken[Peer(e)]
      /\ loop'[Peer(e)] = loop[Peer(e)] /\ shifted' = shifted
      /\ handled'[e] = Append(handled[e], n) /\ handled'[Peer(e)] = handled[Peer(e)]
      /\ loop[e] # "ended" /\ taken[e] = "length"
  BY <1>0 DEF ReadPayload, Reads, Await, TypeOK
<1>3. Done(e) \in Int /\ Len(handled[e]) \in Nat /\ n \in Nat /\ handled[e] \in Seq(Nat)
  BY <1>0, <1>1, Counts DEF Part, TypeOK
<1>4. Odd(Done(e))
  BY <1>0, <1>2 DEF OrderOK, ReadsOK
<1>5. PICK k \in Nat : Done(e) = k + k + 1
  BY <1>4 DEF Odd
<1>6. n + n = Done(e) + 1
  <2>1. n + n = (Done(e) + 1) + 1 \/ n + n = Done(e) + 1
    BY <1>1 DEF At
  <2> HIDE DEF n
  <2> QED BY <2>1, <1>3, <1>5
<1>7. /\ Len(handled'[e]) = Len(handled[e]) + 1
      /\ \A i \in 1 .. Len(handled[e]) : handled'[e][i] = handled[e][i]
      /\ handled'[e][Len(handled[e]) + 1] = n
  BY <1>2, <1>3
<1> DEFINE h == Len(handled[e])
<1>8. ~shifted[e] => Done(e) = h + h + 1 /\ n = h + 1
  <2>1. ~shifted[e] => Done(e) = h + h \/ Done(e) = h + h + 1
    BY <1>0, <1>2 DEF OrderOK, ReadsOK
  <2>2. h \in Nat /\ n \in Nat /\ Done(e) \in Int
    BY <1>3
  <2> HIDE DEF h, n
  <2> QED BY <2>1, <2>2, <1>5, <1>6
<1>9. HandledOK(e)'
  <2>1. h + h <= Done(e)
    BY <1>0 DEF OrderOK, HandledOK
  <2>2. (h + 1) + (h + 1) <= Done(e) + 1
    <3> HIDE DEF h
    <3> QED BY <2>1, <1>5, <1>3 DEF h
  <2>3. ~shifted[e] => \A i \in 1 .. h + 1 : handled'[e][i] = i
    <3>1. ~shifted[e] => \A i \in 1 .. h : handled[e][i] = i
      BY <1>0 DEF OrderOK, HandledOK
    <3>2. ~shifted[e] => handled'[e][h + 1] = h + 1
      BY <1>7, <1>8
    <3>3. \A i \in 1 .. h + 1 : i = h + 1 \/ i \in 1 .. h
      BY <1>3
    <3> QED BY <3>1, <3>2, <3>3, <1>7
  <2> QED BY <2>2, <2>3, <1>1, <1>2, <1>7 DEF HandledOK
<1>10. ReadsOK(e)'
  <2>1. ~shifted[e] => Done(e)' = (h + 1) + (h + 1)
    <3>1. h \in Nat
      BY <1>3
    <3> HIDE DEF h
    <3> QED BY <3>1, <1>1, <1>8
  <2> QED BY <1>2, <1>7, <2>1 DEF ReadsOK
<1>11. OrderOK(Peer(e))'
  BY <1>0, <1>2, OtherEnd
<1> QED BY <1>1, <1>6, <1>8, <1>9, <1>10, <1>11, Ends DEF OrderOK

\* A read that ends the loop, or is no message, handles nothing.
LEMMA GarbageOrder ==
    ASSUME LoopInv, NEW e \in End, ReadRest(e) \/ ReadGarbage(e)
    PROVE  \A f \in End : OrderOK(f)'
<1>0. /\ TypeOK /\ OrderOK(e) /\ Peer(e) \in End /\ Peer(e) # e
      /\ Reads(e, "nothing") \/ Reads(e, "garbage")
  BY Ends DEF LoopInv, ReadRest, ReadGarbage
<1>1. Done(e)' = Done(e) + 1 /\ StreamOK(e)' /\ WritingOK(e)'
  BY <1>0, ReadsOrder
<1>2. /\ handled' = handled
      /\ taken'[Peer(e)] = taken[Peer(e)] /\ loop'[Peer(e)] = loop[Peer(e)]
      /\ shifted'[Peer(e)] = shifted[Peer(e)]
      /\ shifted[e] => shifted'[e]
      /\ loop[e] # "ended"
  BY <1>0 DEF ReadRest, ReadGarbage, TakeRest, Reads, Lose, GoOn, Await, TypeOK
<1>3. loop'[e] = "ended" \/ (taken'[e] = "garbage" /\ shifted'[e])
  <2>1. CASE ReadRest(e)
    BY <2>1, <1>0 DEF ReadRest, TakeRest, Lose, GoOn, Await, TypeOK
  <2>2. CASE ReadGarbage(e)
    <3>1. taken[e] = "garbage" /\ loop[e] = "selects"
      BY <2>2 DEF ReadGarbage, Reads
    <3>2. shifted[e]
      BY <3>1, <1>0 DEF OrderOK, ReadsOK
    <3> QED BY <2>2, <3>2, <1>0 DEF ReadGarbage, Lose, GoOn, Await, TypeOK
  <2> QED BY <2>1, <2>2
<1>4. HandledOK(e)'
  <2>1. Done(e) \in Int /\ Len(handled[e]) \in Nat
    BY <1>0, Counts
  <2> QED BY <1>0, <1>1, <1>2, <2>1 DEF OrderOK, HandledOK
<1>5. ReadsOK(e)'
  BY <1>3 DEF ReadsOK
<1>6. OrderOK(Peer(e))'
  BY <1>0, <1>2, OtherEnd
<1> QED BY <1>1, <1>4, <1>5, <1>6, Ends DEF OrderOK

-----------------------------------------------------------------------------
(* The invariant and what follows from it                                  *)

LEMMA InvInit == Init => LoopInv
<1> SUFFICES ASSUME Init PROVE LoopInv
  OBVIOUS
<1>1. TypeOK /\ WritesOK
  BY TypeInit DEF Init, WritesOK, Everywhere
<1>2. ASSUME NEW e \in End PROVE OrderOK(e)
  <2>1. /\ loop[e] = "selects" /\ taken[e] = "nothing" /\ ~shifted[e]
        /\ stream[e] = <<>> /\ writing[e] = <<>> /\ handled[e] = <<>>
        /\ written[Peer(e)] = 0 /\ writing[Peer(e)] = <<>>
    BY Ends DEF Init, Everywhere
  <2>2. Done(e) = 0
    <3>1. Len(stream[e]) = 0 /\ Len(writing[Peer(e)]) = 0 /\ written[Peer(e)] = 0
      BY <2>1
    <3>2. Done(e) = 0 + 0 - 0 - 0
      BY <3>1 DEF Done
    <3> QED BY <3>2
  <2> QED BY <2>1, <2>2 DEF OrderOK, StreamOK, WritingOK, HandledOK, ReadsOK
<1> QED BY <1>1, <1>2 DEF LoopInv

LEMMA InvStep == LoopInv /\ [Next]_vars => LoopInv'
<1> SUFFICES ASSUME LoopInv, [Next]_vars PROVE LoopInv'
  OBVIOUS
<1>0. TypeOK /\ WritesOK /\ \A e \in End : OrderOK(e)
  BY DEF LoopInv
<1>1. TypeOK' /\ WritesOK'
  BY <1>0, TypeStep, WritesStep
<1>2. CASE UNCHANGED vars
  BY <1>2, <1>0, QuietOrder, <1>1 DEF LoopInv, vars, sender, reader
<1>3. CASE Break
  BY <1>3, <1>0, QuietOrder, <1>1 DEF LoopInv, Break, sender, reader
<1>4. ASSUME NEW e \in End, Acknowledge(e) \/ Leave(e) PROVE \A f \in End : OrderOK(f)'
  BY <1>4, <1>0, QuietOrder DEF Acknowledge, Leave, sender, reader
<1>5. ASSUME NEW e \in End, TakeCommand(e) \/ NoCommands(e) \/ Send(e) \/ Frame(e) \/ SeeClosed(e)
      PROVE  \A f \in End : OrderOK(f)'
  <2>1. /\ UNCHANGED <<sender, stream, shifted, handled>>
        /\ \A f \in End : taken'[f] \in {taken[f], "nothing"}
    BY <1>5, <1>0 DEF TakeCommand, NoCommands, Send, Frame, SeeClosed, Wins, TypeOK, reader
  <2>2. \A f \in End : loop'[f] # "ended" => loop[f] # "ended"
    BY <1>5, <1>0 DEF TakeCommand, NoCommands, Send, Frame, SeeClosed, Wins, Lose, Await, TypeOK
  <2> QED BY <2>1, <2>2, <1>0, QuietOrder
<1>6. ASSUME NEW e \in End, TakeOutbound(e) \/ Ping(e) PROVE \A f \in End : OrderOK(f)'
  BY <1>6, WriteOrder DEF TakeOutbound, Ping
<1>7. ASSUME NEW e \in End, WritePart(e) PROVE \A f \in End : OrderOK(f)'
  BY <1>7, PartOrder
<1>8. ASSUME NEW e \in End, ReadLength(e) PROVE \A f \in End : OrderOK(f)'
  BY <1>8, LengthOrder
<1>9. ASSUME NEW e \in End, ReadPayload(e) PROVE \A f \in End : OrderOK(f)'
  BY <1>9, PayloadOrder
<1>10. ASSUME NEW e \in End, ReadRest(e) \/ ReadGarbage(e) PROVE \A f \in End : OrderOK(f)'
  BY <1>10, GarbageOrder
<1> QED
  BY <1>1, <1>2, <1>3, <1>4, <1>5, <1>6, <1>7, <1>8, <1>9, <1>10 DEF Next, Step, LoopInv

LEMMA InvAlways == Spec => []LoopInv
  BY InvInit, InvStep, PTL DEF Spec

\* In particular the channel never holds more than its capacity and the stream no
\* more than flow control allows.
THEOREM TypeCorrect == Spec => []TypeOK
<1>1. LoopInv => TypeOK
  BY DEF LoopInv
<1> QED BY <1>1, InvAlways, PTL

\* The messages of the control stream are handled in the order in which they were
\* written, none twice and none left out, until a read begins with the last byte of
\* a message.
THEOREM InOrder == Spec => []HandledInOrder
<1>1. LoopInv => HandledInOrder
  <2> SUFFICES ASSUME LoopInv, NEW e \in End
               PROVE  /\ Len(handled[e]) <= written[Peer(e)]
                      /\ shifted[e] \/ \A i \in 1 .. Len(handled[e]) : handled[e][i] = i
    BY DEF HandledInOrder
  <2>1. TypeOK /\ HandledOK(e) /\ Peer(e) \in End
    BY Ends DEF LoopInv, OrderOK
  <2> DEFINE h == Len(handled[e])
  <2> DEFINE w == written[Peer(e)]
  <2> DEFINE s == Len(stream[e])
  <2> DEFINE r == Len(writing[Peer(e)])
  <2>2. h \in Nat /\ w \in Nat /\ s \in Nat /\ r \in Nat
    BY <2>1, Counts
  <2>3. h + h <= w + w - s - r
    BY <2>1 DEF HandledOK, Done
  <2>4. h <= w
    <3> HIDE DEF h, w, s, r
    <3> QED BY <2>2, <2>3
  <2> QED BY <2>1, <2>4 DEF HandledOK
<1> QED BY <1>1, InvAlways, PTL

-----------------------------------------------------------------------------
(* The refinement.  What an end has handled last is behind all that it has *)
(* yet to take, so the message it hears next was sent after it.            *)

LastOK(e) == LastHandled(e) \in Nat /\ LastHandled(e) + LastHandled(e) <= Done(e)
HeardInv == LoopInv /\ \A e \in End : LastOK(e)

\* What a step has to do.
Follows == [Numbered!Next]_(Numbered!vars) /\ \A e \in End : LastOK(e)'

\* A step that sends and hears nothing.
LEMMA StillFollows ==
    ASSUME HeardInv, UNCHANGED <<written, handled, shifted>>,
           \A e \in End : Done(e)' = Done(e)
    PROVE  Follows
<1>1. \A e \in End : LastHandled(e)' = LastHandled(e)
  BY DEF LastHandled
<1>2. \A e \in End : LastOK(e)'
  BY <1>1 DEF HeardInv, LastOK
<1>3. UNCHANGED Numbered!vars
  BY <1>1 DEF Numbered!vars
<1> QED BY <1>2, <1>3 DEF Follows

LEMMA QuietFollows ==
    ASSUME HeardInv, UNCHANGED <<sender, stream, shifted, handled>>
    PROVE  Follows
<1>1. \A e \in End : Done(e)' = Done(e)
  BY DEF Done, sender
<1> QED BY <1>1, StillFollows DEF sender

\* A message taken in hand is sent.
LEMMA WriteFollows ==
    ASSUME HeardInv, NEW e \in End, NEW asks \in BOOLEAN, Write(e, asks), Wins(e),
           UNCHANGED <<stream, shifted, handled>>
    PROVE  Follows
<1> DEFINE p == Peer(e)
<1>0. p \in End /\ Peer(p) = e /\ LoopInv /\ TypeOK
  BY Ends DEF HeardInv, LoopInv
<1>1. \A f \in End : Done(f)' = Done(f) /\ LastHandled(f)' = LastHandled(f)
  BY <1>0, WriteOrder DEF LastHandled
<1>2. \A f \in End : LastOK(f)'
  BY <1>1 DEF HeardInv, LastOK
<1>3. \A f \in End : written'[Peer(f)] = IF f = p THEN written[Peer(f)] + 1
                                                  ELSE written[Peer(f)]
  <2> TAKE f \in End
  <2>1. CASE f = p
    BY <2>1, <1>0 DEF Write, TypeOK
  <2>2. CASE f # p
    <3>1. Peer(f) # e /\ Peer(f) \in End
      BY <2>2, Ends
    <3> QED BY <2>2, <3>1 DEF Write
  <2> QED BY <2>1, <2>2
<1>4. [f \in End |-> written'[Peer(f)]]
         = [[f \in End |-> written[Peer(f)]] EXCEPT ![p] = @ + 1]
  BY <1>0, <1>3
<1>5. [f \in End |-> LastHandled(f)'] = [f \in End |-> LastHandled(f)]
  BY <1>1
<1>6. Numbered!SendTo(p)
  BY <1>4, <1>5 DEF Numbered!SendTo
<1> QED BY <1>0, <1>2, <1>6 DEF Follows, Numbered!Next

\* A part taken that is not the end of a message.
LEMMA TakeFollows ==
    ASSUME HeardInv, NEW e \in End, NEW what, Reads(e, what), UNCHANGED handled
    PROVE  /\ \A f \in End : LastHandled(f)' = LastHandled(f) /\ LastOK(f)'
           /\ written' = written
<1>0. LoopInv /\ TypeOK
  BY DEF HeardInv, LoopInv
<1>1. \A f \in End : LastHandled(f)' = LastHandled(f)
  BY DEF LastHandled
<1>2. Done(e)' = Done(e) + 1
  BY <1>0, ReadsOrder
<1>3. \A f \in End : f # e => Done(f)' = Done(f)
  BY <1>0 DEF Reads, Done, TypeOK, sender
<1>4. \A f \in End : Done(f) \in Int
  BY <1>0, Counts
<1>5. LastOK(e)'
  BY <1>1, <1>2, <1>4 DEF HeardInv, LastOK
<1>6. \A f \in End : f # e => LastOK(f)'
  BY <1>1, <1>3 DEF HeardInv, LastOK
<1> QED BY <1>1, <1>5, <1>6 DEF Reads, sender

\* A length, and the garbage behind it, are none of the stream's business.
LEMMA LengthFollows ==
    ASSUME HeardInv, NEW e \in End, NEW what, Reads(e, what), UNCHANGED <<handled, shifted>>
    PROVE  Follows
<1>1. /\ \A f \in End : LastHandled(f)' = LastHandled(f) /\ LastOK(f)'
      /\ written' = written
  BY TakeFollows
<1> QED BY <1>1 DEF Follows, Numbered!vars

\* The rest of a cut message that is taken for a length is a slip.
LEMMA RestFollows ==
    ASSUME HeardInv, NEW e \in End, ReadRest(e)
    PROVE  Follows
<1>0. Reads(e, "nothing") /\ UNCHANGED handled
  BY DEF ReadRest
<1>1. CASE Lose(e) /\ UNCHANGED <<taken, shifted>>
  BY <1>0, <1>1, LengthFollows
<1>2. CASE GoOn(e, "garbage") /\ shifted' = [shifted EXCEPT ![e] = TRUE]
  <2>1. /\ \A f \in End : LastHandled(f)' = LastHandled(f) /\ LastOK(f)'
        /\ written' = written
    BY <1>0, TakeFollows
  <2>2. Numbered!Slip(e)
    BY <1>2, <2>1 DEF Numbered!Slip
  <2> QED BY <2>1, <2>2 DEF Follows, Numbered!Next
<1> QED BY <1>1, <1>2 DEF ReadRest, TakeRest

\* The payload that follows a length is heard: it is later than what was handled, and
\* the next unless a message has slipped.
LEMMA PayloadFollows ==
    ASSUME HeardInv, NEW e \in End, ReadPayload(e)
    PROVE  Follows
<1> DEFINE n == Head(stream[e]).number
<1> DEFINE h == Len(handled[e])
<1> DEFINE w == written[Peer(e)]
<1>0. LoopInv /\ TypeOK /\ OrderOK(e) /\ Reads(e, "length") /\ Peer(e) \in End /\ LastOK(e)
  BY Ends DEF HeardInv, LoopInv, ReadPayload
<1>1. n + n = Done(e) + 1 /\ (~shifted[e] => n = h + 1)
  BY <1>0, PayloadOrder
<1>2. Done(e)' = Done(e) + 1 /\ n \in Nat
  BY <1>0, ReadsOrder DEF Part
<1>3. Done(e) \in Int /\ h \in Nat /\ w \in Nat /\ handled[e] \in Seq(Nat)
  BY <1>0, Counts DEF TypeOK
<1>4. /\ written' = written /\ shifted' = shifted
      /\ handled' = [handled EXCEPT ![e] = Append(handled[e], n)]
  BY <1>0 DEF ReadPayload, Reads, TypeOK, sender
<1>5. LastHandled(e)' = n
  <2>1. handled'[e] = Append(handled[e], n)
    BY <1>0, <1>4 DEF TypeOK
  <2>2. /\ Len(Append(handled[e], n)) = h + 1
        /\ Append(handled[e], n)[h + 1] = n
        /\ Append(handled[e], n) # <<>>
    <3>1. n \in Nat /\ handled[e] \in Seq(Nat)
      BY <1>2, <1>3
    <3> HIDE DEF n
    <3> QED BY <3>1
  <2> QED BY <2>1, <2>2 DEF LastHandled
<1>6. \A f \in End : f # e => LastHandled(f)' = LastHandled(f)
  BY <1>0, <1>4 DEF LastHandled, TypeOK
<1>7. n <= w
  <2>1. Done(e)' = w + w - Len(stream'[e]) - Len(writing[Peer(e)])
    BY <1>0, <1>4 DEF Done, Reads, sender
  <2>2. Len(stream'[e]) \in Nat /\ Len(writing[Peer(e)]) \in Nat
    <3>1. stream'[e] = Tail(stream[e]) /\ stream[e] \in Seq(Part) /\ stream[e] # <<>>
      BY <1>0 DEF Reads, TypeOK
    <3> QED BY <3>1, <1>0, Counts
  <2> DEFINE s == Len(stream'[e])
  <2> DEFINE r == Len(writing[Peer(e)])
  <2>3. n + n = w + w - s - r /\ s \in Nat /\ r \in Nat
    BY <1>1, <1>2, <2>1, <2>2
  <2> HIDE DEF n, w, s, r
  <2> QED BY <2>3, <1>2, <1>3
<1>8. LastHandled(e) + 1 <= n
  <2> HIDE DEF n
  <2> QED BY <1>0, <1>1, <1>2, <1>3 DEF LastOK
<1>9. ~shifted[e] => n = LastHandled(e) + 1
  <2> SUFFICES ASSUME ~shifted[e] PROVE LastHandled(e) = h
    BY <1>1
  <2>1. \A i \in 1 .. h : handled[e][i] = i
    BY <1>0 DEF OrderOK, HandledOK
  <2>2. CASE handled[e] = <<>>
    BY <2>2 DEF LastHandled
  <2>3. CASE handled[e] # <<>>
    <3>1. h \in 1 .. h
      BY <2>3, <1>3
    <3> QED BY <2>1, <2>3, <3>1 DEF LastHandled
  <2> QED BY <2>2, <2>3
<1>10. Numbered!Hear(e)
  <2> DEFINE heard == [f \in End |-> LastHandled(f)]
  <2>1. [f \in End |-> LastHandled(f)'] = [heard EXCEPT ![e] = n]
    BY <1>5, <1>6
  <2>2. n \in LastHandled(e) + 1 .. w
    <3>1. LastHandled(e) \in Nat
      BY <1>0 DEF LastOK
    <3> HIDE DEF n, w
    <3> QED BY <3>1, <1>2, <1>3, <1>7, <1>8
  <2>3. heard[e] = LastHandled(e) /\ [f \in End |-> written[Peer(f)]][e] = w
    OBVIOUS
  <2> HIDE DEF n
  <2> QED BY <2>1, <2>2, <2>3, <1>4, <1>9 DEF Numbered!Hear
<1>11. LastOK(e)'
  <2> HIDE DEF n
  <2> QED BY <1>1, <1>2, <1>3, <1>5 DEF LastOK
<1>12. \A f \in End : f # e => LastOK(f)'
  <2>1. \A f \in End : f # e => Done(f)' = Done(f)
    BY <1>0 DEF Reads, Done, TypeOK, sender
  <2> QED BY <2>1, <1>6 DEF HeardInv, LastOK
<1> QED BY <1>10, <1>11, <1>12 DEF Follows, Numbered!Next

LEMMA StepFollows == HeardInv /\ [Next]_vars => Follows
<1> SUFFICES ASSUME HeardInv, [Next]_vars PROVE Follows
  OBVIOUS
<1>0. LoopInv
  BY DEF HeardInv
<1>1. CASE UNCHANGED vars
  BY <1>1, QuietFollows DEF vars, sender, reader
<1>2. CASE Break
  BY <1>2, QuietFollows DEF Break, sender, reader
<1>3. ASSUME NEW e \in End, Acknowledge(e) \/ Leave(e) PROVE Follows
  BY <1>3, QuietFollows DEF Acknowledge, Leave, sender, reader
<1>4. ASSUME NEW e \in End, TakeCommand(e) \/ NoCommands(e) \/ Send(e) \/ Frame(e) \/ SeeClosed(e)
      PROVE  Follows
  BY <1>4, QuietFollows DEF TakeCommand, NoCommands, Send, Frame, SeeClosed, sender, reader
<1>5. ASSUME NEW e \in End, TakeOutbound(e) \/ Ping(e) PROVE Follows
  BY <1>5, WriteFollows DEF TakeOutbound, Ping
<1>6. ASSUME NEW e \in End, WritePart(e) PROVE Follows
  BY <1>6, <1>0, PartOrder, StillFollows DEF WritePart, reader
<1>7. ASSUME NEW e \in End, ReadLength(e) PROVE Follows
  BY <1>7, LengthFollows DEF ReadLength
<1>8. ASSUME NEW e \in End, ReadGarbage(e) PROVE Follows
  BY <1>8, LengthFollows DEF ReadGarbage
<1>9. ASSUME NEW e \in End, ReadRest(e) \/ ReadPayload(e) PROVE Follows
  BY <1>9, RestFollows, PayloadFollows
<1> QED
  BY <1>1, <1>2, <1>3, <1>4, <1>5, <1>6, <1>7, <1>8, <1>9 DEF Next, Step

LEMMA InitFollows == Init => HeardInv /\ Numbered!Init
<1> SUFFICES ASSUME Init PROVE HeardInv /\ Numbered!Init
  OBVIOUS
<1>0. LoopInv
  BY InvInit
<1>1. \A e \in End : LastHandled(e) = 0
  BY DEF Init, Everywhere, LastHandled
<1>2. ASSUME NEW e \in End PROVE LastOK(e)
  <2>1. HandledOK(e) /\ Len(handled[e]) = 0
    BY <1>0 DEF LoopInv, OrderOK, Init, Everywhere
  <2>2. 0 + 0 <= Done(e)
    BY <2>1 DEF HandledOK
  <2> QED BY <1>1, <2>2 DEF LastOK
<1>3. Numbered!Init
  BY <1>1, Ends DEF Init, Everywhere, Numbered!Init
<1> QED BY <1>0, <1>2, <1>3 DEF HeardInv

\* The loops at both ends, with their channels, the parts of messages and the reads
\* that are cut, are a stream of numbered messages: each end handles those of the
\* other in the order they were sent, none twice, and none is left out before one has
\* slipped.
THEOREM LoopImplementsStream == Spec => ImplementsStream
<1>1. Init => HeardInv /\ Numbered!Init
  BY InitFollows
<1>2. HeardInv /\ [Next]_vars => HeardInv' /\ [Numbered!Next]_(Numbered!vars)
  BY InvStep, StepFollows DEF HeardInv, Follows
<1> QED BY <1>1, <1>2, PTL DEF Spec, ImplementsStream, Numbered!Spec
=============================================================================
