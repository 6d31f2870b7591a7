---------------------------- MODULE RoomService ----------------------------
(***************************************************************************)
(* What the signaling worker promises about a room code, without sockets,  *)
(* queues or handlers: a code is either free or owned by exactly one host, *)
(* an owned code admits at most one guest, a guest may come and go while   *)
(* the host stays, and the room ends with its host, guest and all.         *)
(***************************************************************************)
CONSTANTS Codes,    \* the room codes
          Sockets,  \* the connections
          NoOne     \* the absence of a connection

VARIABLES host,     \* host[c]: the connection that owns code c
          guest     \* guest[c]: the connection that joined it

vars == <<host, guest>>

Occupants(c) == {host[c], guest[c]} \ {NoOne}

TypeOK == /\ host \in [Codes -> Sockets \cup {NoOne}]
          /\ guest \in [Codes -> Sockets \cup {NoOne}]

Init == /\ host = [c \in Codes |-> NoOne]
        /\ guest = [c \in Codes |-> NoOne]

\* A connection that is in no room takes a free code.
Open(c, s) == /\ host[c] = NoOne
              /\ \A d \in Codes : s \notin Occupants(d)
              /\ host' = [host EXCEPT ![c] = s]
              /\ UNCHANGED guest

\* A connection that is in no room joins an owned code with a free seat.
Enter(c, s) == /\ host[c] # NoOne
               /\ guest[c] = NoOne
               /\ \A d \in Codes : s \notin Occupants(d)
               /\ guest' = [guest EXCEPT ![c] = s]
               /\ UNCHANGED host

\* The guest goes; the room stays open for another guest.
Leave(c) == /\ guest[c] # NoOne
            /\ guest' = [guest EXCEPT ![c] = NoOne]
            /\ UNCHANGED host

\* The host goes, and nobody is left in the room.
Shut(c) == /\ host[c] # NoOne
           /\ host' = [host EXCEPT ![c] = NoOne]
           /\ guest' = [guest EXCEPT ![c] = NoOne]

Next == \E c \in Codes : \/ \E s \in Sockets : Open(c, s) \/ Enter(c, s)
                         \/ Leave(c)
                         \/ Shut(c)

Spec == Init /\ [][Next]_vars
=============================================================================
