---------------------------- MODULE FileDelivery -----------------------------
(***************************************************************************)
(* What the transfer of one file promises its two users, without messages, *)
(* streams, tasks or commands: every chunk is put on a record that outlives *)
(* the link before the sender counts it, the record is not cut back while  *)
(* the link lasts, the file appears whole at the path the user chose, and  *)
(* the sender reports it only while it is there.  Two things can go wrong, *)
(* and each is a step of its own: an older record replaces a newer one,    *)
(* which lasts until the link is lost; and two deliveries of the file get  *)
(* into each other's way, which nothing undoes.                            *)
(***************************************************************************)
CONSTANT Chunks     \* the chunks of the file

VARIABLES kept,     \* the chunks on the receiver's record
          counted,  \* the chunks the sender counts as received
          file,     \* what is at the chosen path
          reported, \* the sender reports the transfer complete
          lapsed,   \* an older record has replaced a newer one
          overlap   \* a delivery was asked for before the last one was over

vars == <<kept, counted, file, reported, lapsed, overlap>>

Files == {"none", "whole", "damaged"}

Init == /\ kept = {}
        /\ counted = {}
        /\ file = "none"
        /\ reported = FALSE
        /\ lapsed = FALSE
        /\ overlap = FALSE

\* A chunk arrives and is put on the record.
Keep(c) == /\ kept' = kept \cup {c}
           /\ UNCHANGED <<counted, file, reported, lapsed, overlap>>

\* The sender counts a chunk that is on the record, and so is not through.
Count(c) == /\ c \in kept \/ lapsed
            /\ counted' = counted \cup {c}
            /\ reported' = FALSE
            /\ UNCHANGED <<kept, file, lapsed, overlap>>

\* The old file is removed, if nobody reports it any more, and the whole new one
\* takes its place.
Remove == /\ file = "whole" /\ ~reported
          /\ file' = "none"
          /\ UNCHANGED <<kept, counted, reported, lapsed, overlap>>

Deliver == /\ file' = "whole"
           /\ UNCHANGED <<kept, counted, reported, lapsed, overlap>>

Report == /\ file = "whole"
          /\ reported' = TRUE
          /\ UNCHANGED <<kept, counted, file, lapsed, overlap>>

\* The sender takes its report back; with a new offer it also counts anew.
Withdraw == /\ reported' = FALSE
            /\ counted' \in {counted, {}}
            /\ UNCHANGED <<kept, file, lapsed, overlap>>

\* The receiver asks for what its record lacks.
Ask == /\ overlap' \in {overlap, TRUE}
       /\ kept' \in IF lapsed THEN SUBSET Chunks ELSE {kept}
       /\ UNCHANGED <<counted, file, reported, lapsed>>

\* An older record replaces the newer one.
Lapse == /\ lapsed' = TRUE
         /\ kept' \in SUBSET Chunks
         /\ UNCHANGED <<counted, file, reported, overlap>>

\* Deliveries that overlap: of the file and the report nothing is promised.
Spoil == /\ overlap
         /\ file' \in Files
         /\ reported' \in BOOLEAN
         /\ UNCHANGED <<kept, counted, lapsed, overlap>>

\* The link is lost.  An older record may be the last one written, but now the
\* sender has forgotten what it counted.
Break == /\ counted' = {}
         /\ reported' = FALSE
         /\ lapsed' = FALSE
         /\ kept' \in SUBSET (IF lapsed THEN Chunks ELSE kept)
         /\ file' \in IF overlap THEN Files ELSE {file}
         /\ UNCHANGED overlap

Next == \/ \E c \in Chunks : Keep(c) \/ Count(c)
        \/ Remove \/ Deliver \/ Report \/ Withdraw
        \/ Ask \/ Lapse \/ Spoil \/ Break

Spec == Init /\ [][Next]_vars
=============================================================================
