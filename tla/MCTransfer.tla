----------------------------- MODULE MCTransfer ------------------------------
(* A small instance of Transfer for TLC: two chunks, so that a send can be  *)
(* cut between two, and two sends at once; and the sets of ranges that      *)
(* stand for the chunks, on every sequence of three ranges of five chunks.  *)
EXTENDS Transfer

R == INSTANCE RangeSets

ASSUME RangesAgreeWithSets ==
    LET ranges == {R!ChunkRange(start, end) : start \in 0 .. 5, end \in 0 .. 5}
    IN \A a, b, c \in ranges : R!AgreesWithSets(<<a, b, c>>, 4)

\* A peer that has the first chunks lacks one range up to the last, as a send in
\* Transfer has it (MissingFrom).
ASSUME MissingIsOneRange ==
    \A c \in 1 .. N + 1 :
        /\ MissingFrom(c, 1 .. c - 1)
        /\ R!MissingRanges(R!FromRanges(<<R!ChunkRange(0, c - 1)>>), N)
             = IF c > N THEN <<>> ELSE <<R!ChunkRange(c - 1, N)>>
=============================================================================
