------------------------------- MODULE RangeSets -------------------------------
(***************************************************************************)
(* The sets of chunks that travel in acceptances and acknowledgements and  *)
(* lie in the sidecar (clients/p2p-core/src/transfer.rs): a sequence of    *)
(* ranges, kept in order and with a gap between each and the next.         *)
(*                                                                         *)
(* Transfer works with sets of chunks; Cover is the set a sequence of      *)
(* ranges stands for.                                                      *)
(***************************************************************************)
EXTENDS SequencesExt

ChunkRange(start, end) == [start |-> start, end |-> end]
IsEmpty(range) == range.start >= range.end

\* One turn of insert_range's loop over the ranges: what was merged so far, the new
\* range with what it has swallowed, and whether it is in its place.
Taken(acc, range) ==
    IF range.end < acc.new.start THEN [acc EXCEPT !.merged = Append(@, range)]
    ELSE IF acc.new.end < range.start
    THEN [acc EXCEPT !.merged = (IF acc.inserted THEN @ ELSE Append(@, acc.new)) \o <<range>>,
                     !.inserted = TRUE]
    ELSE [acc EXCEPT !.new = ChunkRange(Min({@.start, range.start}), Max({@.end, range.end}))]

InsertRange(ranges, new) ==
    LET acc == FoldLeft(Taken, [merged |-> <<>>, new |-> new, inserted |-> FALSE], ranges)
    IN IF IsEmpty(new) THEN ranges
       ELSE IF acc.inserted THEN acc.merged ELSE Append(acc.merged, acc.new)

FromRanges(ranges) == FoldLeft(InsertRange, <<>>, ranges)

\* The gaps before, between and behind the ranges, up to the last chunk.
MissingRanges(ranges, total) ==
    LET pass(acc, range) ==
            [found |-> IF acc.cursor < range.start
                       THEN Append(acc.found, ChunkRange(acc.cursor, Min({range.start, total})))
                       ELSE acc.found,
             cursor |-> Min({Max({acc.cursor, range.end}), total})]
        acc == FoldLeft(pass, [found |-> <<>>, cursor |-> 0], ranges)
        all == IF acc.cursor < total THEN Append(acc.found, ChunkRange(acc.cursor, total))
               ELSE acc.found
    IN SelectSeq(all, LAMBDA range : ~IsEmpty(range))

CompletedChunks(ranges) ==
    FoldLeft(LAMBDA sum, range : sum + Max({range.end - range.start, 0}), 0, ranges)

-----------------------------------------------------------------------------
(* What they are to compute                                                *)

Cover(ranges) == UNION {ranges[i].start .. ranges[i].end - 1 : i \in DOMAIN ranges}

\* In order, none empty, and none that touches the next.
Normal(ranges) == /\ \A i \in DOMAIN ranges : ~IsEmpty(ranges[i])
                  /\ \A i \in 1 .. Len(ranges) - 1 : ranges[i].end < ranges[i + 1].start

\* FromRanges stands for the chunks of all ranges whatever their order, overlaps and
\* empty ones; what is missing are the other chunks of the file, each once; and the
\* sum of the lengths is the number of chunks.
AgreesWithSets(ranges, total) ==
    LET set == FromRanges(ranges)
        missing == MissingRanges(set, total)
    IN /\ Normal(set) /\ Cover(set) = Cover(ranges)
       /\ Normal(missing) /\ Cover(missing) = (0 .. total - 1) \ Cover(set)
       /\ CompletedChunks(set) = Cardinality(Cover(set))
=============================================================================
