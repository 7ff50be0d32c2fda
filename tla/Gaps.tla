-------------------------------- MODULE Gaps --------------------------------
(***************************************************************************)
(* What split_gaps_into_chunks (src/indexer/backfill.rs) has to return,    *)
(* said without its loops.  Module GapSplit is the loops; module Indexer   *)
(* seeds the queue with this set.                                          *)
(***************************************************************************)
EXTENDS Integers

Span(r) == r[1] .. r[2]

Missing(head, existing) == (0 .. head) \ existing

\* Every maximal run of missing blocks, cut from its start into pieces of
\* `size`, the last of which may be shorter.
GapRanges(head, existing, size) ==
    LET missing == Missing(head, existing)
        RunStart(g) == g \in missing /\ g - 1 \notin missing
    IN  {r \in missing \X missing :
            /\ r[1] <= r[2]
            /\ Span(r) \subseteq missing
            /\ \E g \in 0 .. r[1] :
                  /\ RunStart(g) /\ g .. r[2] \subseteq missing
                  /\ (r[1] - g) % size = 0
            /\ \/ r[2] = r[1] + size - 1
               \/ r[2] < r[1] + size - 1 /\ r[2] + 1 \notin missing}
=============================================================================
