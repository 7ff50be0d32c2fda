------------------------------ MODULE GapSplit ------------------------------
(***************************************************************************)
(* split_gaps_into_chunks and push_chunked (src/indexer/backfill.rs), loop *)
(* iteration by loop iteration, over u64 with saturating additions.        *)
(***************************************************************************)
EXTENDS Gaps, Sequences

CONSTANTS
    U64Max,   \* u64::MAX
    Inputs    \* the calls: head, existing_sorted and chunk_size

ASSUME GapInputs ==
    /\ U64Max \in Nat
    /\ \A c \in Inputs :
        /\ c.head \in 0 .. U64Max
        /\ c.existing \in Seq(0 .. U64Max)
        /\ c.size \in 1 .. U64Max   \* assert!(chunk_size > 0)

VARIABLES
    call,     \* the arguments, which the function never changes
    pc,       \* "scan" the outer loop; "gap", "tail" inside push_chunked
    i,        \* index of the next element of existing_sorted
    cursor,   \* first block not yet dealt with
    f, to,    \* push_chunked: start of the next piece, end of the gap
    chunks    \* the vector that is returned

vars == <<call, pc, i, cursor, f, to, chunks>>

SaturatingAdd(x, y) == IF x + y > U64Max THEN U64Max ELSE x + y

Init ==
    /\ call \in Inputs
    /\ pc = "scan" /\ i = 1 /\ cursor = 0
    /\ f = 0 /\ to = 0
    /\ chunks = <<>>

present == call.existing[i]

\* Drops the head itself.
FaultySkip ==
    /\ pc = "scan" /\ i <= Len(call.existing)
    /\ present >= call.head \/ present < cursor
    /\ i' = i + 1
    /\ UNCHANGED <<call, pc, cursor, f, to, chunks>>

\* `continue`: out of range, or not ascending.
Skip ==
    /\ pc = "scan" /\ i <= Len(call.existing)
    /\ present > call.head \/ present < cursor
    /\ i' = i + 1
    /\ UNCHANGED <<call, pc, cursor, f, to, chunks>>

\* No gap before this block, or a gap that push_chunked cuts up first.
Advance ==
    /\ pc = "scan" /\ i <= Len(call.existing)
    /\ present <= call.head /\ present >= cursor
    /\ IF present > cursor
       THEN pc' = "gap" /\ f' = cursor /\ to' = present - 1
       ELSE UNCHANGED <<pc, f, to>>
    /\ cursor' = SaturatingAdd(present, 1)
    /\ i' = i + 1
    /\ UNCHANGED <<call, chunks>>

\* `cursor < head`.
FaultyFinish ==
    /\ pc = "scan" /\ i > Len(call.existing)
    /\ IF cursor < call.head
       THEN pc' = "tail" /\ f' = cursor /\ to' = call.head
       ELSE pc' = "done" /\ UNCHANGED <<f, to>>
    /\ UNCHANGED <<call, i, cursor, chunks>>

\* After the loop: the gap up to the head, if there is one.
Finish ==
    /\ pc = "scan" /\ i > Len(call.existing)
    /\ IF cursor <= call.head
       THEN pc' = "tail" /\ f' = cursor /\ to' = call.head
       ELSE pc' = "done" /\ UNCHANGED <<f, to>>
    /\ UNCHANGED <<call, i, cursor, chunks>>

PieceEnd ==
    LET end == SaturatingAdd(f, call.size - 1)
    IN  IF end <= to THEN end ELSE to

PushPiece ==
    /\ pc \in {"gap", "tail"}
    /\ chunks' = Append(chunks, <<f, PieceEnd>>)
    /\ IF PieceEnd = to
       THEN pc' = (IF pc = "gap" THEN "scan" ELSE "done") /\ UNCHANGED f
       ELSE f' = PieceEnd + 1 /\ UNCHANGED pc
    /\ UNCHANGED <<call, i, cursor, to>>

Next == Skip \/ Advance \/ Finish \/ PushPiece

Spec == Init /\ [][Next]_vars

-----------------------------------------------------------------------------

Present == {call.existing[j] : j \in 1 .. Len(call.existing)}

Covered(b) == \E k \in 1 .. Len(chunks) : b \in Span(chunks[k])

Ascending(s) == \A j, k \in 1 .. Len(s) : j < k => s[j] <= s[k]

\* "The returned ranges are ordered ascending and non-overlapping", none is
\* empty or wider than chunk_size, and none reaches over the head - for any
\* input, sorted or not, up to the end of u64 (split_gaps_into_chunks).
PiecesAscend ==
    /\ \A k \in 1 .. Len(chunks) :
        /\ chunks[k][1] <= chunks[k][2] /\ chunks[k][2] <= call.head
        /\ chunks[k][2] - chunks[k][1] < call.size
    /\ \A k, l \in 1 .. Len(chunks) : k < l => chunks[k][2] < chunks[l][1]

\* Nothing missing is left out, whatever the input: an unsorted list can only
\* cost work ("regressive entries are tolerated").
NothingMissed ==
    pc = "done" => \A b \in Missing(call.head, Present) : Covered(b)

\* "Concatenating them yields exactly the set of missing blocks", for the
\* ascending input the contract asks for and a head below u64::MAX (at
\* u64::MAX the saturated cursor queues the last block although it is there;
\* seed_chunks binds i64 heads, so that head does not occur).
NothingPresentQueued ==
    Ascending(call.existing) /\ call.head < U64Max =>
        \A b \in Present : ~Covered(b)

\* Every variable keeps its type; the indexes and block numbers stay in u64.
TypeOK ==
    /\ call \in Inputs
    /\ pc \in {"scan", "gap", "tail", "done"}
    /\ i \in 1 .. Len(call.existing) + 1
    /\ cursor \in 0 .. U64Max
    /\ f \in 0 .. U64Max /\ to \in 0 .. U64Max
    /\ chunks \in Seq((0 .. U64Max) \X (0 .. U64Max))

\* Where the loops stand: everything below is in a piece or in the input.
Frontier == CASE pc \in {"gap", "tail"} -> f
              [] pc = "scan" -> cursor
              [] OTHER -> call.head + 1

\* The loop invariant, in three parts.
Shape ==
    /\ PiecesAscend
    /\ \A k \in 1 .. Len(chunks) : chunks[k][2] < Frontier
    /\ pc \in {"gap", "tail"} => f <= to /\ to <= call.head
    /\ pc = "gap" => to < cursor
    /\ pc = "tail" => to = call.head

\* A block is still ahead, in the gap being cut up, or dealt with.
Coverage ==
    \A b \in 0 .. call.head :
        \/ b >= cursor /\ pc \in {"scan", "gap"}
        \/ b >= f /\ b <= to /\ pc \in {"gap", "tail"}
        \/ b \in Present \/ Covered(b)

Exactness ==
    Ascending(call.existing) /\ call.head < U64Max =>
        /\ \A j \in 1 .. i - 1 :
              call.existing[j] < cursor \/ call.existing[j] > call.head
        /\ pc \in {"gap", "tail"} => \A b \in Present : ~(f <= b /\ b <= to)
        /\ \A b \in Present : ~Covered(b)

IInv == TypeOK /\ Shape /\ Coverage /\ Exactness

\* The pieces are the ones Indexer seeds the queue with.
ComputesGapRanges ==
    pc = "done" /\ Ascending(call.existing) /\ call.head < U64Max =>
        {chunks[k] : k \in 1 .. Len(chunks)}
            = GapRanges(call.head, Present, call.size)
=============================================================================
